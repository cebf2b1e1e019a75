----------------------------- MODULE MCWebhook ------------------------------
(* Instances of Webhook for TLC.                                           *)
EXTENDS Webhook, TLC

CONSTANTS l1, l2

Units == Labels \cup {Blank, Bad}

\* Names with up to two at signs, and all they can have in front.
Names  == UNION {[1 .. n -> Units] : n \in 1 .. 2} \cup {<<l1, l1, l1>>}
Fronts == {<<u>> : u \in Units} \cup {<<l1, l2>>}
Items  == {<<n>> : n \in Names} \cup (Fronts \X Names) \cup {<< <<l1>>, <<l1>>, <<l1>> >>}

\* What may stand beside another item.
Simple == {<< <<l1>> >>, << <<l2>>, <<l1>> >>, << <<Bad>> >>}

Elements ==
  [null : {FALSE}, name : {l1, Blank}, namespace : Labels \cup {Blank, LocalMark}]
    \cup {[null |-> TRUE, name |-> Blank, namespace |-> Blank]}

MCAnnotations ==
  {[form |-> f, parts |-> << >>] : f \in {"blank", "badJson", "json"}}
    \cup {[form |-> "list", parts |-> <<i>>] : i \in Items}
    \cup {[form |-> "list", parts |-> p] : p \in (Simple \X Items)}
    \cup {[form |-> "json", parts |-> p] : p \in (Elements \X Elements) \cup {<<e>> : e \in Elements}}

Plugins == Types \cup {"missing", "odd", "blank", "noObject"}

MCConfigs ==
  [form : {"empty", "notJson"}, name : {"missing"}, type : {"missing"}, plugins : {<< >>}]
    \cup [form : {"single", "odd"}, name : {"missing", "odd", "text"},
          type : Types \cup {"missing", "odd", "blank"}, plugins : {<< >>}]
    \cup [form : {"list"}, name : {"missing", "odd", "text"},
          type : Types \cup {"missing", "odd", "blank"},
          plugins : UNION {[1 .. n -> Plugins] : n \in 0 .. 2}]

=============================================================================
