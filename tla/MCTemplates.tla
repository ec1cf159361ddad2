----------------------------- MODULE MCTemplates -----------------------------
(***************************************************************************)
(* Templates small enough to be written in every order and Terraform       *)
(* configurations small enough to be converted in every way.  A behaviour  *)
(* is one `rostran format` or one conversion, to ROS or from it.           *)
(***************************************************************************)
EXTENDS TerraformTemplate, CloudFormationTemplate, RosTemplate, ExcelTemplate, TLC

CONSTANTS a, b,         \* addresses of a configuration
          x, y, z,      \* names of a template's resources
          data,         \* a data source, or a parameter
          g, h, r, s,   \* names in a CloudFormation template, or in a ROS template
          c, d,         \* conditions of a ROS template
          region, image, maps, \* see RosTemplate
          vm, disk          \* target types

MCIds == Addresses \cup {x, y, z, <<data, NoIndex>>, g, h, r, s}

\* A template of up to three resources, each with at most two names in its
\* DependsOn or one reference in its properties.
Plain == {x, y, z}

AtMost(k, S) == {T \in SUBSET S : Cardinality(T) <= k}

TemplateResource ==
  [dependsOn : AtMost(2, Plain \cup {<<data, NoIndex>>}), refs : {{}}]
    \cup [dependsOn : {{}}, refs : AtMost(1, [to : Plain, single : BOOLEAN])]

MCTemplateSet == UNION {[S -> TemplateResource] : S \in SUBSET Plain}

\* Attributes whose rule gives each form, and one without a rule.
MCAttributeTo == [id |-> "plain", ip |-> "nested", ids |-> "list", arn |-> "none"]

MCInstanceSets == {{}, {NoIndex}, {0, 1}}

\* Each kind of expression with the plainest rule, and each rule with the
\* attributes that it treats differently.
Expr(kind, key, attrs, rules) ==
  [kind : {kind}, to : Names, key : {key}, attr : attrs, rule : rules]

MCExpression ==
  Expr("attribute", 0, {"id"}, PropRules)
    \cup Expr("attribute", 0, {"ip", "ids", "arn"}, {"to"})
    \cup Expr("attribute", 0, {"ids"}, {"list"})
    \cup Expr("attribute", 0, {"arn"}, {"map"})
    \cup Expr("element", 0, {"id"}, {"to"})
    \cup Expr("element", 1, {"id"}, {"to"})
    \cup Expr("relative", 0, {"id"}, {"to"})
    \cup Expr("splat", 0, {"id"}, {"to"})
    \cup Expr("call", 0, {"id"}, {"to", "list"})
    \cup Expr("compound", 0, {"id"}, {"to"})
    \cup Expr("other", 0, {"id"}, {"to"})

\* A body has one expression, or a depends_on, or what cannot be read.
MCBodies ==
  [dependsOn : {{}}, exprs : {{e} : e \in MCExpression}, unreadable : {FALSE}]
    \cup [dependsOn : AtMost(1, Names \cup {data}), exprs : {{}}, unreadable : {FALSE}]
    \cup [dependsOn : {{}}, exprs : {{}}, unreadable : {TRUE}]

MCOutputSets == {{e} : e \in {w \in MCExpression : w.rule = "to"}}

\* Resources of every kind: a gateway may have the name of an association, and
\* an attachment may come with or without a VpcId, and name what it likes.
CfNames == {g, h, r}

MCAssociationId == [i \in Ids |-> IF i = g THEN h ELSE IF i = h THEN r
                                  ELSE IF i = r THEN s ELSE IF i = s THEN g ELSE i]

CfDefault ==
  [kind |-> "plain", dependsOn |-> {}, refs |-> {}, breaks |-> FALSE, given |-> TRUE,
   value |-> {}, slot |-> "none", gateway |-> {}]

To(i) == {[to |-> i, single |-> FALSE]}

SmallCfResource ==
  {[CfDefault EXCEPT !.kind = q] : q \in {"unsupported", "vpn", "internet"}}
    \cup {[CfDefault EXCEPT !.breaks = TRUE], [CfDefault EXCEPT !.dependsOn = {g}]}
    \cup {[CfDefault EXCEPT !.kind = "nat", !.given = q, !.value = IF q THEN To(g) ELSE {}] :
             q \in BOOLEAN}
    \cup {[CfDefault EXCEPT !.kind = "attachment", !.slot = q, !.gateway = {i}, !.value = To(s)] :
             q \in {"vpn", "internet"}, i \in {g, h}}
    \cup {[CfDefault EXCEPT !.kind = "attachment", !.slot = "internet", !.gateway = i,
                            !.given = FALSE] : i \in {{}, {g}}}
    \cup {[CfDefault EXCEPT !.kind = "attachment", !.gateway = {g}]}

MCCfTemplates == UNION {[S -> SmallCfResource] : S \in SUBSET CfNames}

\* ROS templates: one resource with any property, a DependsOn or a Count beside
\* one with any rule; or an output or a condition beside two of these.  r is a
\* parameter, g and r are keys of Terraform's, d is not in lower case.
MCCall ==
  [fn : {"Ref"}, to : {g, h, r, c}, known : {TRUE}]
    \cup [fn : {"GetAtt"}, to : {g, h}, known : BOOLEAN]
    \cup [fn : {"If"}, to : {c, d}, known : {TRUE}]
    \cup [fn : {"FindInMap"}, to : {maps}, known : {TRUE}]
    \cup [fn : {"pseudo"}, to : {region}, known : {TRUE}]
    \cup [fn : {"unsupported"}, to : {maps}, known : {TRUE}]

MCProperty == [value : AtMost(1, MCCall), schema : Schemas, at : {vm}]

RosPlain(types, condition) ==
  [targets |-> types, builtIn |-> IF types = {vm, disk} THEN {vm} ELSE {}, props |-> {},
   count |-> {}, condition |-> condition, dependsOn |-> {}]

RuleSet == {RosPlain(t, {}) : t \in {{}, {vm}, {vm, disk}}} \cup {RosPlain({vm}, {c})}

Featured(q) ==
  {[q EXCEPT !.props = {p}] : p \in MCProperty}
    \cup {[q EXCEPT !.props = {[value |-> {}, schema |-> "image", at |-> vm], p}] :
             p \in {w \in MCProperty : w.schema = "image"}}
    \cup {[q EXCEPT !.dependsOn = t, !.count = {{}}] : t \in AtMost(1, {g, h})}
    \cup {[q EXCEPT !.count = {w}] : w \in AtMost(2, MCCall)}

RosPairs(S, T) == {(g :> p) @@ (h :> q) : p \in S, q \in T}

RosTemplateOf(res, outs, conds) ==
  [params |-> {r}, mappings |-> TRUE, conditions |-> conds,
   resources |-> res, outputs |-> outs]

CallsOfConditions == AtMost(1, {w \in MCCall : w.fn # "GetAtt" /\ w.to \notin {g, h}})

MCRosTemplates ==
  LET featured == UNION {Featured(q) : q \in RuleSet}
      both(t) == (c :> t) @@ (d :> {}) IN
  {RosTemplateOf(p, <<>>, both({})) : p \in RosPairs(featured, RuleSet)}
    \cup {RosTemplateOf(p, s :> [value |-> w, condition |-> t], both({})) :
             p \in RosPairs(RuleSet, RuleSet), w \in AtMost(1, MCCall), t \in {{}, {c}}}
    \cup {RosTemplateOf(<<>>, s :> [value |-> w, condition |-> {}], both(t)) :
             t \in CallsOfConditions, w \in AtMost(2, MCCall)}

\* Rows of a worksheet with two templates: the resource u in both, in one, or
\* after v; names of properties inside one another and beside one another.
Row(is, path, first, second) == [is |-> is, path |-> path, cells |-> <<first, second>>]

KeyPart(name) == Part(name, {})

ItemPart(name, index) == Part(name, {index})

MCSheetRows ==
  {Row(q, <<>>, NoValue, NoValue) :
      q \in {"comment", "blank", "parameters", "resources", "unknown"}}
    \cup {Row(q, <<KeyPart("T")>>, "u", NoValue) : q \in {"type", "badType"}}
    \cup {Row("badType", <<KeyPart("T")>>, NoValue, NoValue)}
    \cup {Row("type", <<KeyPart("T")>>, q, "u") : q \in {"u", "v", "1"}}
    \cup {Row("number", <<>>, "x", NoValue), Row("name", <<KeyPart("A")>>, "!Ref x", NoValue)}
    \cup {Row("name", <<KeyPart("A"), ItemPart("B", 0)>>, "x", NoValue)}
    \cup {Row("name", q, "x", "y") :
              q \in {<<ItemPart("A", 0)>>, <<KeyPart("A"), KeyPart("B")>>, <<KeyPart("A"), KeyPart("?")>>,
                     <<KeyPart("A"), KeyPart("B"), KeyPart("C")>>, <<KeyPart("A"), ItemPart("B", 1)>>,
                     <<ItemPart("L", 0), KeyPart("B")>>, <<ItemPart("L", 1), KeyPart("B")>>}}

\* `rostran format`: no conversion comes before the order.
Format == /\ tf = "load"
          /\ \E t \in Templates : Begin(t)
          /\ tf' = "saved"
          /\ UNCHANGED <<fallback, planned, supported, declared, todo, parsed,
                         ready, converted, outputs>>

\* One command: the other conversions are not begun.
MCNext ==
  \/ /\ ros = "load" /\ cf = "load" /\ excel = "load"
     /\ Format \/ TfNext
     /\ UNCHANGED <<cfVars, rosVars, excelVars>>
  \/ /\ ros = "load" /\ tf = "load" /\ excel = "load"
     /\ CfNext
     /\ UNCHANGED <<tfVars, rosVars, excelVars>>
  \/ /\ tf = "load" /\ cf = "load" /\ excel = "load"
     /\ RosNext
     /\ UNCHANGED <<orderVars, tfVars, cfVars, excelVars>>
  \/ /\ tf = "load" /\ cf = "load" /\ ros = "load"
     /\ ExcelNext
     /\ UNCHANGED <<orderVars, tfVars, cfVars, rosVars>>

MCInit == TfInit /\ CfInit /\ RosInit /\ ExcelInit

MCSpec == MCInit /\ [][MCNext]_<<orderVars, tfVars, cfVars, rosVars, excelVars>>

Symmetry == {p @@ q : p \in Permutations({a, b}), q \in Permutations({x, y, z})}
=============================================================================
