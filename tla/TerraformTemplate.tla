-------------------------- MODULE TerraformTemplate --------------------------
(***************************************************************************)
(* The conversion of a Terraform configuration to a ROS template:          *)
(* TerraformTemplate in rostran/providers/terraform/template.py.  It joins *)
(* what the configuration says (load_config_dir, or the configuration part *)
(* of the plan) with what the plan computed, instance by instance, and     *)
(* converts each instance with the rule of its resource type; the result   *)
(* is written by ResourceOrder.                                            *)
(*                                                                         *)
(* Kept of a resource: its instances, its depends_on and the expressions   *)
(* of the attributes the plan has no value for.  Values known to the plan  *)
(* are copied and never matter to another resource.                        *)
(***************************************************************************)
EXTENDS ResourceOrder

CONSTANTS
  Names,        \* addresses in the configuration, "type.name"
  DataSources,  \* addresses of data sources, which depends_on may name
  Indexes,      \* the values of `index` in the plan
  NoIndex,      \* an instance without one
  Attributes,   \* the attributes an expression may ask for
  AttributeTo,  \* what the rules make of each: see GetAtt
  InstanceSets, \* the indexes of the instances a resource may have
  Bodies,       \* the resource bodies of the configurations considered
  OutputSets    \* what their outputs may be

Address(n, i) == <<n, i>>

Addresses == Names \X (Indexes \cup {NoIndex})

ASSUME TerraformAssumption ==
  /\ NoIndex \notin Indexes
  /\ Addresses \subseteq Ids
  /\ {Address(d, NoIndex) : d \in DataSources} \subseteq Ids
  /\ InstanceSets \subseteq {{NoIndex}} \cup SUBSET Indexes
  /\ AttributeTo \in [Attributes -> {"none", "plain", "nested", "list"}]

\* An expression of the configuration, as _parse_source_expr tells them apart.
\*   attribute  type.name.attr
\*   element    type.name[key].attr, with a key that is an integer
\*   relative   type.name[...].attr with an index that is an expression, such
\*              as count.index: the index itself is not read
\*   splat      type.name[*].attr
\*   call       a function call whose first reference is to/attr
\*   compound   a template, a conditional or an operation, likewise
\*   other      var., data., a for expression, a key that is not an integer,
\*              a relative one in a nested block
\* rule: what the rule of the property does with the value, see PropRefs.
Kinds == {"attribute", "element", "relative", "splat", "call", "compound",
          "other"}

PropRules == {"to", "inside", "dropped", "list", "map"}

Expression ==
  [kind : Kinds, to : Names, key : Indexes, attr : Attributes, rule : PropRules]

\* unreadable: there is something the code has a KeyError for: a nested block
\* that the plan has no values for (such as lifecycle), an index in depends_on,
\* or, in a counted resource, an attribute of what is not an indexed resource.
Block ==
  [dependsOn : SUBSET (Names \cup DataSources), exprs : SUBSET Expression,
   unreadable : BOOLEAN]

ASSUME BodiesAssumption ==
  Bodies \subseteq Block /\ OutputSets \subseteq SUBSET Expression

VARIABLES
  tf,         \* what the conversion does next
  fallback,   \* whether the configuration was read from the plan
  planned,    \* the plan: the indexes of the instances of each resource
  supported,  \* the resources whose type has a rule
  declared,   \* the resources of the configuration
  todo,       \* those whose instances are not parsed yet
  parsed,     \* _parse_resources: the instances, by address
  ready,      \* the parsed instances not transformed yet
  converted,  \* out_resources
  outputs     \* the addresses the outputs refer to

tfVars == <<tf, fallback, planned, supported, declared, todo, parsed, ready,
            converted, outputs>>

TfInit ==
  /\ IdleInit
  /\ tf = "load"
  /\ fallback = FALSE
  /\ planned = [n \in Names |-> {}]
  /\ supported = {}
  /\ declared = {}
  /\ todo = {}
  /\ parsed = <<>>
  /\ ready = {}
  /\ converted = <<>>
  /\ outputs = {}

----------------------------------------------------------------------------
\* _get_plan_data: terraform init, plan and show, or a plan the user gives,
\* which need not be of this configuration.  f: load_config_dir failed.
GetPlanData(p, s, d, f) ==
  /\ tf = "load"
  /\ tf' = IF d = {} THEN "transform" ELSE "parse"
  /\ fallback' = f
  /\ planned' = p
  /\ supported' = s
  /\ declared' = d
  /\ todo' = d
  /\ UNCHANGED <<parsed, ready, converted, outputs>>

\* A terraform command fails, the format of the plan is not supported, the
\* configuration cannot be read either way, or it has no provider, several,
\* or one without rules.
Refuse ==
  /\ tf = "load"
  /\ tf' = "failed"
  /\ UNCHANGED <<fallback, planned, supported, declared, todo, parsed, ready,
                 converted, outputs>>

----------------------------------------------------------------------------
\* _plan_expression_to_expr keeps of an expression its first reference,
\* without indexes; that of a relative one or a splat, "type.name", is too
\* short to be an attribute.
FromPlan(e) ==
  [e EXCEPT !.kind =
     IF @ \in {"attribute", "element", "call", "compound"} THEN "attribute" ELSE "other"]

\* _parse_source_expr in a resource instance whose index is i: the instances
\* and the attribute that GetAtt asks for; a call asks for none.  An
\* expression without a value leaves its property out.
HasValue(e, i) ==
  \/ e.kind \in {"attribute", "element", "call"}
  \/ e.kind = "relative" /\ i # NoIndex

ParseExpr(e, i) ==
  [to |-> CASE e.kind = "attribute" -> {Address(e.to, NoIndex)}
            [] e.kind = "element" -> {Address(e.to, e.key)}
            [] e.kind = "relative" /\ i # NoIndex -> {Address(e.to, i)}
            [] OTHER -> {},
   attr |-> e.attr]

\* What of the configuration's body the conversion sees.  The body read from
\* a plan has no depends_on.
Exprs(block) == IF fallback THEN {FromPlan(e) : e \in block.exprs} ELSE block.exprs

ParsedDependsOn(block) ==
  IF fallback THEN {} ELSE {Address(n, NoIndex) : n \in block.dependsOn}

\* The properties that _parse_source_config gives an instance.
Props(block, i) ==
  {[value |-> ParseExpr(e, i), rule |-> e.rule] : e \in {x \in Exprs(block) : HasValue(x, i)}}

\* Slip: keyed by the name alone, one instance is left of each resource.
LastInstance(n) == {Address(n, CHOOSE i \in planned[n] : TRUE)}

\* The instances of n in the plan, found by "{type}.{name}".
Instances(n) == {Address(n, i) : i \in planned[n]}

\* Each planned instance of the managed resource n is parsed with its body.
\* A resource without an instance in the plan (count = 0) is a KeyError, and
\* so is an unreadable body, unless it was read from the plan.
ParseResource(n, block) ==
  /\ tf = "parse"
  /\ n \in todo
  /\ todo' = todo \ {n}
  /\ \/ /\ planned[n] = {} \/ (block.unreadable /\ ~fallback)
        /\ tf' = "failed"
        /\ UNCHANGED <<parsed, ready>>
     \/ /\ planned[n] # {}
        /\ ~(block.unreadable /\ ~fallback)
        /\ parsed' = [a \in DOMAIN parsed \cup Instances(n) |->
             IF a \in Instances(n)
             THEN [dependsOn |-> ParsedDependsOn(block), props |-> Props(block, a[2])]
             ELSE parsed[a]]
        /\ ready' = ready \cup Instances(n)
        /\ tf' = IF todo' = {} THEN "transform" ELSE "parse"
  /\ UNCHANGED <<fallback, planned, supported, declared, converted, outputs>>

----------------------------------------------------------------------------
\* Slip: whether the type of the resource has a rule is not looked at.
GetAttOfAny(value) ==
  IF \E a \in value.to : a[2] \in planned[a[1]] THEN AttributeTo[value.attr] ELSE "none"

\* _transform_func_get_att: the reference is kept when the plan has the
\* instance, its type has a rule and the rule has the attribute.  The form of
\* what is kept: "none", {"Fn::GetAtt": ...} itself ("plain"), the same in an
\* {"Fn::Jq": ...} ("nested"), or a list of them ("list").
GetAtt(value) ==
  IF \E a \in value.to : a[2] \in planned[a[1]] /\ a[1] \in supported
    THEN AttributeTo[value.attr]
    ELSE "none"

\* The rule iterates over the value as over a list of dicts, or a dict: a
\* value that is not one ends the conversion with a TypeError or an
\* AttributeError.
Breaks(p) ==
  \/ p.rule = "list" /\ GetAtt(p.value) # "list"
  \/ p.rule = "map" /\ GetAtt(p.value) = "none"

\* The references the converted property holds: as the value or inside a
\* function or another dict with one key.  A handler may drop what is not
\* resolved, and a rule with a schema keeps nothing of a reference.
PropRefs(p) ==
  IF GetAtt(p.value) = "none" \/ p.rule \notin {"to", "inside"} THEN {}
  ELSE {[to |-> a, single |-> p.rule = "inside" \/ GetAtt(p.value) = "nested"] :
          a \in p.value.to}

\* _transform_resources for the instance a; a resource whose type has no rule
\* is left out.
TransformResource(a) ==
  /\ tf = "transform"
  /\ a \in ready
  /\ ready' = ready \ {a}
  /\ \/ /\ a[1] \notin supported
        /\ UNCHANGED <<tf, converted>>
     \/ /\ a[1] \in supported
        /\ \E p \in parsed[a].props : Breaks(p)
        /\ tf' = "failed"
        /\ UNCHANGED converted
     \/ /\ a[1] \in supported
        /\ \A p \in parsed[a].props : ~Breaks(p)
        /\ converted' = [b \in DOMAIN converted \cup {a} |->
             IF b = a
             THEN [dependsOn |-> parsed[a].dependsOn,
                   refs |-> UNION {PropRefs(p) : p \in parsed[a].props}]
             ELSE converted[b]]
        /\ UNCHANGED tf
  /\ UNCHANGED <<fallback, planned, supported, declared, todo, parsed, outputs>>

\* _parse_output: a splat becomes the list of the planned instances; there is
\* no index here.
OutputValue(e) ==
  IF e.kind = "splat"
    THEN [to |-> {Address(e.to, i) : i \in planned[e.to]}, attr |-> e.attr]
    ELSE ParseExpr(e, NoIndex)

\* Each element of the list is converted on its own.
OutputRefs(e) ==
  UNION {LET v == [to |-> {a}, attr |-> e.attr] IN
           IF GetAtt(v) = "none" THEN {} ELSE {a} : a \in OutputValue(e).to}

\* _parse_outputs and _transform_outputs, for the outputs whose value is not
\* in the plan.  An output that the plan does not have at all is a KeyError.
TransformOutputs(exprs) ==
  /\ tf = "transform"
  /\ ready = {}
  /\ \/ /\ outputs' = UNION {OutputRefs(IF fallback THEN FromPlan(e) ELSE e) : e \in exprs}
        /\ tf' = "save"
     \/ /\ tf' = "failed"
        /\ UNCHANGED outputs
  /\ UNCHANGED <<fallback, planned, supported, declared, todo, parsed, ready, converted>>

\* The template is written, its resources in dependency order.
Save ==
  /\ tf = "save"
  /\ tf' = "saved"
  /\ Begin(converted)
  /\ UNCHANGED <<fallback, planned, supported, declared, todo, parsed, ready,
                 converted, outputs>>

\* A configuration refers to resources it declares; Terraform refuses others.
Refers(e) == e.to \in declared

WellFormed(block) ==
  block.dependsOn \cap Names \subseteq declared /\ \A e \in block.exprs : Refers(e)

Load ==
  /\ tf = "load"
  /\ \/ \E p \in [Names -> InstanceSets], s, d \in SUBSET Names, f \in BOOLEAN :
          GetPlanData(p, s, d, f)
     \/ Refuse

Outputs ==
  /\ tf = "transform"
  /\ \E x \in OutputSets : (\A e \in x : Refers(e)) /\ TransformOutputs(x)

Convert ==
  \/ Load
  \/ \E n \in todo, b \in Bodies : WellFormed(b) /\ ParseResource(n, b)
  \/ \E a \in ready : TransformResource(a)
  \/ Outputs

TfNext ==
  \/ Convert /\ UNCHANGED orderVars
  \/ Save
  \/ OrderStep /\ UNCHANGED tfVars

TfSpec == TfInit /\ [][TfNext]_<<orderVars, tfVars>>

----------------------------------------------------------------------------
\* The variables hold values of their types.
Prop == [value : [to : SUBSET Ids, attr : Attributes], rule : PropRules]

TfTypeOK ==
  /\ tf \in {"load", "parse", "transform", "save", "saved", "failed"}
  /\ fallback \in BOOLEAN
  /\ planned \in [Names -> SUBSET (Indexes \cup {NoIndex})]
  /\ supported \subseteq Names
  /\ declared \subseteq Names
  /\ todo \subseteq declared
  /\ DOMAIN parsed \subseteq Addresses
  /\ parsed \in [DOMAIN parsed -> [dependsOn : SUBSET Ids, props : SUBSET Prop]]
  /\ ready \subseteq DOMAIN parsed
  /\ DOMAIN converted \subseteq DOMAIN parsed
  /\ converted \in [DOMAIN converted -> Resource]
  /\ outputs \subseteq Addresses

\* Every reference of the template that is written, in a property or in an
\* output, names a resource of that template, although the plan may be of
\* another configuration, a resource may be left out because its type has no
\* rule, and an index may be beyond the instances (_transform_func_get_att).
ReferencesResolve ==
  tf \in {"save", "saved"} =>
    /\ \A a \in DOMAIN converted : \A r \in converted[a].refs : r.to \in DOMAIN converted
    /\ outputs \subseteq DOMAIN converted

\* The template that is written has one resource for each instance the plan
\* has of a declared resource with a rule, and no other (_parse_resources,
\* _transform_resources).
EveryInstance ==
  tf \in {"save", "saved"} =>
    DOMAIN converted =
      {a \in Addresses : a[1] \in declared \cap supported /\ a[2] \in planned[a[1]]}
=============================================================================
