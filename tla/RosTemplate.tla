----------------------------- MODULE RosTemplate -----------------------------
(***************************************************************************)
(* The conversion of a ROS template to a Terraform configuration:          *)
(* ROS2TerraformTemplate in rostran/providers/ros/template.py and the      *)
(* functions it resolves, rostran/providers/ros/functions.py.  The blocks  *)
(* of the configuration are named where they are made and again in every   *)
(* place that refers to one; the module keeps the names, the references    *)
(* and the counts, and leaves out every other value.                       *)
(*                                                                         *)
(* camel_to_tf is taken to keep the names of a section apart.  No          *)
(* condition refers to a resource, and the conditions that a template      *)
(* names are its own, as ROS demands.                                      *)
(***************************************************************************)
EXTENDS Naturals, FiniteSets

CONSTANTS
  Params, RosNames, Conditions, RosOutputs,  \* names in the sections
  KeyNames,    \* names that are a key of Terraform's: TF_INVALID_VARIABLE_KEYS
  LowerNames,  \* conditions whose name camel_to_tf leaves as it is
  DataTypes,   \* types of the data sources behind pseudo parameters
  Images,      \* the type of that for an image which is not given by its id
  Mappings,    \* what is made of the Mappings section
  TfTypes,     \* the target types of the rules
  RosTemplates \* the templates considered

\* What is named with a uuid, when it is first asked for.
Minted == KeyNames \cup DataTypes

\* A function call in a template, with the name it is about; a pseudo
\* parameter is one of a data source.  known: a rule has the attribute.
\* unsupported: one that Terraform has nothing for, Fn::Calculate,
\* GetStackOutput, MarketplaceImage, MergeMapToList, SelectMapList, or Fn::Add
\* of operands whose type cannot be told; it is about no name.
FunctionNames == {"Ref", "GetAtt", "If", "FindInMap", "pseudo", "unsupported"}

Called == Params \cup RosNames \cup Conditions \cup Minted \cup {Mappings}

FunctionCall ==
  {f \in [fn : FunctionNames, to : Called, known : BOOLEAN] : f.fn = "pseudo" => f.to \in DataTypes}

\* A property, with the calls in its value.  What the schema says of it:
\*   to      a target argument, with a handler or without
\*   image   the handler handle_image_id
\*   items   ToResources: each dict of the list becomes a resource; one stands
\*           for them
\*   none    nothing: not in the schema, Ignore, or a block or resources whose
\*           value is a call
\* at: the target type that has the argument, or that of the new resource.
Schemas == {"to", "image", "items", "none"}

Property == [value : SUBSET FunctionCall, schema : Schemas, at : TfTypes]

\* targets: the types that the rule lists after To, none if there is no rule.
\* builtIn: those whose resource a built-in property of the others refers to.
\* count: the Count, if it has one that is not zero, with the calls in it.
RosResource ==
  {res \in [targets : SUBSET TfTypes, builtIn : SUBSET TfTypes, props : SUBSET Property,
            count : SUBSET SUBSET FunctionCall, condition : SUBSET Conditions, dependsOn : SUBSET RosNames] :
     res.builtIn \subseteq res.targets}

RosOutput == [value : SUBSET FunctionCall, condition : SUBSET Conditions]

\* The conditions that the calls cs name.
ConditionsIn(cs) == {f.to : f \in {e \in cs : e.fn = "If"}}

ASSUME RosAssumption ==
  /\ IsFiniteSet(TfTypes)
  /\ Images \in DataTypes
  /\ (Params \cup RosNames \cup KeyNames) \cap DataTypes = {}
  /\ \A t \in RosTemplates :
       /\ t.params \subseteq Params /\ t.mappings \in BOOLEAN
       /\ DOMAIN t.conditions \subseteq Conditions
       /\ t.conditions \in [DOMAIN t.conditions -> SUBSET FunctionCall]
       /\ \A c \in DOMAIN t.conditions :
            /\ \A f \in t.conditions[c] : f.fn # "GetAtt" /\ f.to \notin RosNames
            /\ ConditionsIn(t.conditions[c]) \subseteq DOMAIN t.conditions
       /\ DOMAIN t.resources \subseteq RosNames
       /\ t.resources \in [DOMAIN t.resources -> RosResource]
       /\ DOMAIN t.outputs \subseteq RosOutputs
       /\ t.outputs \in [DOMAIN t.outputs -> RosOutput]
       /\ \A n \in DOMAIN t.resources :
            /\ t.resources[n].condition \subseteq DOMAIN t.conditions
            /\ \A p \in t.resources[n].props : ConditionsIn(p.value) \subseteq DOMAIN t.conditions
            /\ \A w \in t.resources[n].count : ConditionsIn(w) \subseteq DOMAIN t.conditions
       /\ \A n \in DOMAIN t.outputs :
            /\ t.outputs[n].condition \subseteq DOMAIN t.conditions
            /\ ConditionsIn(t.outputs[n].value) \subseteq DOMAIN t.conditions

VARIABLES
  ros,       \* what the conversion does next
  template,  \* its template
  minted,    \* tf_parameters, data_for_pseudo_param, image_data_sources: the
             \* uuid that a name or a data source was given
  uuids,     \* how many were made
  mapped,    \* mappings_name_in_local is set
  waiting,   \* the resources not converted yet
  inside,    \* resources_from_properties
  blocks,    \* the blocks made, by address, with the references in each
  failed     \* reporter.outputs_failed

rosVars == <<ros, template, minted, uuids, mapped, waiting, inside, blocks, failed>>

NoTemplate ==
  [params |-> {}, mappings |-> FALSE, conditions |-> <<>>, resources |-> <<>>, outputs |-> <<>>]

RosInit ==
  /\ ros = "load"
  /\ template = NoTemplate
  /\ minted = [n \in Minted |-> 0]
  /\ uuids = 0
  /\ mapped = FALSE
  /\ waiting = {}
  /\ inside = {}
  /\ blocks = <<>>
  /\ failed = {}

----------------------------------------------------------------------------
\* The address of a block: its section, of a resource its types, its name and
\* what is added to the name.  A reference has one too, and says how it is
\* written: "one" address.attribute, "every" address[*].attribute, "builtIn"
\* likewise "one", but by a rule, and "whole" without an attribute.
BlockAt(section, types, of, as) ==
  [section |-> section, types |-> types, of |-> of, as |-> as]

Plainly(section, of) == BlockAt(section, {}, of, <<>>)

RefTo(address, how) == [to |-> address, how |-> how]

\* Slip: a name of its own for every call.
MintAlways(names) ==
  [n \in Minted |-> IF n \in names THEN uuids + 1 ELSE minted[n]]

\* get_tf_params, _data_for_pseudo_param and handle_image_id, called for names.
Mint(names) ==
  [n \in Minted |-> IF n \in names /\ minted[n] = 0 THEN uuids + 1 ELSE minted[n]]

Ask(names) == minted' = Mint(names) /\ uuids' = uuids + 1

\* What m adds to a name.
Suffix(m, n) == IF n \in Minted /\ m[n] # 0 THEN <<m[n]>> ELSE <<>>

Targets(n) == template.resources[n].targets

\* resources_with_count.
WithCount(n) == template.resources[n].count # {} \/ template.resources[n].condition # {}

\* get_att on what is not a resource: a KeyError.
Fails(c) == c.fn = "GetAtt" /\ c.to \notin DOMAIN template.resources

\* calculate, get_stack_output and the like give a comment whatever the args.
Unsupported(c) == c.fn = "unsupported"

\* What is resolved to a comment: the type has no rule, the rule no attribute,
\* or Terraform no such function.
Unresolved(c) ==
  \/ Unsupported(c)
  \/ /\ c.to \in DOMAIN template.resources
     /\ \/ c.fn = "Ref" /\ c.to \notin template.params /\ Targets(c.to) = {}
        \/ c.fn = "GetAtt" /\ (Targets(c.to) = {} \/ ~c.known)

\* resolve_values with ignore_comment: one comment, and that is the value.
IsComment(value) == \E c \in value : Unresolved(c)

\* ref, get_att, if_, find_in_map, region_ and the like: the reference that
\* a call becomes.  A Ref to nothing known becomes its name.
ResourceRef(n, as) ==
  RefTo(BlockAt("resource", Targets(n), n, as), IF WithCount(n) THEN "every" ELSE "one")

CallRef(c, m) ==
  CASE c.fn = "Ref" /\ c.to \in template.params ->
         {RefTo(BlockAt("variable", {}, c.to, Suffix(m, c.to)), "whole")}
    [] c.fn = "Ref" /\ c.to \in DOMAIN template.resources \ template.params ->
         {ResourceRef(c.to, Suffix(m, c.to))}
    [] c.fn = "GetAtt" -> {ResourceRef(c.to, <<>>)}
    [] c.fn = "If" ->
         {RefTo(BlockAt("local", {}, c.to, IF c.to \in LowerNames THEN <<>> ELSE <<"as", "written">>),
             "whole")}
    [] c.fn = "FindInMap" /\ mapped -> {RefTo(Plainly("local", Mappings), "whole")}
    [] c.fn = "pseudo" -> {RefTo(BlockAt("data", {}, c.to, Suffix(m, c.to)), "one")}
    [] OTHER -> {}

\* Without ignore_comment a comment becomes a part of the value.
RefsIn(value, m) == UNION {CallRef(c, m) : c \in {d \in value : ~Unresolved(d)}}

ValueRefs(value, m) == IF IsComment(value) THEN {} ELSE RefsIn(value, m)

\* The calls made when the values are resolved with ignore_comment: of one that
\* has a comment, up to it.
Resolves(calls, values) ==
  \A v \in values : IF IsComment(v) THEN IsComment(v \cap calls) ELSE v \subseteq calls

MintedNames(calls) == {c.to : c \in {d \in calls : d.fn \in {"Ref", "pseudo"}}} \cap Minted

ConditionRefs(conditions) == {RefTo(Plainly("local", c), "whole") : c \in conditions}

New(address, refs, counted) == [a \in {address} |-> [refs |-> refs, counted |-> counted]]

Put(new) ==
  blocks' = [a \in DOMAIN blocks \cup DOMAIN new |->
               IF a \in DOMAIN new THEN new[a] ELSE blocks[a]]

----------------------------------------------------------------------------
\* The template is read, and validated by ROS unless that is left out.
ReadRos(t) ==
  /\ ros = "load"
  /\ ros' = "conditions"
  /\ template' = t
  /\ waiting' = DOMAIN t.resources
  /\ UNCHANGED <<minted, uuids, mapped, inside, blocks, failed>>

\* It is not valid, there are no credentials, the target is not a directory.
RefuseRos ==
  /\ ros = "load"
  /\ ros' = "failed"
  /\ UNCHANGED <<template, minted, uuids, mapped, waiting, inside, blocks, failed>>

\* _transform_conditions, before there is a name for the mappings.
TransformConditions ==
  /\ ros = "conditions"
  /\ ros' = "parameters"
  /\ Ask(MintedNames(UNION {template.conditions[c] : c \in DOMAIN template.conditions}))
  /\ blocks' = [a \in {Plainly("local", c) : c \in DOMAIN template.conditions} |->
                  [refs |-> RefsIn(template.conditions[a.of], minted'), counted |-> FALSE]]
  /\ UNCHANGED <<template, mapped, waiting, inside, failed>>

\* _transform_mappings and _transform_parameters.
TransformParameters ==
  /\ ros = "parameters"
  /\ ros' = IF waiting = {} THEN "inside" ELSE "resources"
  /\ mapped' = template.mappings
  /\ Ask(template.params \cap Minted)
  /\ Put([a \in {BlockAt("variable", {}, p, Suffix(minted', p)) : p \in template.params}
                  \cup {Plainly("local", n) : n \in IF mapped' THEN {Mappings} ELSE {}} |->
            [refs |-> {}, counted |-> FALSE]])
  /\ UNCHANGED <<template, waiting, inside, failed>>

\* _get_tf_argument.  handle_image_id looks for an image when its value is not
\* a reference, and a comment is none.
Looks(p) == p.schema = "image" /\ (p.value = {} \/ IsComment(p.value))

ArgumentRefs(p, m) ==
  CASE Looks(p) -> {RefTo(BlockAt("data", {}, Images, Suffix(m, Images)), "one")}
    [] p.schema \in {"to", "image"} /\ ~Looks(p) -> ValueRefs(p.value, m)
    [] OTHER -> {}

\* Slip: a comment is taken for a list of resources.
ItemsAndComments(n) == {p \in template.resources[n].props : p.schema = "items"}

\* ToResources: what is not a dict is passed over, and a comment is not one.
Items(n) == {p \in template.resources[n].props : p.schema = "items" /\ ~IsComment(p.value)}

\* The block of the resource n for a target type, and of a resource inside it.
Several(n) == Cardinality(Targets(n)) > 1

Target(n, t) == BlockAt("resource", {t}, n, IF Several(n) THEN <<"type", t>> ELSE <<>>)

Item(n, p) == BlockAt("resource", {p.at}, n, <<"item", p>>)

\* DependsOn: a comment for a type without a rule, else its list of types.
DependsOnRefs(n) ==
  {RefTo(BlockAt("resource", Targets(d), d, <<>>), "whole") :
     d \in {x \in template.resources[n].dependsOn : Targets(x) # {}}}

\* A Condition is made into a count, with the Count if there is one.
CountCalls(n) == UNION template.resources[n].count

CountRefs(n, m) == RefsIn(CountCalls(n), m) \cup ConditionRefs(template.resources[n].condition)

\* The arguments of the block of n for t.
TargetRefs(n, t, m) ==
  (UNION {ArgumentRefs(p, m) : p \in {q \in template.resources[n].props : q.at = t}})
    \cup {RefTo(Target(n, u), "builtIn") : u \in template.resources[n].builtIn \ {t}}
    \cup CountRefs(n, m)
    \cup DependsOnRefs(n)

\* _transform_resources for one resource.
ConvertRosResource(n) ==
  LET res == template.resources[n]
      looked == {Images : p \in {q \in res.props : Looks(q)}} IN
  /\ ros = "resources"
  /\ n \in waiting
  /\ waiting' = waiting \ {n}
  /\ \/ /\ res.targets = {}
        /\ ros' = IF waiting' = {} THEN "inside" ELSE "resources"
        /\ UNCHANGED <<minted, uuids, inside, blocks>>
     \/ /\ res.targets # {}
        /\ \E calls \in SUBSET (CountCalls(n) \cup UNION {p.value : p \in res.props}) :
             /\ Resolves(calls, {p.value : p \in res.props})
             /\ CountCalls(n) \subseteq calls
             /\ Ask(MintedNames(calls) \cup looked)
             /\ IF (\E c \in calls : Fails(c)) \/ ~(res.dependsOn \subseteq DOMAIN template.resources)
                  THEN ros' = "failed" /\ UNCHANGED <<inside, blocks>>
                  ELSE /\ ros' = IF waiting' = {} THEN "inside" ELSE "resources"
                       /\ inside' = inside \cup {<<n, p>> : p \in Items(n)}
                       /\ Put([a \in {Target(n, t) : t \in res.targets} |->
                                 [refs |-> UNION {TargetRefs(n, t, minted') : t \in a.types},
                                  counted |-> WithCount(n)]])
  /\ UNCHANGED <<template, mapped, failed>>

\* _transform_resource_in_properties: a resource that belongs to n, without a
\* Condition or a Count of its own, for one property of n.
ConvertInside(n, p) ==
  /\ ros = "inside"
  /\ <<n, p>> \in inside
  /\ inside' = inside \ {<<n, p>>}
  /\ Put(New(Item(n, p),
             ValueRefs(p.value, minted)
               \cup {RefTo(BlockAt("resource", Targets(n), n, <<>>), "builtIn")},
             FALSE))
  /\ UNCHANGED <<ros, template, minted, uuids, mapped, waiting, failed>>

\* _transform_outputs: a value that is a comment leaves the output out.
TransformRosOutputs ==
  LET o == template.outputs
      lost == {n \in DOMAIN o : IsComment(o[n].value)} IN
  /\ ros = "inside"
  /\ inside = {}
  /\ \E calls \in SUBSET UNION {o[n].value : n \in DOMAIN o} :
       /\ Resolves(calls, {o[n].value : n \in DOMAIN o})
       /\ Ask(MintedNames(calls))
       /\ IF \E c \in calls : Fails(c)
            THEN ros' = "failed" /\ UNCHANGED <<blocks, failed>>
            ELSE /\ ros' = "save"
                 /\ failed' = lost
                 /\ Put([a \in {Plainly("output", n) : n \in DOMAIN o \ lost} |->
                           [refs |-> ValueRefs(o[a.of].value, minted')
                                       \cup ConditionRefs(o[a.of].condition),
                            counted |-> FALSE]])
  /\ UNCHANGED <<template, mapped, waiting, inside>>

\* _transform_for_pseudo_param: the data sources come first; the files are
\* written.
SaveTerraform ==
  /\ ros = "save"
  /\ ros' = "written"
  /\ Put([a \in {BlockAt("data", {}, d, Suffix(minted, d)) :
                   d \in {x \in DataTypes : minted[x] # 0}} |->
            [refs |-> {}, counted |-> FALSE]])
  /\ UNCHANGED <<template, minted, uuids, mapped, waiting, inside, failed>>

LoadRos ==
  /\ ros = "load"
  /\ (\E t \in RosTemplates : ReadRos(t)) \/ RefuseRos

RosNext ==
  \/ LoadRos
  \/ TransformConditions
  \/ TransformParameters
  \/ \E n \in waiting : ConvertRosResource(n)
  \/ \E x \in inside : ConvertInside(x[1], x[2])
  \/ TransformRosOutputs
  \/ SaveTerraform

RosSpec == RosInit /\ [][RosNext]_rosVars

----------------------------------------------------------------------------
\* What is written where no block has that name: several types at once, a
\* condition's name as the template has it, and a resource's name taken for
\* that of a variable.
Stray(r) ==
  \/ Cardinality(r.to.types) > 1
  \/ r.to.section = "local" /\ r.to.as # <<>>
  \/ r.to.section = "resource" /\ r.how \in {"one", "every"} /\ r.to.as # <<>>

\* Every other reference in the configuration has its block there, under the
\* very name, although that name is made again for each reference and at a
\* different moment than the block; and an attribute is taken of every
\* instance exactly if the resource has a count, built-in properties excepted
\* (ref, get_att, get_tf_params, _data_for_pseudo_param, get_built_in_prop_value).
ReferencesDeclared ==
  ros = "written" =>
    \A a \in DOMAIN blocks : \A r \in blocks[a].refs :
      \/ Stray(r)
      \/ /\ r.to \in DOMAIN blocks
         /\ r.how = "one" => ~blocks[r.to].counted
         /\ r.how = "every" => blocks[r.to].counted

\* The configuration has the blocks of every resource with a rule and of every
\* resource inside one, and no others; an output is in it, or it is reported
\* and refers to what was not converted or needs what Terraform cannot do
\* (_transform_resources, _transform_resource_in_properties,
\* _transform_outputs).
EveryResourceConverted ==
  ros = "written" =>
    LET withRule == {n \in DOMAIN template.resources : Targets(n) # {}} IN
    /\ {a \in DOMAIN blocks : a.section = "resource"} =
         UNION {{Target(n, t) : t \in Targets(n)}
                  \cup {Item(n, p) : p \in {q \in template.resources[n].props :
                                             q.schema = "items" /\ ~IsComment(q.value)}} :
                  n \in withRule}
    /\ {a.of : a \in {b \in DOMAIN blocks : b.section = "output"}} =
         DOMAIN template.outputs \ failed
    /\ \A o \in failed :
         \E c \in template.outputs[o].value :
           \/ Unsupported(c)
           \/ c.fn \in {"Ref", "GetAtt"} /\ (c.to \notin withRule \/ ~c.known)
=============================================================================
