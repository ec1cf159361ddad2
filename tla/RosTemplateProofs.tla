-------------------------- MODULE RosTemplateProofs --------------------------
(***************************************************************************)
(* Theorems about RosTemplate, for every template: every name that the     *)
(* configuration refers to is the name of a block of it, whichever of the  *)
(* two was made first, and every resource with a rule is in it.            *)
(***************************************************************************)
EXTENDS RosTemplate, FiniteSetTheorems, TLAPS

Resources == DOMAIN template.resources

\* The resources whose blocks have been made.
BlocksMade == {n \in Resources \ waiting : Targets(n) # {}}

\* n has its name: it needs no uuid, or it has been given one.
Named(n) == n \in Minted => minted[n] # 0

Variable(p) == BlockAt("variable", {}, p, Suffix(minted, p))

Data(d) == BlockAt("data", {}, d, Suffix(minted, d))

HowOf(n) == IF WithCount(n) THEN "every" ELSE "one"

\* A reference that is kept: its block is there, or will be when the
\* configuration is written.
ToVariable(r) == \E p \in template.params : Named(p) /\ r = RefTo(Variable(p), "whole")

ToLocal(r) ==
  \/ \E c \in DOMAIN template.conditions : r = RefTo(Plainly("local", c), "whole")
  \/ mapped /\ r = RefTo(Plainly("local", Mappings), "whole")

ToData(r) == \E d \in DataTypes : minted[d] # 0 /\ r = RefTo(Data(d), "one")

ToResource(r) ==
  \E n \in Resources : \E t \in Targets(n) :
    r.to = Target(n, t) /\ r.how \in {"builtIn", "whole", HowOf(n)}

Kept(r) == Stray(r) \/ ToVariable(r) \/ ToLocal(r) \/ ToData(r) \/ ToResource(r)

\* What the calls of a property that becomes resources have asked for.
Settled(value) ==
  /\ ~IsComment(value)
  /\ \A c \in value : ~Fails(c) /\ (c.fn \in {"Ref", "pseudo"} => Named(c.to))

Phases == {"load", "conditions", "parameters", "resources", "inside", "save", "written", "failed"}

NameTypes ==
  /\ ros \in Phases
  /\ minted \in [Minted -> Nat]
  /\ uuids \in Nat
  /\ mapped \in BOOLEAN

AtLoad == DOMAIN blocks = {} /\ inside = {} /\ ~mapped /\ failed = {}

\* How far the conversion has come.
Progress ==
  /\ template \in RosTemplates
  /\ waiting \subseteq Resources
  /\ ros \in {"conditions", "parameters"} => waiting = Resources /\ inside = {} /\ ~mapped
  /\ ros \in {"inside", "save", "written"} => waiting = {}
  /\ ros \in {"save", "written"} => inside = {}
  /\ \A y \in inside : \E n \in BlocksMade : \E p \in Items(n) : y = <<n, p>> /\ Settled(p.value)

\* The blocks of each section, by the time they are due.
LocalsMade ==
  /\ ros # "conditions" => \A c \in DOMAIN template.conditions : Plainly("local", c) \in DOMAIN blocks
  /\ mapped => Plainly("local", Mappings) \in DOMAIN blocks

VariablesMade ==
  ros \notin {"conditions", "parameters"} =>
    \A p \in template.params : Named(p) /\ Variable(p) \in DOMAIN blocks

DataMade ==
  ros = "written" =>
    \A d \in DataTypes :
      minted[d] # 0 => Data(d) \in DOMAIN blocks /\ ~blocks[Data(d)].counted

ResourcesMade ==
  /\ \A n \in BlocksMade : \A t \in Targets(n) : blocks[Target(n, t)].counted = WithCount(n)
  /\ \A a \in DOMAIN blocks : a.section = "resource" =>
       \/ \E n \in BlocksMade : \E t \in Targets(n) : a = Target(n, t)
       \/ \E n \in BlocksMade : \E p \in Items(n) : <<n, p>> \notin inside /\ a = Item(n, p)
  /\ \A n \in BlocksMade :
       /\ \A t \in Targets(n) : Target(n, t) \in DOMAIN blocks
       /\ \A p \in Items(n) : <<n, p>> \notin inside => Item(n, p) \in DOMAIN blocks

OutputsMade ==
  IF ros \in {"save", "written"}
    THEN /\ failed = {n \in DOMAIN template.outputs : IsComment(template.outputs[n].value)}
         /\ {a.of : a \in {e \in DOMAIN blocks : e.section = "output"}}
              = DOMAIN template.outputs \ failed
    ELSE \A a \in DOMAIN blocks : a.section # "output"

RefsKept == \A a \in DOMAIN blocks : \A r \in blocks[a].refs : Kept(r)

Converting ==
  Progress /\ LocalsMade /\ VariablesMade /\ DataMade /\ ResourcesMade /\ OutputsMade /\ RefsKept

RosInv ==
  /\ NameTypes
  /\ ros = "load" => AtLoad
  /\ ros \notin {"load", "failed"} => Converting

----------------------------------------------------------------------------
\* What RosAssumption says of the template that is converted.
LEMMA TemplateIs ==
  ASSUME template \in RosTemplates
  PROVE  /\ \A c \in DOMAIN template.conditions :
              /\ template.conditions[c] \subseteq FunctionCall
              /\ \A f \in template.conditions[c] : f.fn # "GetAtt"
              /\ ConditionsIn(template.conditions[c]) \subseteq DOMAIN template.conditions
         /\ \A n \in Resources :
              /\ template.resources[n] \in RosResource
              /\ template.resources[n].condition \subseteq DOMAIN template.conditions
              /\ \A p \in template.resources[n].props :
                   ConditionsIn(p.value) \subseteq DOMAIN template.conditions
              /\ \A w \in template.resources[n].count : ConditionsIn(w) \subseteq DOMAIN template.conditions
         /\ \A n \in DOMAIN template.outputs :
              /\ template.outputs[n] \in RosOutput
              /\ template.outputs[n].condition \subseteq DOMAIN template.conditions
              /\ ConditionsIn(template.outputs[n].value) \subseteq DOMAIN template.conditions
  BY RosAssumption DEF Resources

LEMMA ResourceIs ==
  ASSUME template \in RosTemplates, NEW n \in Resources
  PROVE  /\ Targets(n) \subseteq TfTypes
         /\ template.resources[n].builtIn \subseteq Targets(n)
         /\ \A p \in template.resources[n].props :
              /\ p \in Property
              /\ ConditionsIn(p.value) \subseteq DOMAIN template.conditions
         /\ template.resources[n].condition \subseteq DOMAIN template.conditions
         /\ CountCalls(n) \subseteq FunctionCall
         /\ ConditionsIn(CountCalls(n)) \subseteq DOMAIN template.conditions
<1>1. /\ template.resources[n] \in RosResource
      /\ \A w \in template.resources[n].count : ConditionsIn(w) \subseteq DOMAIN template.conditions
  BY TemplateIs
<1>2. CountCalls(n) \subseteq FunctionCall
  BY <1>1 DEF RosResource, CountCalls
<1>3. ConditionsIn(CountCalls(n)) \subseteq DOMAIN template.conditions
  BY <1>1 DEF ConditionsIn, CountCalls
<1>4. QED
  BY <1>1, <1>2, <1>3, TemplateIs DEF RosResource, Targets

\* A list of the types of a resource stands for one of its blocks, or is Stray.
LEMMA OneTarget ==
  ASSUME template \in RosTemplates, NEW n \in Resources, Targets(n) # {}
  PROVE  \/ Cardinality(Targets(n)) > 1
         \/ \E t \in Targets(n) : Target(n, t) = BlockAt("resource", Targets(n), n, <<>>)
<1> DEFINE T == Targets(n)
<1>1. IsFiniteSet(T)
  BY ResourceIs, RosAssumption, FS_Subset
<1>2. Cardinality(T) \in Nat /\ (Cardinality(T) = 0 <=> T = {})
  BY <1>1, FS_CardinalityType, FS_EmptySet
<1>3. CASE Cardinality(T) = 1
  <2>1. PICK t : T = {t}
    BY <1>1, <1>3, FS_Singleton
  <2>2. Target(n, t) = BlockAt("resource", T, n, <<>>)
    BY <1>3, <2>1 DEF Target, Several
  <2>3. QED
    BY <2>1, <2>2
<1>4. QED
  BY <1>2, <1>3

\* A name that has a uuid keeps it, and one that is asked for gets one.
LEMMA AskNames ==
  ASSUME minted \in [Minted -> Nat], uuids \in Nat, NEW names, Ask(names)
  PROVE  /\ minted' \in [Minted -> Nat] /\ uuids' \in Nat
         /\ \A n \in Minted : minted[n] # 0 => minted'[n] = minted[n]
         /\ \A n \in names \cap Minted : minted'[n] # 0
         /\ \A n : Named(n) => Named(n)'
  BY DEF Ask, Mint, Named

LEMMA AllTaken ==
  ASSUME NEW calls, NEW values, Resolves(calls, values), NEW v \in values, ~IsComment(v)
  PROVE  v \subseteq calls
  BY DEF Resolves

LEMMA PutBlocks ==
  ASSUME NEW new, Put(new)
  PROVE  /\ DOMAIN blocks' = DOMAIN blocks \cup DOMAIN new
         /\ \A e \in DOMAIN new : blocks'[e] = new[e]
         /\ \A e \in DOMAIN blocks \ DOMAIN new : blocks'[e] = blocks[e]
  BY DEF Put

LEMMA KeptStays ==
  ASSUME NEW ref, Kept(ref), template' = template, mapped => mapped',
         \A n \in Minted : minted[n] # 0 => minted'[n] = minted[n],
         DataTypes \subseteq Minted
  PROVE  Kept(ref)'
<1>1. ASSUME NEW p \in template.params, Named(p)
      PROVE  Named(p)' /\ Variable(p)' = Variable(p)
  BY <1>1 DEF Named, Variable, Suffix
<1>2. ASSUME NEW e \in DataTypes, minted[e] # 0
      PROVE  minted'[e] # 0 /\ Data(e)' = Data(e)
  BY <1>2 DEF Data, Suffix
<1>3. ToResource(ref) => ToResource(ref)'
  BY DEF ToResource, Resources, Targets, Target, Several, HowOf, WithCount
<1>4. CASE Stray(ref)
  BY <1>4 DEF Kept
<1>5. CASE ToVariable(ref)
  BY <1>1, <1>5 DEF Kept, ToVariable
<1>6. CASE ToLocal(ref)
  BY <1>6 DEF Kept, ToLocal
<1>7. CASE ToData(ref)
  BY <1>2, <1>7 DEF Kept, ToData
<1>8. CASE ToResource(ref)
  BY <1>3, <1>8 DEF Kept
<1>9. QED
  BY <1>4, <1>5, <1>6, <1>7, <1>8 DEF Kept

\* What is written for a call is kept: for one that the template can make,
\* that does not fail and is not resolved to a comment.
LEMMA CallKept ==
  ASSUME template \in RosTemplates, UNCHANGED <<template, mapped>>, minted' \in [Minted -> Nat],
         NEW call \in FunctionCall, ~Fails(call), ~Unresolved(call),
         ConditionsIn({call}) \subseteq DOMAIN template.conditions,
         call.fn \in {"Ref", "pseudo"} => Named(call.to)',
         NEW ref \in CallRef(call, minted')
  PROVE  Kept(ref)'
<1> USE DEF RefTo, BlockAt, Plainly
<1>1. ASSUME NEW n \in Resources, Targets(n) # {}, NEW as, ref = ResourceRef(n, as)
      PROVE  Stray(ref) \/ ToResource(ref)
  <2>1. CASE Cardinality(Targets(n)) > 1 \/ as # <<>>
    BY <1>1, <2>1 DEF ResourceRef, Stray
  <2>2. CASE ~(Cardinality(Targets(n)) > 1) /\ as = <<>>
    BY <1>1, <2>2, OneTarget DEF ResourceRef, ToResource, HowOf
  <2>3. QED
    BY <2>1, <2>2
<1>2. (Stray(ref) => Kept(ref)') /\ (ToResource(ref) => Kept(ref)')
  BY DEF Kept, Stray, ToResource, Resources, Targets, Target, Several, HowOf, WithCount
<1>3. CASE call.fn = "Ref" /\ call.to \in template.params
  <2>1. ref = RefTo(BlockAt("variable", {}, call.to, Suffix(minted', call.to)), "whole")
    BY <1>3 DEF CallRef
  <2>2. ToVariable(ref)'
    BY <1>3, <2>1 DEF ToVariable, Variable
  <2>3. QED
    BY <2>2 DEF Kept
<1>4. CASE call.fn = "Ref" /\ call.to \in Resources \ template.params
  <2>1. ref = ResourceRef(call.to, Suffix(minted', call.to))
    BY <1>4 DEF CallRef, Resources
  <2>2. Targets(call.to) # {}
    BY <1>4 DEF Unresolved, Resources
  <2>3. QED
    BY <1>1, <1>2, <1>4, <2>1, <2>2
<1>5. CASE call.fn = "GetAtt"
  <2>1. ref = ResourceRef(call.to, <<>>)
    BY <1>5 DEF CallRef
  <2>2. call.to \in Resources /\ Targets(call.to) # {}
    BY <1>5 DEF Fails, Unresolved, Resources
  <2>3. QED
    BY <1>1, <1>2, <2>1, <2>2
<1>6. CASE call.fn = "If"
  <2>1. ref = RefTo(BlockAt("local", {}, call.to, IF call.to \in LowerNames THEN <<>> ELSE <<"as", "written">>),
                    "whole")
    BY <1>6 DEF CallRef
  <2>2. call.to \in DOMAIN template.conditions
    BY <1>6 DEF ConditionsIn
  <2>3. <<"as", "written">> # <<>>
    OBVIOUS
  <2>4. Stray(ref) \/ ToLocal(ref)'
    BY <2>1, <2>2, <2>3 DEF Stray, ToLocal
  <2>5. QED
    BY <1>2, <2>4 DEF Kept
<1>7. CASE call.fn = "FindInMap"
  <2>1. mapped /\ ref = RefTo(Plainly("local", Mappings), "whole")
    BY <1>7 DEF CallRef
  <2>2. QED
    BY <2>1 DEF Kept, ToLocal
<1>8. CASE call.fn = "pseudo"
  <2>1. ref = RefTo(BlockAt("data", {}, call.to, Suffix(minted', call.to)), "one")
    BY <1>8 DEF CallRef
  <2>2. call.to \in DataTypes /\ minted'[call.to] # 0
    BY <1>8 DEF FunctionCall, Named, Minted
  <2>3. QED
    BY <2>1, <2>2 DEF Kept, ToData, Data
<1>9. CASE call.fn = "Ref" /\ call.to \notin Resources \cup template.params
  BY <1>9 DEF CallRef, Resources
<1>10. CASE call.fn = "unsupported"
  BY <1>10 DEF Unresolved, Unsupported
<1>11. QED
  BY <1>3, <1>4, <1>5, <1>6, <1>7, <1>8, <1>9, <1>10 DEF FunctionCall, FunctionNames

\* Likewise for a value, resolved by the calls that it takes.
LEMMA CallsKept ==
  ASSUME template \in RosTemplates, UNCHANGED <<template, mapped>>, minted' \in [Minted -> Nat],
         NEW value \in SUBSET FunctionCall, ConditionsIn(value) \subseteq DOMAIN template.conditions,
         \A f \in value : ~Fails(f) /\ (f.fn \in {"Ref", "pseudo"} => Named(f.to)'),
         NEW ref \in RefsIn(value, minted')
  PROVE  Kept(ref)'
<1>1. PICK call \in value : ~Unresolved(call) /\ ref \in CallRef(call, minted')
  BY DEF RefsIn
<1>2. ConditionsIn({call}) \subseteq DOMAIN template.conditions
  BY DEF ConditionsIn
<1>3. QED
  BY <1>1, <1>2, CallKept

LEMMA ValueKept ==
  ASSUME template \in RosTemplates, UNCHANGED <<template, mapped>>, minted' \in [Minted -> Nat],
         NEW value \in SUBSET FunctionCall, ConditionsIn(value) \subseteq DOMAIN template.conditions,
         IsComment(value) \/ \A f \in value : ~Fails(f) /\ (f.fn \in {"Ref", "pseudo"} => Named(f.to)'),
         NEW ref \in ValueRefs(value, minted')
  PROVE  Kept(ref)'
<1>1. ~IsComment(value) /\ ref \in RefsIn(value, minted')
  BY DEF ValueRefs
<1>2. QED
  BY <1>1, CallsKept

----------------------------------------------------------------------------
LEMMA SameTemplate ==
  ASSUME template' = template
  PROVE  /\ Resources' = Resources
         /\ \A n : /\ Targets(n)' = Targets(n) /\ WithCount(n)' = WithCount(n) /\ Items(n)' = Items(n)
                   /\ \A t : Target(n, t)' = Target(n, t)
         /\ \A value : IsComment(value)' = IsComment(value)
  BY DEF Resources, Targets, WithCount, Items, Several, Target, IsComment, Unresolved, Unsupported

\* What the steps after the first have in common: the references that are
\* there stay, the new ones are kept.
LEMMA RefsStay ==
  ASSUME NameTypes, RefsKept, template' = template, mapped => mapped',
         \A n \in Minted : minted[n] # 0 => minted'[n] = minted[n],
         NEW new, Put(new),
         \A a \in DOMAIN new : \A ref \in new[a].refs : Kept(ref)'
  PROVE  RefsKept'
<1>1. DataTypes \subseteq Minted
  BY DEF Minted
<1>2. ASSUME NEW a \in DOMAIN blocks', NEW ref \in blocks'[a].refs
      PROVE  Kept(ref)'
  <2>1. CASE a \in DOMAIN new
    BY <1>2, <2>1, PutBlocks
  <2>2. CASE a \in DOMAIN blocks \ DOMAIN new
    <3>1. Kept(ref)
      BY <1>2, <2>2, PutBlocks DEF RefsKept
    <3>2. QED
      BY <1>1, <3>1, KeptStays
  <2>3. QED
    BY <1>2, <2>1, <2>2, PutBlocks
<1>3. QED
  BY <1>2 DEF RefsKept

LEMMA LocalsStay ==
  ASSUME LocalsMade, ros # "conditions", UNCHANGED <<template, mapped>>, NEW new, Put(new)
  PROVE  LocalsMade'
  BY PutBlocks DEF LocalsMade

LEMMA VariablesStay ==
  ASSUME VariablesMade, ros \notin {"conditions", "parameters"}, UNCHANGED template,
         \A n \in Minted : minted[n] # 0 => minted'[n] = minted[n],
         NEW new, Put(new)
  PROVE  VariablesMade'
<1>1. ASSUME NEW p \in template.params
      PROVE  Named(p)' /\ Variable(p)' = Variable(p) /\ Variable(p) \in DOMAIN blocks'
  <2>1. Named(p) /\ Variable(p) \in DOMAIN blocks
    BY DEF VariablesMade
  <2>2. QED
    BY <2>1, PutBlocks DEF Named, Variable, Suffix
<1>2. QED
  BY <1>1 DEF VariablesMade

LEMMA ResourcesStay ==
  ASSUME ResourcesMade, UNCHANGED <<template, waiting, inside>>, NEW new, Put(new),
         \A a \in DOMAIN new : a.section # "resource"
  PROVE  ResourcesMade'
<1>1. BlocksMade' = BlocksMade
  BY SameTemplate DEF BlocksMade
<1>2. /\ \A n, t : Target(n, t).section = "resource"
      /\ \A a \in DOMAIN blocks : a.section = "resource" => a \in DOMAIN blocks' /\ blocks'[a] = blocks[a]
      /\ \A a \in DOMAIN blocks' : a.section = "resource" => a \in DOMAIN blocks
  BY PutBlocks DEF Target, BlockAt
<1>3. \A n, p : Item(n, p).section = "resource" /\ Item(n, p)' = Item(n, p)
  BY DEF Item, BlockAt
<1>4. QED
  BY <1>1, <1>2, <1>3, SameTemplate DEF ResourcesMade

LEMMA OutputsStay ==
  ASSUME OutputsMade, UNCHANGED <<template, failed>>, NEW new, Put(new),
         ros \in {"save", "written"} <=> ros' \in {"save", "written"},
         \A a \in DOMAIN new : a.section # "output"
  PROVE  OutputsMade'
<1>1. {a \in DOMAIN blocks' : a.section = "output"} = {a \in DOMAIN blocks : a.section = "output"}
  BY PutBlocks
<1>2. {a.of : a \in {e \in DOMAIN blocks' : e.section = "output"}}
        = {a.of : a \in {e \in DOMAIN blocks : e.section = "output"}}
  BY <1>1
<1>3. CASE ros \in {"save", "written"}
  BY <1>2, <1>3, SameTemplate DEF OutputsMade
<1>4. CASE ros \notin {"save", "written"}
  BY <1>1, <1>4 DEF OutputsMade
<1>5. QED
  BY <1>3, <1>4

LEMMA InitRosInv == RosInit => RosInv
<1> SUFFICES ASSUME RosInit PROVE RosInv
  OBVIOUS
<1>1. NameTypes
  BY DEF RosInit, NameTypes, Phases
<1>2. blocks = <<>> /\ ros = "load" /\ inside = {} /\ ~mapped /\ failed = {}
  BY DEF RosInit
<1>3. AtLoad
  BY <1>2 DEF AtLoad
<1>4. QED
  BY <1>1, <1>2, <1>3 DEF RosInv

LEMMA LoadRosInv ==
  ASSUME RosInv, LoadRos
  PROVE  RosInv'
<1>1. /\ ros = "load" /\ NameTypes /\ DOMAIN blocks = {} /\ inside = {} /\ ~mapped
      /\ UNCHANGED <<minted, uuids, mapped, inside, blocks>>
  BY DEF RosInv, AtLoad, LoadRos, ReadRos, RefuseRos
<1>2. CASE RefuseRos
  BY <1>1, <1>2 DEF RefuseRos, RosInv, NameTypes, Phases
<1>3. CASE \E t \in RosTemplates : ReadRos(t)
  <2>1. ros' = "conditions" /\ template' \in RosTemplates /\ waiting' = Resources'
    BY <1>3 DEF ReadRos, Resources
  <2>2. NameTypes' /\ Progress'
    BY <1>1, <2>1 DEF NameTypes, Phases, Progress
  <2>3. LocalsMade' /\ VariablesMade' /\ DataMade' /\ OutputsMade' /\ RefsKept'
    BY <1>1, <2>1 DEF LocalsMade, VariablesMade, DataMade, OutputsMade, RefsKept
  <2>4. ResourcesMade'
    BY <1>1, <2>1 DEF ResourcesMade, BlocksMade
  <2>5. QED
    BY <2>1, <2>2, <2>3, <2>4 DEF RosInv, Converting
<1>4. QED
  BY <1>2, <1>3 DEF LoadRos

LEMMA ConditionsRosInv ==
  ASSUME RosInv, TransformConditions
  PROVE  RosInv'
<1> DEFINE conditions == template.conditions
           names == MintedNames(UNION {conditions[c] : c \in DOMAIN conditions})
<1>1. /\ ros = "conditions" /\ ros' = "parameters" /\ Ask(names)
      /\ NameTypes /\ Progress /\ ~mapped /\ waiting = Resources /\ inside = {}
      /\ UNCHANGED <<template, mapped, waiting, inside>>
  BY DEF TransformConditions, RosInv, Converting, Progress
<1>2. /\ DOMAIN blocks' = {Plainly("local", c) : c \in DOMAIN conditions}
      /\ \A a \in DOMAIN blocks' : blocks'[a].refs = RefsIn(conditions[a.of], minted')
  BY DEF TransformConditions
<1>3. minted' \in [Minted -> Nat] /\ uuids' \in Nat /\ \A n \in names \cap Minted : minted'[n] # 0
  BY <1>1, AskNames DEF NameTypes
<1>4. NameTypes' /\ Progress'
  BY <1>1, <1>3 DEF NameTypes, Phases, Progress, Resources
<1>5. LocalsMade' /\ VariablesMade' /\ DataMade'
  BY <1>1, <1>2 DEF LocalsMade, VariablesMade, DataMade
<1>6. \A a \in DOMAIN blocks' : a.section = "local"
  BY <1>2 DEF Plainly, BlockAt
<1>7. ResourcesMade' /\ OutputsMade'
  <2>1. BlocksMade' = {}
    BY <1>1 DEF BlocksMade, Resources
  <2>2. QED
    BY <1>1, <1>6, <2>1 DEF ResourcesMade, OutputsMade
<1>8. RefsKept'
  <2> SUFFICES ASSUME NEW a \in DOMAIN blocks', NEW ref \in blocks'[a].refs
               PROVE  Kept(ref)'
    BY DEF RefsKept
  <2>1. PICK c \in DOMAIN conditions : a = Plainly("local", c)
    BY <1>2
  <2>2. a.of = c /\ ref \in RefsIn(conditions[c], minted')
    BY <1>2, <2>1 DEF Plainly, BlockAt
  <2>3. /\ conditions[c] \in SUBSET FunctionCall /\ template \in RosTemplates
        /\ ConditionsIn(conditions[c]) \subseteq DOMAIN conditions
    BY <1>1, TemplateIs DEF Progress
  <2>4. ASSUME NEW f \in conditions[c]
        PROVE  ~Fails(f) /\ (f.fn \in {"Ref", "pseudo"} => Named(f.to)')
    <3>1. ~Fails(f)
      BY <2>3, TemplateIs DEF Fails
    <3>2. f.fn \in {"Ref", "pseudo"} /\ f.to \in Minted => f.to \in names
      BY DEF MintedNames
    <3>3. QED
      BY <1>3, <3>1, <3>2 DEF Named
  <2>5. QED
    BY <1>1, <1>3, <2>2, <2>3, <2>4, CallsKept
<1>9. QED
  BY <1>1, <1>4, <1>5, <1>7, <1>8 DEF RosInv, Converting

LEMMA ParametersRosInv ==
  ASSUME RosInv, TransformParameters
  PROVE  RosInv'
<1> DEFINE names == template.params \cap Minted
           locals == {Plainly("local", n) : n \in IF mapped' THEN {Mappings} ELSE {}}
           variables == {BlockAt("variable", {}, p, Suffix(minted', p)) : p \in template.params}
           new == [a \in variables \cup locals |-> [refs |-> {}, counted |-> FALSE]]
<1>1. /\ ros = "parameters" /\ ros' = IF waiting = {} THEN "inside" ELSE "resources"
      /\ Ask(names) /\ Put(new) /\ mapped' = template.mappings
      /\ NameTypes /\ Converting /\ ~mapped /\ waiting = Resources /\ inside = {}
      /\ UNCHANGED <<template, waiting, inside, failed>>
  BY DEF TransformParameters, RosInv, Converting, Progress
<1>2. /\ minted' \in [Minted -> Nat] /\ uuids' \in Nat
      /\ \A n \in Minted : minted[n] # 0 => minted'[n] = minted[n]
      /\ \A n \in names : minted'[n] # 0
  BY <1>1, AskNames DEF NameTypes
<1>3. mapped' \in BOOLEAN
  BY <1>1, RosAssumption DEF Converting, Progress
<1>4. NameTypes' /\ Progress'
  BY <1>1, <1>2, <1>3 DEF NameTypes, Phases, Converting, Progress, Resources
<1>5. \A a \in DOMAIN new : a.section \in {"variable", "local"} /\ new[a].refs = {}
  BY DEF Plainly, BlockAt
<1>6. DOMAIN blocks' = DOMAIN blocks \cup variables \cup locals
  <2>1. DOMAIN new = variables \cup locals
    OBVIOUS
  <2> HIDE DEF new
  <2>2. DOMAIN blocks' = DOMAIN blocks \cup DOMAIN new
    BY <1>1, PutBlocks
  <2>3. QED
    BY <2>1, <2>2
<1>7. LocalsMade'
  BY <1>1, <1>6 DEF Converting, LocalsMade
<1>8. VariablesMade'
  <2>1. ASSUME NEW p \in template.params
        PROVE  Named(p)' /\ Variable(p)' \in DOMAIN blocks'
    BY <1>2, <1>6 DEF Named, Variable
  <2>2. QED
    BY <1>1, <2>1 DEF VariablesMade
<1>9. DataMade'
  BY <1>1 DEF DataMade
<1>10. ResourcesMade' /\ OutputsMade'
  <2> HIDE DEF new
  <2>1. \A a \in DOMAIN new : a.section # "resource" /\ a.section # "output"
    BY <1>5
  <2>2. QED
    BY <1>1, <2>1, ResourcesStay, OutputsStay DEF Converting
<1>11. RefsKept'
  <2> HIDE DEF new
  <2>1. QED
    BY <1>1, <1>2, <1>5, RefsStay DEF Converting
<1>12. QED
  BY <1>1, <1>4, <1>7, <1>8, <1>9, <1>10, <1>11 DEF RosInv, Converting

\* The references in the block of a resource.
LEMMA TargetRefsKept ==
  ASSUME template \in RosTemplates, UNCHANGED <<template, mapped>>, minted' \in [Minted -> Nat],
         NEW n \in Resources, NEW t \in Targets(n),
         template.resources[n].dependsOn \subseteq Resources,
         \A p \in template.resources[n].props :
           /\ Looks(p) => minted'[Images] # 0
           /\ \/ IsComment(p.value)
              \/ \A f \in p.value : ~Fails(f) /\ (f.fn \in {"Ref", "pseudo"} => Named(f.to)'),
         \A f \in CountCalls(n) : ~Fails(f) /\ (f.fn \in {"Ref", "pseudo"} => Named(f.to)'),
         NEW ref \in TargetRefs(n, t, minted')
  PROVE  Kept(ref)'
<1> DEFINE res == template.resources[n]
<1>1. /\ res.builtIn \subseteq Targets(n) /\ res.condition \subseteq DOMAIN template.conditions
      /\ \A p \in res.props : p \in Property /\ ConditionsIn(p.value) \subseteq DOMAIN template.conditions
  BY ResourceIs
<1>2. ToResource(ref) => Kept(ref)'
  <2>1. ToResource(ref) => ToResource(ref)'
    BY DEF ToResource, Resources, Targets, Target, Several, HowOf, WithCount
  <2>2. QED
    BY <2>1 DEF Kept
<1>3. ASSUME NEW p \in res.props, ref \in ArgumentRefs(p, minted')
      PROVE  Kept(ref)'
  <2>1. CASE Looks(p)
    <3>1. ref = RefTo(Data(Images)', "one") /\ minted'[Images] # 0
      BY <1>3, <2>1 DEF ArgumentRefs, Data
    <3>2. QED
      BY <3>1, RosAssumption DEF Kept, ToData
  <2>2. CASE ~Looks(p)
    <3>1. ref \in ValueRefs(p.value, minted')
      BY <1>3, <2>2 DEF ArgumentRefs
    <3>2. p.value \in SUBSET FunctionCall
      BY <1>1 DEF Property
    <3>3. QED
      BY <1>1, <3>1, <3>2, ValueKept
  <2>3. QED
    BY <2>1, <2>2
<1>4. ASSUME NEW u \in res.builtIn, ref = RefTo(Target(n, u), "builtIn")
      PROVE  Kept(ref)'
  BY <1>1, <1>2, <1>4 DEF ToResource, RefTo
<1>5. CASE ref \in CountRefs(n, minted')
  <2>1. CASE ref \in RefsIn(CountCalls(n), minted')
    BY <2>1, ResourceIs, CallsKept
  <2>2. CASE ref \in ConditionRefs(res.condition)
    BY <1>1, <2>2 DEF ConditionRefs, Kept, ToLocal
  <2>3. QED
    BY <1>5, <2>1, <2>2 DEF CountRefs
<1>6. CASE ref \in DependsOnRefs(n)
  <2>1. PICK e \in Resources : Targets(e) # {} /\ ref = RefTo(BlockAt("resource", Targets(e), e, <<>>), "whole")
    BY <1>6 DEF DependsOnRefs
  <2>2. CASE Cardinality(Targets(e)) > 1
    BY <2>1, <2>2 DEF Kept, Stray, RefTo, BlockAt
  <2>3. CASE \E v \in Targets(e) : Target(e, v) = BlockAt("resource", Targets(e), e, <<>>)
    BY <1>2, <2>1, <2>3 DEF ToResource, RefTo
  <2>4. QED
    BY <2>1, <2>2, <2>3, OneTarget
<1> DEFINE arguments == UNION {ArgumentRefs(p, minted') : p \in {q \in res.props : q.at = t}}
           builtIns == {RefTo(Target(n, u), "builtIn") : u \in res.builtIn \ {t}}
<1>7. CASE ref \in arguments
  <2>1. PICK p \in res.props : ref \in ArgumentRefs(p, minted')
    BY <1>7
  <2>2. QED
    BY <1>3, <2>1
<1>8. CASE ref \in builtIns
  BY <1>4, <1>8
<1>9. TargetRefs(n, t, minted') = arguments \cup builtIns \cup CountRefs(n, minted') \cup DependsOnRefs(n)
  BY DEF TargetRefs
<1> HIDE DEF arguments, builtIns
<1>10. QED
  BY <1>5, <1>6, <1>7, <1>8, <1>9

\* A resource with a rule: its values have been resolved by calls, none fails.
LEMMA BlocksRosInv ==
  ASSUME RosInv, ros = "resources", NEW n \in waiting, Targets(n) # {},
         waiting' = waiting \ {n}, ros' = IF waiting' = {} THEN "inside" ELSE "resources",
         UNCHANGED <<template, mapped, failed>>,
         NEW calls, CountCalls(n) \subseteq calls,
         Resolves(calls, {p.value : p \in template.resources[n].props}),
         \A f \in calls : ~Fails(f),
         Ask(MintedNames(calls) \cup {Images : p \in {q \in template.resources[n].props : Looks(q)}}),
         template.resources[n].dependsOn \subseteq Resources,
         inside' = inside \cup {<<n, p>> : p \in Items(n)},
         Put([a \in {Target(n, t) : t \in Targets(n)} |->
                [refs |-> UNION {TargetRefs(n, t, minted') : t \in a.types}, counted |-> WithCount(n)]])
  PROVE  RosInv'
<1> DEFINE props == template.resources[n].props
           looked == {Images : p \in {q \in props : Looks(q)}}
           names == MintedNames(calls) \cup looked
           new == [a \in {Target(n, t) : t \in Targets(n)} |->
                     [refs |-> UNION {TargetRefs(n, t, minted') : t \in a.types},
                      counted |-> WithCount(n)]]
<1>1. /\ NameTypes /\ Converting /\ Progress /\ ResourcesMade /\ n \in Resources
      /\ template \in RosTemplates
  BY DEF RosInv, Converting, Progress
<1>2. /\ minted' \in [Minted -> Nat] /\ uuids' \in Nat
      /\ \A m \in Minted : minted[m] # 0 => minted'[m] = minted[m]
      /\ \A m \in names \cap Minted : minted'[m] # 0
      /\ \A m : Named(m) => Named(m)'
  BY <1>1, AskNames DEF NameTypes
<1>3. ASSUME NEW f \in calls
      PROVE  ~Fails(f) /\ (f.fn \in {"Ref", "pseudo"} => Named(f.to)')
  <2>1. f.fn \in {"Ref", "pseudo"} /\ f.to \in Minted => f.to \in names
    BY DEF MintedNames
  <2>2. QED
    BY <1>2, <2>1 DEF Named
<1>4. \A p \in props : IsComment(p.value) \/ p.value \subseteq calls
  <2>1. ASSUME NEW p \in props
        PROVE  p.value \in {q.value : q \in template.resources[n].props}
    OBVIOUS
  <2>2. ASSUME NEW v \in {q.value : q \in template.resources[n].props}
        PROVE  IsComment(v) \/ v \subseteq calls
    BY DEF Resolves
  <2> HIDE DEF props
  <2>3. QED
    BY <2>1, <2>2
<1>5. Images \in Minted /\ \A p \in props : Looks(p) => minted'[Images] # 0
  <2>1. Images \in Minted
    BY RosAssumption DEF Minted
  <2>2. ASSUME NEW p \in props, Looks(p)
        PROVE  Images \in looked
    BY <2>2
  <2>3. looked \subseteq names
    OBVIOUS
  <2> HIDE DEF props, looked, names
  <2>4. QED
    BY <1>2, <2>1, <2>2, <2>3
<1>6. NameTypes'
  BY <1>1, <1>2 DEF NameTypes, Phases
<1>7. BlocksMade' = BlocksMade \cup {n} /\ n \notin BlocksMade
  BY <1>1, SameTemplate DEF BlocksMade
<1>8. Progress'
  <2>1. \A p \in Items(n) : Settled(p.value)'
    BY <1>3, <1>4, SameTemplate DEF Items, Settled, Fails
  <2>2. ASSUME NEW m \in BlocksMade, NEW p \in Items(m), Settled(p.value)
        PROVE  Settled(p.value)'
    BY <1>2, <2>2, SameTemplate DEF Settled, Fails
  <2>3. ASSUME NEW y \in inside'
        PROVE  \E m \in BlocksMade' : \E p \in Items(m)' : y = <<m, p>> /\ Settled(p.value)'
    <3>1. CASE y \in inside
      BY <1>1, <1>7, <2>2, <3>1, SameTemplate DEF Progress
    <3>2. CASE y \notin inside
      BY <1>7, <2>1, <2>3, <3>2, SameTemplate
    <3>3. QED
      BY <3>1, <3>2
  <2>4. QED
    BY <1>1, <2>3, SameTemplate DEF Progress
<1>9. /\ DOMAIN new = {Target(n, t) : t \in Targets(n)} /\ Put(new)
      /\ \A a \in DOMAIN new : a.section = "resource" /\ a.of = n /\ new[a].counted = WithCount(n)
  BY DEF Target, BlockAt
<1>10. LocalsMade' /\ VariablesMade' /\ DataMade'
  <2> HIDE DEF new
  <2>1. LocalsMade' /\ VariablesMade'
    BY <1>1, <1>2, <1>9, LocalsStay, VariablesStay DEF Converting
  <2>2. QED
    BY <2>1 DEF DataMade
<1>11. ResourcesMade'
  <2> HIDE DEF new
  <2>1. ASSUME NEW m \in BlocksMade, NEW t \in Targets(m)
        PROVE  /\ Target(m, t) \in DOMAIN blocks'
               /\ blocks'[Target(m, t)].counted = WithCount(m)
    <3>1. Target(m, t).of = m /\ m # n
      BY <1>7 DEF Target, BlockAt
    <3>2. QED
      BY <1>1, <1>9, <3>1, PutBlocks DEF ResourcesMade
  <2>2. ASSUME NEW t \in Targets(n)
        PROVE  Target(n, t) \in DOMAIN blocks' /\ blocks'[Target(n, t)].counted = WithCount(n)
    <3>1. Target(n, t) \in DOMAIN new
      BY <1>9
    <3>2. Target(n, t) \in DOMAIN blocks' /\ blocks'[Target(n, t)] = new[Target(n, t)]
      BY <1>9, <3>1, PutBlocks
    <3>3. QED
      BY <1>9, <3>1, <3>2
  <2>3. ASSUME NEW a \in DOMAIN blocks', a.section = "resource"
        PROVE  \/ \E m \in BlocksMade' : \E t \in Targets(m) : a = Target(m, t)
               \/ \E m \in BlocksMade' : \E p \in Items(m) : <<m, p>> \notin inside' /\ a = Item(m, p)
    <3>1. CASE a \in DOMAIN new
      BY <1>7, <1>9, <3>1
    <3>2. CASE a \in DOMAIN blocks
      BY <1>1, <1>7, <2>3, <3>2 DEF ResourcesMade
    <3>3. QED
      BY <1>9, <2>3, <3>1, <3>2, PutBlocks
  <2>4. ASSUME NEW m \in BlocksMade', NEW p \in Items(m), <<m, p>> \notin inside'
        PROVE  Item(m, p) \in DOMAIN blocks'
    BY <1>1, <1>7, <1>9, <2>4, PutBlocks DEF ResourcesMade
  <2>5. \A m, p : Item(m, p)' = Item(m, p)
    BY DEF Item
  <2>6. \A m, t : Target(m, t)' = Target(m, t) /\ Targets(m)' = Targets(m) /\ Items(m)' = Items(m)
                  /\ WithCount(m)' = WithCount(m)
    BY SameTemplate
  <2>7. \A m \in BlocksMade' : \A t \in Targets(m) :
          Target(m, t) \in DOMAIN blocks' /\ blocks'[Target(m, t)].counted = WithCount(m)
    BY <1>7, <2>1, <2>2
  <2>8. \A m \in BlocksMade' : \A t \in Targets(m)' :
          Target(m, t)' \in DOMAIN blocks' /\ blocks'[Target(m, t)'].counted = WithCount(m)'
    BY <2>6, <2>7
  <2>9. \A a \in DOMAIN blocks' : a.section = "resource" =>
          \/ \E m \in BlocksMade' : \E t \in Targets(m)' : a = Target(m, t)'
          \/ \E m \in BlocksMade' : \E p \in Items(m)' : <<m, p>> \notin inside' /\ a = Item(m, p)'
    BY <2>3, <2>5, <2>6
  <2>10. \A m \in BlocksMade' : \A p \in Items(m)' : <<m, p>> \notin inside' => Item(m, p)' \in DOMAIN blocks'
    BY <2>4, <2>5, <2>6
  <2>11. QED
    BY <2>8, <2>9, <2>10 DEF ResourcesMade
<1>12. OutputsMade'
  <2> HIDE DEF new
  <2>1. \A a \in DOMAIN new : a.section # "output"
    BY <1>9
  <2>2. QED
    BY <1>1, <1>9, <2>1, OutputsStay DEF Converting
<1>13. RefsKept'
  <2>1. ASSUME NEW a \in DOMAIN new, NEW ref \in new[a].refs
        PROVE  Kept(ref)'
    <3>1. PICK t \in Targets(n) : a = Target(n, t) /\ a.types = {t}
      BY DEF Target, BlockAt
    <3>2. ref \in TargetRefs(n, t, minted')
      BY <2>1, <3>1
    <3>3. \A p \in props : IsComment(p.value)
            \/ \A f \in p.value : ~Fails(f) /\ (f.fn \in {"Ref", "pseudo"} => Named(f.to)')
      BY <1>3, <1>4
    <3>4. \A f \in CountCalls(n) : ~Fails(f) /\ (f.fn \in {"Ref", "pseudo"} => Named(f.to)')
      BY <1>3
    <3>5. QED
      BY <1>1, <1>2, <1>5, <3>2, <3>3, <3>4, TargetRefsKept
  <2> HIDE DEF new
  <2>2. QED
    BY <1>1, <1>2, <1>9, <2>1, RefsStay DEF Converting
<1>14. QED
  BY <1>6, <1>8, <1>10, <1>11, <1>12, <1>13 DEF RosInv, Converting

LEMMA ResourceRosInv ==
  ASSUME RosInv, NEW n \in waiting, ConvertRosResource(n)
  PROVE  RosInv'
<1> DEFINE res == template.resources[n]
           looked == {Images : p \in {q \in res.props : Looks(q)}}
<1>1. /\ ros = "resources" /\ waiting' = waiting \ {n} /\ UNCHANGED <<template, mapped, failed>>
      /\ NameTypes /\ Converting /\ res.targets = Targets(n)
  BY DEF ConvertRosResource, RosInv, Targets
<1>2. CASE /\ Targets(n) = {} /\ ros' = IF waiting' = {} THEN "inside" ELSE "resources"
           /\ UNCHANGED <<minted, uuids, inside, blocks>>
  <2>1. BlocksMade' = BlocksMade
    BY <1>1, <1>2, SameTemplate DEF BlocksMade
  <2>2. NameTypes'
    BY <1>1, <1>2 DEF NameTypes, Phases
  <2>3. \A value : Settled(value)' = Settled(value)
    BY <1>1, <1>2, SameTemplate DEF Settled, Fails, Named
  <2>4. Progress'
    BY <1>1, <1>2, <2>1, <2>3, SameTemplate DEF Converting, Progress
  <2>5. LocalsMade' /\ DataMade' /\ OutputsMade' /\ VariablesMade'
    BY <1>1, <1>2 DEF Converting, LocalsMade, DataMade, OutputsMade, VariablesMade, Named, Variable, Suffix
  <2>6. ResourcesMade'
    <3>1. \A m, p : Item(m, p)' = Item(m, p)
      BY DEF Item
    <3>2. QED
      BY <1>1, <1>2, <2>1, <3>1, SameTemplate DEF Converting, ResourcesMade
  <2>7. RefsKept'
    <3>1. ASSUME NEW ref, Kept(ref)
          PROVE  Kept(ref)'
      BY <1>1, <1>2, <3>1, KeptStays DEF Minted
    <3>2. QED
      BY <1>1, <1>2, <3>1 DEF Converting, RefsKept
  <2>8. QED
    BY <1>1, <1>2, <2>2, <2>4, <2>5, <2>6, <2>7 DEF RosInv, Converting
<1>3. ASSUME Targets(n) # {},
             NEW calls, CountCalls(n) \subseteq calls, Resolves(calls, {p.value : p \in res.props}),
             Ask(MintedNames(calls) \cup looked),
             IF (\E f \in calls : Fails(f)) \/ ~(res.dependsOn \subseteq Resources)
               THEN ros' = "failed"
               ELSE /\ ros' = IF waiting' = {} THEN "inside" ELSE "resources"
                    /\ inside' = inside \cup {<<n, p>> : p \in Items(n)}
                    /\ Put([a \in {Target(n, t) : t \in Targets(n)} |->
                              [refs |-> UNION {TargetRefs(n, t, minted') : t \in a.types},
                               counted |-> WithCount(n)]])
      PROVE  RosInv'
  <2>1. CASE ros' = "failed"
    <3>1. minted' \in [Minted -> Nat] /\ uuids' \in Nat
      BY <1>1, <1>3, AskNames DEF NameTypes
    <3>2. QED
      BY <1>1, <2>1, <3>1 DEF RosInv, NameTypes, Phases
  <2>2. CASE ros' # "failed"
    BY <1>1, <1>3, <2>2, BlocksRosInv
  <2>3. QED
    BY <2>1, <2>2
<1>4. QED
  BY <1>1, <1>2, <1>3 DEF ConvertRosResource, Targets, Resources

LEMMA InsideRosInv ==
  ASSUME RosInv, NEW n, NEW p, ConvertInside(n, p)
  PROVE  RosInv'
<1> DEFINE own == RefTo(BlockAt("resource", Targets(n), n, <<>>), "builtIn")
           refs == ValueRefs(p.value, minted) \cup {own}
           new == New(Item(n, p), refs, FALSE)
<1>1. /\ ros = "inside" /\ <<n, p>> \in inside /\ inside' = inside \ {<<n, p>>} /\ Put(new)
      /\ UNCHANGED <<ros, template, minted, uuids, mapped, waiting, failed>>
      /\ NameTypes /\ Converting
  BY DEF ConvertInside, RosInv
<1>2. n \in BlocksMade /\ p \in Items(n) /\ Settled(p.value) /\ n \in Resources /\ Targets(n) # {}
  BY <1>1 DEF Converting, Progress, BlocksMade
<1>3. /\ DOMAIN new = {Item(n, p)} /\ new[Item(n, p)].refs = refs
      /\ Item(n, p).section = "resource" /\ Item(n, p).as = <<"item", p>>
  BY DEF New, Item, BlockAt
<1> HIDE DEF new
<1>4. NameTypes'
  BY <1>1 DEF NameTypes
<1>5. /\ BlocksMade' = BlocksMade
      /\ \A m, q : Item(m, q)' = Item(m, q)
      /\ \A value : Settled(value)' = Settled(value)
  BY <1>1, SameTemplate DEF BlocksMade, Item, Settled, Fails, Named
<1>6. Progress'
  BY <1>1, <1>5, SameTemplate DEF Converting, Progress
<1>7. LocalsMade' /\ VariablesMade' /\ DataMade'
  <2>1. LocalsMade' /\ VariablesMade'
    BY <1>1, LocalsStay, VariablesStay DEF Converting
  <2>2. QED
    BY <1>1, <2>1 DEF DataMade
<1>8. OutputsMade'
  BY <1>1, <1>3, OutputsStay DEF Converting
<1>9. ResourcesMade'
  <2>1. \A m, t : Target(m, t) # Item(n, p)
    <3>1. \A t : <<>> # <<"item", p>> /\ <<"type", t>> # <<"item", p>>
      OBVIOUS
    <3>2. QED
      BY <1>3, <3>1 DEF Target, BlockAt
  <2>2. DOMAIN blocks' = DOMAIN blocks \cup {Item(n, p)}
        /\ \A a \in DOMAIN blocks \ {Item(n, p)} : blocks'[a] = blocks[a]
    BY <1>1, <1>3, PutBlocks
  <2>3. \A m \in BlocksMade' : \A t \in Targets(m)' :
          Target(m, t)' \in DOMAIN blocks' /\ blocks'[Target(m, t)'].counted = WithCount(m)'
    BY <1>1, <1>5, <2>1, <2>2, SameTemplate DEF Converting, ResourcesMade
  <2>4. ASSUME NEW a \in DOMAIN blocks', a.section = "resource"
        PROVE  \/ \E m \in BlocksMade : \E t \in Targets(m) : a = Target(m, t)
               \/ \E m \in BlocksMade : \E q \in Items(m) : <<m, q>> \notin inside' /\ a = Item(m, q)
    <3>1. CASE a = Item(n, p)
      BY <1>1, <1>2, <3>1
    <3>2. CASE a \in DOMAIN blocks
      BY <1>1, <2>4, <3>2 DEF Converting, ResourcesMade
    <3>3. QED
      BY <2>2, <3>1, <3>2
  <2>5. ASSUME NEW m \in BlocksMade, NEW q \in Items(m), <<m, q>> \notin inside'
        PROVE  Item(m, q) \in DOMAIN blocks'
    BY <1>1, <2>2, <2>5 DEF Converting, ResourcesMade
  <2>6. \A a \in DOMAIN blocks' : a.section = "resource" =>
          \/ \E m \in BlocksMade' : \E t \in Targets(m)' : a = Target(m, t)'
          \/ \E m \in BlocksMade' : \E q \in Items(m)' : <<m, q>> \notin inside' /\ a = Item(m, q)'
    BY <1>1, <1>5, <2>4, SameTemplate
  <2>7. \A m \in BlocksMade' : \A q \in Items(m)' : <<m, q>> \notin inside' => Item(m, q)' \in DOMAIN blocks'
    BY <1>1, <1>5, <2>5, SameTemplate
  <2>8. QED
    BY <2>3, <2>6, <2>7 DEF ResourcesMade
<1>10. RefsKept'
  <2>1. template \in RosTemplates /\ p.value \in SUBSET FunctionCall
        /\ ConditionsIn(p.value) \subseteq DOMAIN template.conditions
    <3>1. template \in RosTemplates /\ p \in template.resources[n].props
      BY <1>1, <1>2 DEF Converting, Progress, Items
    <3>2. QED
      BY <1>2, <3>1, ResourceIs DEF Property
  <2>2. ASSUME NEW ref \in ValueRefs(p.value, minted)
        PROVE  Kept(ref)'
    <3>1. \A f \in p.value : ~Fails(f) /\ (f.fn \in {"Ref", "pseudo"} => Named(f.to)')
      BY <1>1, <1>2 DEF Settled, Named
    <3>2. ref \in ValueRefs(p.value, minted') /\ minted' \in [Minted -> Nat]
      BY <1>1, <2>2 DEF NameTypes
    <3>3. QED
      BY <1>1, <2>1, <3>1, <3>2, ValueKept
  <2>3. ASSUME NEW ref, ref = own
        PROVE  Kept(ref)'
    <3>1. CASE Cardinality(Targets(n)) > 1
      BY <2>3, <3>1 DEF Kept, Stray, RefTo, BlockAt
    <3>2. CASE \E t \in Targets(n) : Target(n, t) = BlockAt("resource", Targets(n), n, <<>>)
      <4>1. ToResource(ref)
        BY <1>2, <2>3, <3>2 DEF ToResource, RefTo
      <4>2. ToResource(ref)'
        BY <1>1, <4>1 DEF ToResource, Resources, Targets, Target, Several, HowOf, WithCount
      <4>3. QED
        BY <4>2 DEF Kept
    <3>3. QED
      BY <1>2, <2>1, <3>1, <3>2, OneTarget
  <2>4. \A a \in DOMAIN new : \A ref \in new[a].refs : Kept(ref)'
    BY <1>3, <2>2, <2>3
  <2>5. QED
    BY <1>1, <2>4, RefsStay DEF Converting
<1>11. QED
  BY <1>1, <1>4, <1>6, <1>7, <1>8, <1>9, <1>10 DEF RosInv, Converting

LEMMA OutputsRosInv ==
  ASSUME RosInv, TransformRosOutputs
  PROVE  RosInv'
<1> DEFINE o == template.outputs
           lost == {n \in DOMAIN o : IsComment(o[n].value)}
           new == [a \in {Plainly("output", n) : n \in DOMAIN o \ lost} |->
                     [refs |-> ValueRefs(o[a.of].value, minted') \cup ConditionRefs(o[a.of].condition),
                      counted |-> FALSE]]
<1>1. PICK calls \in SUBSET UNION {o[n].value : n \in DOMAIN o} :
        /\ Resolves(calls, {o[n].value : n \in DOMAIN o})
        /\ Ask(MintedNames(calls))
        /\ IF \E f \in calls : Fails(f)
             THEN ros' = "failed"
             ELSE ros' = "save" /\ failed' = lost /\ Put(new)
  BY DEF TransformRosOutputs
<1>2. /\ ros = "inside" /\ inside = {} /\ UNCHANGED <<template, mapped, waiting, inside>>
      /\ NameTypes /\ Converting
  BY DEF TransformRosOutputs, RosInv
<1>3. /\ minted' \in [Minted -> Nat] /\ uuids' \in Nat
      /\ \A m \in Minted : minted[m] # 0 => minted'[m] = minted[m]
      /\ \A m \in MintedNames(calls) \cap Minted : minted'[m] # 0
  BY <1>1, <1>2, AskNames DEF NameTypes
<1>4. NameTypes'
  BY <1>1, <1>2, <1>3 DEF NameTypes, Phases
<1>5. CASE ros' = "failed"
  BY <1>4, <1>5 DEF RosInv
<1>6. CASE ros' # "failed"
  <2>1. ros' = "save" /\ failed' = lost /\ Put(new) /\ \A f \in calls : ~Fails(f)
    BY <1>1, <1>6
  <2>2. /\ DOMAIN new = {Plainly("output", n) : n \in DOMAIN o \ lost}
        /\ \A a \in DOMAIN new : a.section = "output"
    BY DEF Plainly, BlockAt
  <2>3. Progress'
    BY <1>2, <2>1, SameTemplate DEF Converting, Progress
  <2>4. RefsKept'
    <3>1. ASSUME NEW a \in DOMAIN new, NEW ref \in new[a].refs
          PROVE  Kept(ref)'
      <4>1. PICK n \in DOMAIN o \ lost : a = Plainly("output", n) /\ a.of = n
        BY DEF Plainly, BlockAt
      <4>2. ref \in ValueRefs(o[n].value, minted') \cup ConditionRefs(o[n].condition)
        BY <3>1, <4>1
      <4>3. /\ template \in RosTemplates /\ o[n].value \in SUBSET FunctionCall
            /\ o[n].condition \subseteq DOMAIN template.conditions
            /\ ConditionsIn(o[n].value) \subseteq DOMAIN template.conditions
        BY <1>2, TemplateIs DEF Converting, Progress, RosOutput
      <4>4. CASE ref \in ConditionRefs(o[n].condition)
        BY <1>2, <4>3, <4>4 DEF ConditionRefs, Kept, ToLocal
      <4>5. CASE ref \in ValueRefs(o[n].value, minted')
        <5>1. ASSUME NEW f \in o[n].value
              PROVE  ~Fails(f) /\ (f.fn \in {"Ref", "pseudo"} => Named(f.to)')
          <6>1. f \in calls
            <7>1. ~IsComment(o[n].value)
              BY <4>1
            <7>2. n \in DOMAIN o
              BY <4>1
            <7>3. Resolves(calls, {o[k].value : k \in DOMAIN o})
              BY <1>1
            <7>4. o[n].value \in {o[k].value : k \in DOMAIN o}
              BY <7>2
            <7>5. o[n].value \subseteq calls
              BY <7>1, <7>3, <7>4, AllTaken
            <7>6. QED
              BY <7>5
          <6>2. f.fn \in {"Ref", "pseudo"} /\ f.to \in Minted => f.to \in MintedNames(calls)
            BY <6>1 DEF MintedNames
          <6>3. QED
            BY <1>3, <2>1, <6>1, <6>2 DEF Named
        <5>2. QED
          BY <1>2, <1>3, <4>3, <4>5, <5>1, ValueKept
      <4>6. QED
        BY <4>2, <4>4, <4>5
    <3> HIDE DEF new
    <3>2. QED
      BY <1>2, <1>3, <2>1, <3>1, RefsStay DEF Converting
  <2> HIDE DEF new
  <2>5. LocalsMade' /\ VariablesMade' /\ DataMade'
    <3>1. LocalsMade' /\ VariablesMade'
      BY <1>2, <1>3, <2>1, LocalsStay, VariablesStay DEF Converting
    <3>2. QED
      BY <2>1, <3>1 DEF DataMade
  <2>6. ResourcesMade'
    <3>1. \A a \in DOMAIN new : a.section # "resource"
      BY <2>2
    <3>2. QED
      BY <1>2, <2>1, <3>1, ResourcesStay DEF Converting
  <2>7. OutputsMade'
    <3>1. {e \in DOMAIN blocks' : e.section = "output"} = {Plainly("output", n) : n \in DOMAIN o \ lost}
      BY <1>2, <2>1, <2>2, PutBlocks DEF Converting, OutputsMade
    <3>2. \A n : Plainly("output", n).of = n
      BY DEF Plainly, BlockAt
    <3>3. {a.of : a \in {e \in DOMAIN blocks' : e.section = "output"}} = DOMAIN o \ lost
      BY <3>1, <3>2
    <3>4. lost' = lost
      BY <1>2 DEF IsComment, Unresolved, Unsupported, Targets
    <3>5. QED
      BY <1>2, <2>1, <3>3, <3>4 DEF OutputsMade
  <2>8. QED
    BY <1>4, <2>1, <2>3, <2>4, <2>5, <2>6, <2>7 DEF RosInv, Converting
<1>7. QED
  BY <1>5, <1>6

LEMMA SaveRosInv ==
  ASSUME RosInv, SaveTerraform
  PROVE  RosInv'
<1> DEFINE sources == {BlockAt("data", {}, e, Suffix(minted, e)) : e \in {x \in DataTypes : minted[x] # 0}}
           new == [a \in sources |-> [refs |-> {}, counted |-> FALSE]]
<1>1. /\ ros = "save" /\ ros' = "written" /\ Put(new)
      /\ UNCHANGED <<template, minted, uuids, mapped, waiting, inside, failed>>
      /\ NameTypes /\ Converting
  BY DEF SaveTerraform, RosInv
<1>2. NameTypes'
  BY <1>1 DEF NameTypes, Phases
<1>3. \A value : Settled(value)' = Settled(value)
  BY <1>1, SameTemplate DEF Settled, Fails, Named
<1>4. Progress'
  BY <1>1, SameTemplate DEF Converting, Progress
<1>5. /\ DOMAIN new = sources /\ \A a \in DOMAIN new : new[a].refs = {} /\ ~new[a].counted
      /\ \A a \in DOMAIN new : a.section \notin {"resource", "output"}
  BY DEF BlockAt
<1>6. DataMade'
  <2>1. ASSUME NEW e \in DataTypes, minted[e] # 0
        PROVE  Data(e) \in DOMAIN new
    BY <1>5, <2>1 DEF Data
  <2> HIDE DEF new
  <2>2. ASSUME NEW e \in DataTypes, minted[e] # 0
        PROVE  Data(e) \in DOMAIN blocks' /\ ~blocks'[Data(e)].counted
    BY <1>1, <1>5, <2>1, <2>2, PutBlocks
  <2>3. \A e : Data(e)' = Data(e)
    BY <1>1 DEF Data, Suffix
  <2>4. QED
    BY <1>1, <2>2, <2>3 DEF DataMade
<1> HIDE DEF new
<1>7. LocalsMade' /\ VariablesMade' /\ ResourcesMade' /\ OutputsMade'
  <2>1. (\A a \in DOMAIN new : a.section # "resource") /\ (\A a \in DOMAIN new : a.section # "output")
    BY <1>5
  <2>2. QED
    BY <1>1, <2>1, LocalsStay, VariablesStay, ResourcesStay, OutputsStay DEF Converting
<1>8. RefsKept'
  BY <1>1, <1>5, RefsStay DEF Converting
<1>9. QED
  BY <1>1, <1>2, <1>4, <1>6, <1>7, <1>8 DEF RosInv, Converting

LEMMA UnchangedConverting ==
  ASSUME Converting, UNCHANGED <<ros, template, minted, uuids, mapped, waiting, inside, blocks, failed>>
  PROVE  Converting'
<1>1. /\ BlocksMade' = BlocksMade
      /\ \A n, p : Item(n, p)' = Item(n, p)
      /\ \A value : Settled(value)' = Settled(value)
      /\ \A n : Named(n)' = Named(n) /\ Variable(n)' = Variable(n) /\ Data(n)' = Data(n)
  BY SameTemplate DEF BlocksMade, Item, Settled, Fails, Named, Variable, Data, Suffix
<1>2. Progress'
  BY <1>1, SameTemplate DEF Converting, Progress
<1>3. LocalsMade' /\ VariablesMade' /\ DataMade'
  BY <1>1 DEF Converting, LocalsMade, VariablesMade, DataMade
<1>4. ResourcesMade'
  BY <1>1, SameTemplate DEF Converting, ResourcesMade
<1>5. OutputsMade'
  BY DEF Converting, OutputsMade, IsComment, Unresolved, Unsupported, Targets
<1>6. RefsKept'
  <2>1. ASSUME NEW ref, Kept(ref)
        PROVE  Kept(ref)'
    BY <2>1, KeptStays DEF Minted
  <2>2. QED
    BY <2>1 DEF Converting, RefsKept
<1>7. QED
  BY <1>2, <1>3, <1>4, <1>5, <1>6 DEF Converting

----------------------------------------------------------------------------
\* What is kept of every name, block and reference while a ROS template is
\* converted (ROS2TerraformTemplate.transform).
THEOREM RosInvariant == RosSpec => []RosInv
<1>1. RosInv /\ [RosNext]_rosVars => RosInv'
  <2> SUFFICES ASSUME RosInv, [RosNext]_rosVars
               PROVE  RosInv'
    OBVIOUS
  <2>1. CASE \E n \in waiting : ConvertRosResource(n)
    BY <2>1, ResourceRosInv
  <2>2. CASE \E y \in inside : ConvertInside(y[1], y[2])
    BY <2>2, InsideRosInv
  <2>3. CASE UNCHANGED rosVars
    <3>1. UNCHANGED <<ros, template, minted, uuids, mapped, waiting, inside, blocks, failed>>
      BY <2>3 DEF rosVars
    <3>2. NameTypes' = NameTypes /\ AtLoad' = AtLoad
      BY <3>1 DEF NameTypes, AtLoad
    <3>3. Converting => Converting'
      BY <3>1, UnchangedConverting
    <3>4. QED
      BY <3>1, <3>2, <3>3 DEF RosInv
  <2>4. QED
    BY <2>1, <2>2, <2>3, LoadRosInv, ConditionsRosInv, ParametersRosInv, OutputsRosInv, SaveRosInv DEF RosNext
<1>2. QED
  BY <1>1, InitRosInv, PTL DEF RosSpec

\* Every reference of the configuration has its block, under the name that
\* was made for it at another moment, with a count if it asks for one.
THEOREM NoUndeclaredReference == RosSpec => []ReferencesDeclared
<1>1. RosInv => ReferencesDeclared
  <2> SUFFICES ASSUME RosInv, ros = "written", NEW a \in DOMAIN blocks, NEW ref \in blocks[a].refs, ~Stray(ref)
               PROVE  /\ ref.to \in DOMAIN blocks
                      /\ ref.how = "one" => ~blocks[ref.to].counted
                      /\ ref.how = "every" => blocks[ref.to].counted
    BY DEF ReferencesDeclared
  <2>1. Converting /\ Kept(ref) /\ waiting = {}
    BY DEF RosInv, Converting, RefsKept, Progress
  <2>2. CASE ToVariable(ref)
    BY <2>1, <2>2 DEF ToVariable, RefTo, Converting, VariablesMade
  <2>3. CASE ToLocal(ref)
    BY <2>1, <2>3 DEF ToLocal, RefTo, Converting, LocalsMade
  <2>4. CASE ToData(ref)
    BY <2>1, <2>4 DEF ToData, RefTo, Converting, DataMade
  <2>5. CASE ToResource(ref)
    <3>1. PICK n \in Resources : \E t \in Targets(n) :
                         ref.to = Target(n, t) /\ ref.how \in {"builtIn", "whole", HowOf(n)}
      BY <2>5 DEF ToResource
    <3>2. ref.to \in DOMAIN blocks /\ blocks[ref.to].counted = WithCount(n)
      BY <2>1, <3>1 DEF Converting, ResourcesMade, BlocksMade
    <3>3. WithCount(n) \in BOOLEAN
      BY <2>1, TemplateIs DEF WithCount, RosResource, Converting, Progress
    <3>4. QED
      BY <3>1, <3>2, <3>3 DEF HowOf
  <2>6. QED
    BY <2>1, <2>2, <2>3, <2>4, <2>5 DEF Kept
<1>2. QED
  BY <1>1, RosInvariant, PTL

\* The configuration has the blocks of all resources with a rule, and an
\* output is left out only if it refers to what could not be converted or
\* calls what Terraform has no function for.
THEOREM AllConverted == RosSpec => []EveryResourceConverted
<1>1. RosInv => EveryResourceConverted
  <2> SUFFICES ASSUME RosInv, ros = "written"
               PROVE  EveryResourceConverted
    BY DEF EveryResourceConverted
  <2> DEFINE withRule == {n \in DOMAIN template.resources : Targets(n) # {}}
             due(n) == {Target(n, t) : t \in Targets(n)} \cup {Item(n, p) : p \in Items(n)}
  <2>1. Converting /\ BlocksMade = withRule /\ inside = {}
    BY DEF RosInv, Converting, Progress, BlocksMade, Resources
  <2>2. {a \in DOMAIN blocks : a.section = "resource"} = UNION {due(n) : n \in withRule}
    <3>1. ASSUME NEW a \in DOMAIN blocks, a.section = "resource"
          PROVE  \E n \in withRule : a \in due(n)
      BY <2>1, <3>1 DEF Converting, ResourcesMade
    <3>2. ASSUME NEW n \in withRule, NEW a \in due(n)
          PROVE  a \in DOMAIN blocks /\ a.section = "resource"
      BY <2>1, <3>2 DEF Converting, ResourcesMade, Target, Item, BlockAt
    <3> HIDE DEF due, withRule
    <3>3. QED
      BY <3>1, <3>2
  <2>3. failed = {n \in DOMAIN template.outputs : IsComment(template.outputs[n].value)}
        /\ {a.of : a \in {e \in DOMAIN blocks : e.section = "output"}} = DOMAIN template.outputs \ failed
    BY <2>1 DEF Converting, OutputsMade
  <2>4. ASSUME NEW n \in failed
        PROVE  \E f \in template.outputs[n].value :
                 \/ Unsupported(f)
                 \/ f.fn \in {"Ref", "GetAtt"} /\ (f.to \notin withRule \/ ~f.known)
    BY <2>3, <2>4 DEF IsComment, Unresolved
  <2>5. QED
    BY <2>2, <2>3, <2>4 DEF EveryResourceConverted, Items
<1>2. QED
  BY <1>1, RosInvariant, PTL
==============================================================================
