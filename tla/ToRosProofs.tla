----------------------------- MODULE ToRosProofs -----------------------------
(***************************************************************************)
(* Theorems about the conversions to ROS templates: the order in which any *)
(* of them is written, for every set of ids and of templates, those with   *)
(* cycles included (ResourceOrder); TerraformTemplate, for every set of    *)
(* resources, plan, configuration and rules; and CloudFormationTemplate,   *)
(* for every template.                                                     *)
(***************************************************************************)
EXTENDS TerraformTemplate, CloudFormationTemplate, TLAPS

(***************************************************************************)
(* What the graph holds in each phase.                                     *)
(***************************************************************************)
GraphInv ==
  /\ phase \in {"idle", "edges"} => visited = {} /\ stack = <<>> /\ sorted = <<>>
  /\ phase = "idle" => vertices = {}
  /\ phase = "edges" => DOMAIN resources \subseteq vertices \cup unread
  /\ phase \in {"sort", "done"} => unread = {} /\ vertices = DOMAIN resources
  /\ \A k \in DOMAIN resources \ unread : graph[k] = Edges(k)
  /\ phase = "done" => stack = <<>> /\ vertices \subseteq visited

(***************************************************************************)
(* The visited resources are those on the stack and those already sorted,  *)
(* each in one place only.                                                 *)
(***************************************************************************)
PlacesInv ==
  /\ NoReentry
  /\ \A i, j \in DOMAIN sorted : sorted[i] = sorted[j] => i = j
  /\ \A i \in DOMAIN stack, j \in DOMAIN sorted : stack[i] # sorted[j]
  /\ \A v \in visited : \/ \E i \in DOMAIN stack : stack[i] = v
                        \/ \E i \in DOMAIN sorted : sorted[i] = v

(***************************************************************************)
(* The stack is a path of dependencies.                                    *)
(***************************************************************************)
PathInv == \A i, j \in DOMAIN stack : i < j => Reaches(stack[i], stack[j])

OrderInv == OrderTypeOK /\ GraphInv /\ PlacesInv /\ PathInv /\ DependenciesFirst

----------------------------------------------------------------------------
LEMMA ReachesStep ==
  ASSUME NEW a, NEW b, NEW d, Reaches(a, b), b \in DOMAIN resources, d \in Edges(b)
  PROVE  Reaches(a, d)
  BY DEF Reaches

LEMMA ReachesSelf ==
  ASSUME NEW a PROVE Reaches(a, a)
  BY DEF Reaches

LEMMA SameReaches ==
  ASSUME UNCHANGED resources
  PROVE  /\ \A k : Edges(k)' = Edges(k)
         /\ \A a, b : Reaches(a, b)' = Reaches(a, b)
<1>1. \A k : Edges(k)' = Edges(k)
  BY DEF Edges
<1>2. QED
  BY <1>1 DEF Reaches

LEMMA EdgesAreResources ==
  \A k : Edges(k) \subseteq DOMAIN resources
  BY DEF Edges

LEMMA InitOrderInv == IdleInit => OrderInv
<1> SUFFICES ASSUME IdleInit PROVE OrderInv
  OBVIOUS
<1> USE DEF IdleInit
<1>1. OrderTypeOK
  BY DEF OrderTypeOK
<1>2. GraphInv
  BY DEF GraphInv
<1>3. PlacesInv
  BY DEF PlacesInv, NoReentry
<1>4. PathInv /\ DependenciesFirst
  BY DEF PathInv, DependenciesFirst
<1> QED
  BY <1>1, <1>2, <1>3, <1>4 DEF OrderInv

LEMMA BeginOrderInv ==
  ASSUME OrderInv, NEW t, DOMAIN t \subseteq Ids, t \in [DOMAIN t -> Resource], Begin(t)
  PROVE  OrderInv'
<1> USE DEF OrderInv
<1>0. visited = {} /\ stack = <<>> /\ sorted = <<>> /\ vertices = {}
  BY DEF GraphInv, Begin
<1>1. OrderTypeOK'
  BY <1>0 DEF OrderTypeOK, Begin
<1>2. GraphInv'
  BY <1>0 DEF GraphInv, Begin
<1>3. PlacesInv'
  BY <1>0 DEF PlacesInv, NoReentry, Begin
<1>4. PathInv' /\ DependenciesFirst'
  BY <1>0 DEF PathInv, DependenciesFirst, Begin
<1> QED
  BY <1>1, <1>2, <1>3, <1>4

LEMMA AddEdgesOrderInv ==
  ASSUME OrderInv, NEW key \in unread, AddEdges(key)
  PROVE  OrderInv'
<1> USE DEF OrderInv
<1>0. visited = {} /\ stack = <<>> /\ sorted = <<>> /\ key \in DOMAIN resources
  BY DEF GraphInv, OrderTypeOK, AddEdges
<1>1. Edges(key) \subseteq DOMAIN resources /\ DOMAIN resources \subseteq Ids
  BY EdgesAreResources DEF OrderTypeOK
<1>2. OrderTypeOK'
  BY <1>0, <1>1 DEF OrderTypeOK, AddEdges
<1>3. \A k : Edges(k)' = Edges(k)
  BY SameReaches DEF AddEdges
<1>4. GraphInv'
  BY <1>0, <1>1, <1>3 DEF GraphInv, OrderTypeOK, AddEdges
<1>5. PlacesInv'
  BY <1>0 DEF PlacesInv, NoReentry, AddEdges
<1>6. PathInv' /\ DependenciesFirst'
  BY <1>0 DEF PathInv, DependenciesFirst, AddEdges
<1> QED
  BY <1>2, <1>4, <1>5, <1>6

LEMMA TopoSortOrderInv ==
  ASSUME OrderInv, TopoSort
  PROVE  OrderInv'
<1> USE DEF OrderInv
<1>0. visited = {} /\ stack = <<>> /\ sorted = <<>>
  BY DEF GraphInv, TopoSort
<1>1. OrderTypeOK'
  BY <1>0 DEF OrderTypeOK, TopoSort
<1>2. \A k : Edges(k)' = Edges(k)
  BY SameReaches DEF TopoSort
<1>3. GraphInv'
  BY <1>0, <1>2 DEF GraphInv, OrderTypeOK, TopoSort
<1>4. PlacesInv'
  BY <1>0 DEF PlacesInv, NoReentry, TopoSort
<1>5. PathInv' /\ DependenciesFirst'
  BY <1>0 DEF PathInv, DependenciesFirst, TopoSort
<1> QED
  BY <1>1, <1>3, <1>4, <1>5

----------------------------------------------------------------------------
\* The call pushed is of a vertex that is nowhere yet, and a dependency of
\* the call it is made from, if there is one.
LEMMA CallOrderInv ==
  ASSUME OrderInv, NEW v \in vertices, phase = "sort", Call(v),
         stack # <<>> => v \in graph[stack[Len(stack)]]
  PROVE  OrderInv'
<1> USE DEF OrderInv
<1>1. /\ vertices = DOMAIN resources
      /\ \A k \in DOMAIN resources : graph[k] = Edges(k)
  BY DEF GraphInv
<1>2. stack \in Seq(visited) /\ sorted \in Seq(visited) /\ visited \subseteq vertices
  BY DEF OrderTypeOK
<1>3. stack' = Append(stack, v) /\ sorted' = sorted /\ visited' = visited \cup {v}
      /\ v \notin visited /\ UNCHANGED <<phase, resources, unread, graph, vertices>>
  BY DEF Call
<1>4. /\ DOMAIN stack' = 1 .. Len(stack) + 1
      /\ stack'[Len(stack) + 1] = v
      /\ \A i \in DOMAIN stack : stack'[i] = stack[i]
      /\ DOMAIN stack = 1 .. Len(stack)
      /\ Len(stack) \in Nat
      /\ \A i \in DOMAIN stack : stack[i] \in visited
      /\ \A i \in DOMAIN sorted : sorted[i] \in visited
  BY <1>2, <1>3
<1>5. OrderTypeOK'
  <2>1. stack' \in Seq(visited') /\ sorted' \in Seq(visited')
    BY <1>2, <1>3
  <2>2. QED
    BY <2>1, <1>3 DEF OrderTypeOK
<1>6. \A k : Edges(k)' = Edges(k)
  BY <1>3, SameReaches
<1>7. GraphInv'
  BY <1>3, <1>6 DEF GraphInv
<1>8. PlacesInv'
  <2>1. NoReentry'
    BY <1>3, <1>4 DEF PlacesInv, NoReentry
  <2>2. \A i \in DOMAIN stack', j \in DOMAIN sorted' : stack'[i] # sorted'[j]
    BY <1>3, <1>4 DEF PlacesInv
  <2>3. \A u \in visited' : \/ \E i \in DOMAIN stack' : stack'[i] = u
                            \/ \E i \in DOMAIN sorted' : sorted'[i] = u
    BY <1>3, <1>4 DEF PlacesInv
  <2>4. QED
    BY <2>1, <2>2, <2>3, <1>3 DEF PlacesInv
<1>9. PathInv'
  <2> SUFFICES ASSUME NEW i \in DOMAIN stack', NEW j \in DOMAIN stack', i < j
               PROVE  Reaches(stack'[i], stack'[j])
    BY <1>3, SameReaches DEF PathInv
  <2>1. CASE j \in DOMAIN stack
    BY <2>1, <1>4 DEF PathInv
  <2>2. CASE j = Len(stack) + 1
    <3> DEFINE top == stack[Len(stack)]
    <3>1. i \in DOMAIN stack /\ stack # <<>> /\ Len(stack) \in DOMAIN stack
      BY <2>2, <1>4
    <3>2. top \in DOMAIN resources /\ v \in Edges(top)
      BY <3>1, <1>1, <1>2, <1>4
    <3>3. Reaches(stack[i], top)
      <4>1. CASE i = Len(stack)
        BY <4>1, ReachesSelf
      <4>2. CASE i # Len(stack)
        BY <4>2, <3>1, <1>4 DEF PathInv
      <4>3. QED
        BY <4>1, <4>2
    <3>4. Reaches(stack[i], v)
      BY <3>2, <3>3, ReachesStep
    <3>5. QED
      BY <3>1, <3>4, <2>2, <1>4
  <2>3. QED
    BY <2>1, <2>2, <1>4
<1>10. DependenciesFirst'
  BY <1>3, SameReaches DEF DependenciesFirst, Before
<1> QED
  BY <1>5, <1>7, <1>8, <1>9, <1>10

\* The vertex appended has only visited dependencies: each is sorted already,
\* or is on the stack and so reaches the vertex.
LEMMA ReturnOrderInv ==
  ASSUME OrderInv, Return
  PROVE  OrderInv'
<1> USE DEF OrderInv
<1> DEFINE n == Len(stack)
           top == stack[n]
<1>1. /\ vertices = DOMAIN resources
      /\ \A k \in DOMAIN resources : graph[k] = Edges(k)
  BY DEF GraphInv, Return
<1>2. stack \in Seq(visited) /\ sorted \in Seq(visited) /\ visited \subseteq vertices
  BY DEF OrderTypeOK
<1>3. /\ stack # <<>> /\ graph[top] \subseteq visited
      /\ sorted' = Append(sorted, top)
      /\ stack' = SubSeq(stack, 1, n - 1)
      /\ UNCHANGED <<phase, resources, unread, graph, vertices, visited>>
  BY DEF Return
<1>4. /\ n \in Nat \ {0}
      /\ DOMAIN stack = 1 .. n
      /\ DOMAIN stack' = 1 .. n - 1
      /\ \A i \in 1 .. n - 1 : stack'[i] = stack[i]
      /\ \A i \in 1 .. n : stack[i] \in visited
  BY <1>2, <1>3
<1>5. /\ Len(sorted) \in Nat
      /\ DOMAIN sorted = 1 .. Len(sorted)
      /\ DOMAIN sorted' = 1 .. Len(sorted) + 1
      /\ \A i \in DOMAIN sorted : sorted'[i] = sorted[i] /\ sorted[i] \in visited
      /\ sorted'[Len(sorted) + 1] = top
  BY <1>2, <1>3
<1>6. top \in visited
  BY <1>4
<1>7. OrderTypeOK'
  <2>1. sorted' \in Seq(visited')
    BY <1>2, <1>3, <1>6
  <2>2. stack' \in Seq(visited')
    BY <1>2, <1>3, <1>4
  <2>3. QED
    BY <2>1, <2>2, <1>3 DEF OrderTypeOK
<1>8. \A k : Edges(k)' = Edges(k)
  BY <1>3, SameReaches
<1>9. GraphInv'
  BY <1>3, <1>8 DEF GraphInv, Return
<1>10. PlacesInv'
  <2>1. NoReentry'
    BY <1>4 DEF PlacesInv, NoReentry
  <2>2. \A i, j \in DOMAIN sorted' : sorted'[i] = sorted'[j] => i = j
    BY <1>4, <1>5 DEF PlacesInv
  <2>3. \A i \in DOMAIN stack', j \in DOMAIN sorted' : stack'[i] # sorted'[j]
    BY <1>4, <1>5 DEF PlacesInv, NoReentry
  <2>4. ASSUME NEW u \in visited'
        PROVE  \/ \E i \in DOMAIN stack' : stack'[i] = u
               \/ \E i \in DOMAIN sorted' : sorted'[i] = u
    <3>1. CASE \E i \in DOMAIN sorted : sorted[i] = u
      BY <3>1, <1>5
    <3>2. CASE \E i \in DOMAIN stack : stack[i] = u
      BY <3>2, <1>4, <1>5
    <3>3. QED
      BY <3>1, <3>2, <1>3 DEF PlacesInv
  <2>5. QED
    BY <2>1, <2>2, <2>3, <2>4 DEF PlacesInv
<1>11. PathInv'
  BY <1>3, <1>4, SameReaches DEF PathInv
<1>12. DependenciesFirst'
  <2> SUFFICES ASSUME NEW i \in DOMAIN sorted', NEW d \in Edges(sorted'[i])
               PROVE  Before(d, i)' \/ Reaches(d, sorted'[i])
    BY <1>8, <1>3, SameReaches DEF DependenciesFirst
  <2>1. ASSUME NEW j \in DOMAIN sorted, j < i, sorted[j] = d
        PROVE  Before(d, i)'
    BY <2>1, <1>5 DEF Before
  <2>2. CASE i \in DOMAIN sorted
    BY <2>1, <2>2, <1>5 DEF DependenciesFirst, Before
  <2>3. CASE i = Len(sorted) + 1
    <3>1. sorted'[i] = top /\ d \in visited
      BY <2>3, <1>1, <1>2, <1>3, <1>5, <1>6
    <3>2. CASE \E j \in DOMAIN sorted : sorted[j] = d
      BY <3>2, <2>1, <2>3, <1>5
    <3>3. CASE \E j \in DOMAIN stack : stack[j] = d
      <4>1. PICK j \in 1 .. n : stack[j] = d
        BY <3>3, <1>4
      <4>2. CASE j = n
        BY <4>1, <4>2, <3>1, ReachesSelf
      <4>3. CASE j # n
        <5> HIDE DEF n
        <5>1. n \in Nat \ {0} /\ DOMAIN stack = 1 .. n
          BY <1>4
        <5>2. j \in 1 .. n /\ n \in 1 .. n /\ j < n
          BY <5>1, <4>1, <4>3
        <5>3. Reaches(stack[j], stack[n])
          BY <5>1, <5>2 DEF PathInv
        <5>4. QED
          BY <5>3, <4>1, <3>1
      <4>4. QED
        BY <4>2, <4>3
    <3>4. QED
      BY <3>1, <3>2, <3>3 DEF PlacesInv
  <2>4. QED
    BY <2>2, <2>3, <1>5
<1> QED
  BY <1>7, <1>9, <1>10, <1>11, <1>12

LEMMA WriteOrderInv ==
  ASSUME OrderInv, Write
  PROVE  OrderInv'
<1> USE DEF OrderInv
<1>1. OrderTypeOK'
  BY DEF OrderTypeOK, Write
<1>2. \A k : Edges(k)' = Edges(k)
  BY SameReaches DEF Write
<1>3. GraphInv'
  BY <1>2 DEF GraphInv, Write
<1>4. PlacesInv'
  BY DEF PlacesInv, NoReentry, Write
<1>5. PathInv' /\ DependenciesFirst'
  BY <1>2, SameReaches DEF PathInv, DependenciesFirst, Before, Write
<1> QED
  BY <1>1, <1>3, <1>4, <1>5

LEMMA StepOrderInv ==
  ASSUME OrderInv, OrderStep
  PROVE  OrderInv'
<1>1. CASE \E k \in unread : AddEdges(k)
  BY <1>1, AddEdgesOrderInv
<1>2. CASE TopoSort
  BY <1>2, TopoSortOrderInv
<1>3. CASE \E v \in vertices : VisitVertex(v)
  BY <1>3, CallOrderInv DEF VisitVertex
<1>4. CASE \E v \in vertices : VisitDependency(v)
  BY <1>4, CallOrderInv DEF VisitDependency
<1>5. CASE Return
  BY <1>5, ReturnOrderInv
<1>6. CASE Write
  BY <1>6, WriteOrderInv
<1> QED
  BY <1>1, <1>2, <1>3, <1>4, <1>5, <1>6 DEF OrderStep

LEMMA StutterOrderInv ==
  ASSUME OrderInv, UNCHANGED orderVars
  PROVE  OrderInv'
<1> USE DEF orderVars
<1>1. \A k : Edges(k)' = Edges(k)
  BY SameReaches
<1>2. OrderTypeOK' /\ GraphInv' /\ PlacesInv'
  BY <1>1 DEF OrderInv, OrderTypeOK, GraphInv, PlacesInv, NoReentry
<1>3. PathInv' /\ DependenciesFirst'
  BY <1>1, SameReaches DEF OrderInv, PathInv, DependenciesFirst, Before
<1> QED
  BY <1>2, <1>3 DEF OrderInv

THEOREM OrderInvariant == Spec => []OrderInv
<1>1. OrderInv /\ [Next]_orderVars => OrderInv'
  <2> SUFFICES ASSUME OrderInv, [Next]_orderVars PROVE OrderInv'
    OBVIOUS
  <2>1. CASE \E t \in Templates : Begin(t)
    BY <2>1, BeginOrderInv, TemplatesAssumption
  <2>2. CASE OrderStep
    BY <2>2, StepOrderInv
  <2>3. CASE UNCHANGED orderVars
    BY <2>3, StutterOrderInv
  <2> QED
    BY <2>1, <2>2, <2>3 DEF Next
<1> QED
  BY <1>1, InitOrderInv, PTL DEF Spec

----------------------------------------------------------------------------
\* The section that is written has every resource, and each once.
LEMMA WrittenOnce ==
  ASSUME OrderInv PROVE EachResourceOnce
<1> SUFFICES ASSUME phase = "done" PROVE EachResourceOnce
  BY DEF EachResourceOnce
<1>1. stack = <<>> /\ vertices = DOMAIN resources /\ vertices \subseteq visited
  BY DEF OrderInv, GraphInv
<1>2. \A k \in DOMAIN resources : \E i \in DOMAIN sorted : sorted[i] = k
  BY <1>1 DEF OrderInv, PlacesInv
<1>3. \A i \in DOMAIN sorted : sorted[i] \in DOMAIN resources
  BY <1>1 DEF OrderInv, OrderTypeOK
<1> QED
  BY <1>2, <1>3 DEF EachResourceOnce, OrderInv, PlacesInv

\* The variables hold values of their types.
THEOREM OrderTypeCorrect == Spec => []OrderTypeOK
  BY OrderInvariant, PTL DEF OrderInv

\* Whatever the template's cycles and dangling names, the section written is
\* the template's resources, each once.
THEOREM NothingLost == Spec => []EachResourceOnce
  BY OrderInvariant, WrittenOnce, PTL

\* The recursion never enters a resource twice.
THEOREM RecursionIsBounded == Spec => []NoReentry
<1>1. OrderInv => NoReentry
  BY DEF OrderInv, PlacesInv
<1> QED
  BY <1>1, OrderInvariant, PTL

\* What a resource depends on is written first, unless they are on a cycle.
THEOREM DependencyOrder == Spec => []DependenciesFirst
  BY OrderInvariant, PTL DEF OrderInv

----------------------------------------------------------------------------
(***************************************************************************)
(* The instances of the plan that are converted: those of a declared       *)
(* resource with a rule.                                                   *)
(***************************************************************************)
Planned(a) == a \in Addresses /\ a[1] \in declared /\ a[2] \in planned[a[1]]

\* How far each loop has come.
ProgressInv ==
  /\ tf = "load" => declared = {} /\ parsed = <<>> /\ outputs = {}
  /\ tf \in {"transform", "save", "saved"} => todo = {}
  /\ tf \in {"save", "saved"} => ready = {}
  /\ tf \in {"load", "parse"} => ready = DOMAIN parsed /\ outputs = {}
  /\ tf # "failed" =>
       \A a : /\ a \in DOMAIN parsed <=> Planned(a) /\ a[1] \notin todo
              /\ a \in DOMAIN converted <=> a \in DOMAIN parsed \ ready /\ a[1] \in supported

\* A value refers to one instance of a declared resource at most.
RefersToOne(v) == /\ \A t \in v.to : t \in Addresses /\ t[1] \in declared
                  /\ \A t, u \in v.to : t = u

\* What is referred to: a declared resource in the bodies, and in what is
\* converted an instance of the plan whose type has a rule.
RefersInv ==
  /\ \A a \in DOMAIN parsed : \A p \in parsed[a].props : RefersToOne(p.value)
  /\ \A a \in DOMAIN converted : \A r \in converted[a].refs :
       Planned(r.to) /\ r.to[1] \in supported
  /\ \A t \in outputs : Planned(t) /\ t[1] \in supported

TfInv ==
  /\ OrderInv
  /\ TfTypeOK
  /\ tf # "saved" => phase = "idle"
  /\ ProgressInv
  /\ RefersInv

----------------------------------------------------------------------------
LEMMA AddressType ==
  ASSUME NEW n \in Names, NEW i \in Indexes \cup {NoIndex}
  PROVE  Address(n, i) \in Addresses /\ Address(n, i)[1] = n /\ Address(n, i)[2] = i
  BY DEF Address, Addresses

LEMMA AddressesAreIds == Addresses \subseteq Ids
  BY TerraformAssumption

LEMMA FromPlanType ==
  ASSUME NEW e \in Expression
  PROVE  FromPlan(e) \in Expression /\ FromPlan(e).to = e.to
  BY DEF FromPlan, Expression, Kinds

LEMMA ParseExprType ==
  ASSUME NEW e \in Expression, NEW i \in Indexes \cup {NoIndex}
  PROVE  /\ ParseExpr(e, i) \in [to : SUBSET Addresses, attr : Attributes]
         /\ \A t \in ParseExpr(e, i).to : t[1] = e.to
         /\ \A t, u \in ParseExpr(e, i).to : t = u
<1>1. e.to \in Names /\ e.key \in Indexes \cup {NoIndex} /\ e.attr \in Attributes
  BY DEF Expression
<1> DEFINE to == CASE e.kind = "attribute" -> {Address(e.to, NoIndex)}
                   [] e.kind = "element" -> {Address(e.to, e.key)}
                   [] e.kind = "relative" /\ i # NoIndex -> {Address(e.to, i)}
                   [] OTHER -> {}
<1>2. \/ to = {} \/ to = {Address(e.to, NoIndex)}
      \/ to = {Address(e.to, e.key)} \/ to = {Address(e.to, i)}
  OBVIOUS
<1>3. ParseExpr(e, i) = [to |-> to, attr |-> e.attr]
  BY DEF ParseExpr
<1> HIDE DEF to
<1>4. /\ to \in SUBSET Addresses /\ \A t \in to : t[1] = e.to
      /\ \A t, u \in to : t = u
  BY <1>1, <1>2, AddressType
<1> QED
  BY <1>1, <1>3, <1>4

\* The expressions of a body stay expressions about declared resources.
LEMMA ExprsType ==
  ASSUME NEW b \in Bodies, WellFormed(b)
  PROVE  \A e \in Exprs(b) : e \in Expression /\ e.to \in declared
<1>1. \A e \in b.exprs : e \in Expression /\ e.to \in declared
  BY BodiesAssumption DEF WellFormed, Refers, Block
<1> QED
  BY <1>1, FromPlanType DEF Exprs

LEMMA PropsType ==
  ASSUME NEW b \in Bodies, WellFormed(b), NEW i \in Indexes \cup {NoIndex},
         NEW p \in Props(b, i)
  PROVE  p \in Prop /\ RefersToOne(p.value)
<1>1. PICK e \in Exprs(b) : p = [value |-> ParseExpr(e, i), rule |-> e.rule]
  BY DEF Props
<1>2. e \in Expression /\ e.to \in declared
  BY ExprsType
<1>3. /\ ParseExpr(e, i) \in [to : SUBSET Addresses, attr : Attributes]
      /\ \A t \in ParseExpr(e, i).to : t[1] = e.to
      /\ \A t, u \in ParseExpr(e, i).to : t = u
  BY <1>2, ParseExprType
<1>4. e.rule \in PropRules
  BY <1>2 DEF Expression
<1>5. ParseExpr(e, i) \in [to : SUBSET Ids, attr : Attributes]
  BY <1>3, AddressesAreIds
<1> QED
  BY <1>1, <1>2, <1>3, <1>4, <1>5 DEF Prop, RefersToOne

LEMMA ParsedDependsOnType ==
  ASSUME NEW b \in Bodies
  PROVE  ParsedDependsOn(b) \in SUBSET Ids
<1>1. b.dependsOn \subseteq Names \cup DataSources
  BY BodiesAssumption DEF Block
<1>2. \A n \in Names : Address(n, NoIndex) \in Ids
  BY AddressType, AddressesAreIds
<1>3. \A n \in DataSources : Address(n, NoIndex) \in Ids
  BY TerraformAssumption
<1> QED
  BY <1>1, <1>2, <1>3 DEF ParsedDependsOn

\* Instances(n) are the addresses of n that the plan has.
LEMMA InstancesAre ==
  ASSUME TfTypeOK, NEW n \in Names, NEW a
  PROVE  a \in Instances(n) <=> a \in Addresses /\ a[1] = n /\ a[2] \in planned[n]
<1>1. planned[n] \subseteq Indexes \cup {NoIndex}
  BY DEF TfTypeOK
<1> QED
  BY <1>1 DEF Instances, Address, Addresses

\* A reference is kept only when its instance is in the plan and its type has
\* a rule.
LEMMA GetAttKeeps ==
  ASSUME NEW v, NEW t, v.to = {t}, GetAtt(v) # "none"
  PROVE  t[2] \in planned[t[1]] /\ t[1] \in supported
  BY DEF GetAtt

----------------------------------------------------------------------------
LEMMA InitTfInv == TfInit => TfInv
<1> SUFFICES ASSUME TfInit PROVE TfInv
  OBVIOUS
<1>1. OrderInv /\ phase = "idle"
  BY InitOrderInv DEF TfInit, IdleInit
<1>2. TfTypeOK
  <2>1. DOMAIN parsed = {} /\ DOMAIN converted = {}
    BY DEF TfInit
  <2>2. /\ parsed \in [DOMAIN parsed -> [dependsOn : SUBSET Ids, props : SUBSET Prop]]
        /\ converted \in [DOMAIN converted -> Resource]
    BY DEF TfInit
  <2>3. QED
    BY <2>1, <2>2 DEF TfInit, TfTypeOK
<1>3. ProgressInv
  BY DEF TfInit, ProgressInv, Planned
<1>4. RefersInv
  BY DEF TfInit, RefersInv
<1> QED
  BY <1>1, <1>2, <1>3, <1>4 DEF TfInv

\* A step of the conversion leaves what is written alone.
LEMMA OrderStays ==
  ASSUME TfInv, UNCHANGED orderVars
  PROVE  OrderInv' /\ (phase = "idle" => phase' = "idle")
  BY StutterOrderInv DEF TfInv, orderVars

LEMMA LoadTfInv ==
  ASSUME TfInv, Load, UNCHANGED orderVars
  PROVE  TfInv'
<1> USE DEF TfInv
<1>0. tf = "load" /\ phase = "idle"
  BY DEF Load
<1>1. OrderInv' /\ phase' = "idle"
  BY <1>0, OrderStays
<1>2. CASE Refuse
  <2> USE <1>2 DEF Refuse
  <2>1. TfTypeOK'
    BY DEF TfTypeOK
  <2>2. ProgressInv' /\ RefersInv'
    BY DEF ProgressInv, RefersInv, RefersToOne, Planned
  <2>3. QED
    BY <1>1, <2>1, <2>2
<1>3. ASSUME NEW p \in [Names -> InstanceSets], NEW s \in SUBSET Names, NEW d \in SUBSET Names,
             NEW f \in BOOLEAN, GetPlanData(p, s, d, f)
      PROVE  TfInv'
  <2> USE <1>3 DEF GetPlanData
  <2>1. p \in [Names -> SUBSET (Indexes \cup {NoIndex})]
    <3>1. \A S \in InstanceSets : S \subseteq Indexes \cup {NoIndex}
      BY TerraformAssumption
    <3>2. QED
      BY <3>1
  <2>2. parsed = <<>> /\ declared = {} /\ outputs = {} /\ ready = {} /\ DOMAIN converted = {}
    <3>1. parsed = <<>> /\ declared = {} /\ outputs = {} /\ ready = DOMAIN parsed
      BY <1>0 DEF ProgressInv
    <3>2. \A a : a \notin DOMAIN converted
      BY <1>0, <3>1 DEF ProgressInv
    <3>3. DOMAIN parsed = {}
      BY <3>1
    <3>4. QED
      BY <3>1, <3>2, <3>3
  <2>3. TfTypeOK'
    BY <2>1, <2>2 DEF TfTypeOK
  <2>4. ProgressInv'
    BY <2>2 DEF ProgressInv, Planned
  <2>5. RefersInv'
    BY <2>2 DEF RefersInv, Planned
  <2>6. QED
    BY <1>1, <2>3, <2>4, <2>5
<1> QED
  BY <1>2, <1>3 DEF Load

LEMMA ParseTfInv ==
  ASSUME TfInv, NEW n \in todo, NEW b \in Bodies, WellFormed(b), ParseResource(n, b),
         UNCHANGED orderVars
  PROVE  TfInv'
<1> USE DEF TfInv
<1>0. tf = "parse" /\ phase = "idle" /\ n \in Names /\ n \in declared
  BY DEF ParseResource, TfTypeOK
<1>1. OrderInv' /\ phase' = "idle"
  BY <1>0, OrderStays
<1>2. CASE tf' = "failed" /\ UNCHANGED <<parsed, ready>>
  <2>1. /\ UNCHANGED <<fallback, planned, supported, declared, converted, outputs, parsed, ready>>
        /\ todo' = todo \ {n}
    BY <1>2 DEF ParseResource
  <2>2. TfTypeOK'
    BY <1>2, <2>1 DEF TfTypeOK
  <2>3. RefersInv'
    BY <2>1 DEF RefersInv, RefersToOne, Planned
  <2>4. ProgressInv'
    BY <1>2, <2>1 DEF ProgressInv, Planned
  <2>5. QED
    BY <1>1, <2>2, <2>3, <2>4
<1>3. CASE /\ parsed' = [a \in DOMAIN parsed \cup Instances(n) |->
                IF a \in Instances(n)
                THEN [dependsOn |-> ParsedDependsOn(b), props |-> Props(b, a[2])]
                ELSE parsed[a]]
           /\ ready' = ready \cup Instances(n)
           /\ tf' = IF todo' = {} THEN "transform" ELSE "parse"
  <2>1. /\ UNCHANGED <<fallback, planned, supported, declared, converted, outputs>>
        /\ todo' = todo \ {n}
    BY DEF ParseResource
  <2>2. /\ DOMAIN parsed' = DOMAIN parsed \cup Instances(n)
        /\ \A a \in Instances(n) :
             parsed'[a] = [dependsOn |-> ParsedDependsOn(b), props |-> Props(b, a[2])]
        /\ \A a \in DOMAIN parsed \ Instances(n) : parsed'[a] = parsed[a]
    BY <1>3
  <2>3. \A a : a \in Instances(n) <=> a \in Addresses /\ a[1] = n /\ a[2] \in planned[n]
    BY <1>0, InstancesAre
  <2>4. \A a \in Instances(n) : a[2] \in Indexes \cup {NoIndex}
    BY <2>3 DEF Addresses
  <2>5. \A a \in Instances(n) :
          /\ parsed'[a].dependsOn \in SUBSET Ids
          /\ parsed'[a].props \in SUBSET Prop
          /\ \A p \in parsed'[a].props : RefersToOne(p.value)
    BY <2>2, <2>4, PropsType, ParsedDependsOnType
  <2>6. TfTypeOK'
    <3>1. parsed' \in [DOMAIN parsed' -> [dependsOn : SUBSET Ids, props : SUBSET Prop]]
      <4>1. ASSUME NEW a \in DOMAIN parsed'
            PROVE  parsed'[a] \in [dependsOn : SUBSET Ids, props : SUBSET Prop]
        BY <2>2, <2>5 DEF TfTypeOK
      <4>2. QED
        BY <4>1, <1>3
    <3>2. DOMAIN parsed' \subseteq Addresses
      BY <2>2, <2>3 DEF TfTypeOK
    <3>3. QED
      BY <3>1, <3>2, <2>1, <2>2, <1>3 DEF TfTypeOK
  <2>7. ProgressInv'
    BY <1>0, <1>3, <2>1, <2>2, <2>3 DEF ProgressInv, Planned
  <2>8. RefersInv'
    BY <2>1, <2>2, <2>5 DEF RefersInv, RefersToOne, Planned
  <2>9. QED
    BY <1>1, <1>3, <2>6, <2>7, <2>8
<1> QED
  BY <1>2, <1>3 DEF ParseResource

\* The resource converted refers to what GetAtt keeps.
LEMMA PropRefsKeep ==
  ASSUME TfInv, NEW a \in DOMAIN parsed, NEW p \in parsed[a].props, NEW r \in PropRefs(p)
  PROVE  r \in Reference /\ Planned(r.to) /\ r.to[1] \in supported
<1>1. p \in Prop /\ RefersToOne(p.value)
  BY DEF TfInv, TfTypeOK, RefersInv
<1>2. PICK t \in p.value.to :
        r = [to |-> t, single |-> p.rule = "inside" \/ GetAtt(p.value) = "nested"]
  BY DEF PropRefs
<1>3. GetAtt(p.value) # "none" /\ p.value.to = {t}
  BY <1>1 DEF PropRefs, RefersToOne
<1>4. t[2] \in planned[t[1]] /\ t[1] \in supported
  BY <1>3, GetAttKeeps
<1>5. t \in Addresses /\ t[1] \in declared /\ t \in Ids
  BY <1>1, AddressesAreIds DEF RefersToOne
<1> QED
  BY <1>2, <1>4, <1>5 DEF Reference, Planned

LEMMA TransformTfInv ==
  ASSUME TfInv, NEW a \in ready, TransformResource(a), UNCHANGED orderVars
  PROVE  TfInv'
<1> USE DEF TfInv
<1> DEFINE refs == UNION {PropRefs(p) : p \in parsed[a].props}
           new == [dependsOn |-> parsed[a].dependsOn, refs |-> refs]
<1>0. tf = "transform" /\ phase = "idle" /\ a \in DOMAIN parsed
  BY DEF TransformResource, TfTypeOK
<1>1. OrderInv' /\ phase' = "idle"
  BY <1>0, OrderStays
<1>2. /\ ready' = ready \ {a}
      /\ UNCHANGED <<fallback, planned, supported, declared, todo, parsed, outputs>>
  BY DEF TransformResource
<1>3. \A r \in refs : r \in Reference /\ Planned(r.to) /\ r.to[1] \in supported
  BY <1>0, PropRefsKeep
<1>4. CASE \/ a[1] \notin supported /\ UNCHANGED <<tf, converted>>
           \/ tf' = "failed" /\ UNCHANGED converted
  <2>1. TfTypeOK'
    BY <1>2, <1>4 DEF TfTypeOK
  <2>2. ProgressInv'
    BY <1>0, <1>2, <1>4 DEF ProgressInv, Planned
  <2>3. RefersInv'
    BY <1>2, <1>4 DEF RefersInv, RefersToOne, Planned
  <2>4. QED
    BY <1>0, <1>1, <1>4, <2>1, <2>2, <2>3
<1>5. CASE /\ a[1] \in supported
           /\ converted' = [b \in DOMAIN converted \cup {a} |->
                IF b = a THEN new ELSE converted[b]]
           /\ UNCHANGED tf
  <2>1. /\ DOMAIN converted' = DOMAIN converted \cup {a}
        /\ converted'[a] = new
        /\ \A b \in DOMAIN converted \ {a} : converted'[b] = converted[b]
    BY <1>5
  <2>2. new \in Resource
    <3>1. parsed[a].dependsOn \in SUBSET Ids
      BY <1>0 DEF TfTypeOK
    <3>2. refs \in SUBSET Reference
      BY <1>3
    <3>3. QED
      BY <3>1, <3>2 DEF Resource
  <2>3. TfTypeOK'
    <3>1. \A b \in DOMAIN converted' : converted'[b] \in Resource
      BY <2>1, <2>2 DEF TfTypeOK
    <3>2. converted' \in [DOMAIN converted' -> Resource]
      BY <3>1, <1>5
    <3>3. QED
      BY <3>2, <2>1, <1>0, <1>2, <1>5 DEF TfTypeOK
  <2>4. ProgressInv'
    BY <1>0, <1>2, <1>5, <2>1 DEF ProgressInv, Planned
  <2>5. RefersInv'
    <3>1. \A b \in DOMAIN converted' : \A r \in converted'[b].refs :
            Planned(r.to) /\ r.to[1] \in supported
      BY <1>3, <2>1 DEF RefersInv
    <3>2. QED
      BY <3>1, <1>2 DEF RefersInv, RefersToOne, Planned
  <2>6. QED
    BY <1>0, <1>1, <1>5, <2>3, <2>4, <2>5
<1> QED
  BY <1>4, <1>5 DEF TransformResource

\* An output refers to what GetAtt keeps, too.
LEMMA OutputRefsKeep ==
  ASSUME TfInv, NEW e \in Expression, e.to \in declared, NEW t \in OutputRefs(e)
  PROVE  Planned(t) /\ t[1] \in supported
<1> DEFINE v(u) == [to |-> {u}, attr |-> e.attr]
<1>1. t \in OutputValue(e).to /\ GetAtt(v(t)) # "none"
  BY DEF OutputRefs
<1>2. t[2] \in planned[t[1]] /\ t[1] \in supported
  BY <1>1, GetAttKeeps
<1>3. t \in Addresses /\ t[1] = e.to
  <2>1. CASE e.kind = "splat"
    <3>1. planned[e.to] \subseteq Indexes \cup {NoIndex} /\ e.to \in Names
      BY DEF TfInv, TfTypeOK
    <3>2. PICK i \in planned[e.to] : t = Address(e.to, i)
      BY <1>1, <2>1 DEF OutputValue
    <3>3. QED
      BY <3>1, <3>2, AddressType
  <2>2. CASE e.kind # "splat"
    <3>1. t \in ParseExpr(e, NoIndex).to
      BY <1>1, <2>2 DEF OutputValue
    <3>2. QED
      BY <3>1, ParseExprType
  <2>3. QED
    BY <2>1, <2>2
<1> QED
  BY <1>2, <1>3 DEF Planned

LEMMA OutputsTfInv ==
  ASSUME TfInv, NEW x \in OutputSets, \A e \in x : Refers(e), TransformOutputs(x),
         UNCHANGED orderVars
  PROVE  TfInv'
<1> USE DEF TfInv
<1>0. tf = "transform" /\ ready = {} /\ phase = "idle"
  BY DEF TransformOutputs
<1>1. OrderInv' /\ phase' = "idle"
  BY <1>0, OrderStays
<1>2. UNCHANGED <<fallback, planned, supported, declared, todo, parsed, ready, converted>>
  BY DEF TransformOutputs
<1>3. \A t \in outputs' : Planned(t) /\ t[1] \in supported
  <2>1. CASE UNCHANGED outputs
    BY <2>1 DEF RefersInv
  <2>2. CASE outputs' = UNION {OutputRefs(IF fallback THEN FromPlan(e) ELSE e) : e \in x}
    <3> SUFFICES ASSUME NEW e \in x,
                        NEW t \in OutputRefs(IF fallback THEN FromPlan(e) ELSE e)
                 PROVE  Planned(t) /\ t[1] \in supported
      BY <2>2
    <3> DEFINE f == IF fallback THEN FromPlan(e) ELSE e
    <3>1. e \in Expression /\ e.to \in declared
      BY BodiesAssumption DEF Refers
    <3>2. f \in Expression /\ f.to \in declared
      BY <3>1, FromPlanType
    <3>3. t \in OutputRefs(f)
      OBVIOUS
    <3> HIDE DEF f
    <3>4. QED
      BY <3>2, <3>3, OutputRefsKeep
  <2>3. QED
    BY <2>1, <2>2 DEF TransformOutputs
<1>4. tf' \in {"save", "failed"}
  BY DEF TransformOutputs
<1>5. TfTypeOK'
  BY <1>2, <1>3, <1>4 DEF TfTypeOK, Planned
<1>6. ProgressInv'
  BY <1>0, <1>2, <1>4 DEF ProgressInv, Planned
<1>7. RefersInv'
  BY <1>2, <1>3 DEF RefersInv, RefersToOne, Planned
<1> QED
  BY <1>1, <1>5, <1>6, <1>7

LEMMA ConvertTfInv ==
  ASSUME TfInv, Convert, UNCHANGED orderVars
  PROVE  TfInv'
<1>1. CASE Load
  BY <1>1, LoadTfInv
<1>2. CASE \E n \in todo, b \in Bodies : WellFormed(b) /\ ParseResource(n, b)
  BY <1>2, ParseTfInv
<1>3. CASE \E a \in ready : TransformResource(a)
  BY <1>3, TransformTfInv
<1>4. CASE Outputs
  BY <1>4, OutputsTfInv DEF Outputs
<1> QED
  BY <1>1, <1>2, <1>3, <1>4 DEF Convert

\* The template is handed over as it is; from then on only the order moves.
LEMMA SaveTfInv ==
  ASSUME TfInv, Save
  PROVE  TfInv'
<1> USE DEF TfInv
<1>1. OrderInv'
  <2>1. DOMAIN converted \subseteq Ids /\ converted \in [DOMAIN converted -> Resource]
    BY AddressesAreIds DEF TfTypeOK
  <2>2. QED
    BY <2>1, BeginOrderInv DEF Save
<1>2. TfTypeOK' /\ ProgressInv'
  BY DEF Save, TfTypeOK, ProgressInv, Planned
<1>3. RefersInv'
  BY DEF Save, RefersInv, RefersToOne, Planned
<1> QED
  BY <1>1, <1>2, <1>3 DEF Save

LEMMA OrderTfInv ==
  ASSUME TfInv, OrderStep \/ UNCHANGED orderVars, UNCHANGED tfVars
  PROVE  TfInv'
<1> USE DEF TfInv, tfVars
<1>1. OrderInv'
  BY StepOrderInv, StutterOrderInv
<1>2. TfTypeOK' /\ ProgressInv' /\ RefersInv'
  BY DEF TfTypeOK, ProgressInv, RefersInv, RefersToOne, Planned
<1>3. tf' # "saved" => phase' = "idle"
  <2>1. CASE UNCHANGED orderVars
    BY <2>1 DEF orderVars
  <2>2. CASE OrderStep
    <3>1. phase # "idle"
      BY <2>2 DEF OrderStep, AddEdges, TopoSort, VisitVertex, VisitDependency, Return, Write
    <3>2. QED
      BY <3>1
  <2>3. QED
    BY <2>1, <2>2
<1> QED
  BY <1>1, <1>2, <1>3

THEOREM TerraformInvariant == TfSpec => []TfInv
<1>1. TfInv /\ [TfNext]_<<orderVars, tfVars>> => TfInv'
  <2> SUFFICES ASSUME TfInv, [TfNext]_<<orderVars, tfVars>> PROVE TfInv'
    OBVIOUS
  <2>1. CASE Convert /\ UNCHANGED orderVars
    BY <2>1, ConvertTfInv
  <2>2. CASE Save
    BY <2>2, SaveTfInv
  <2>3. CASE (OrderStep \/ UNCHANGED orderVars) /\ UNCHANGED tfVars
    BY <2>3, OrderTfInv
  <2> QED
    BY <2>1, <2>2, <2>3 DEF TfNext
<1> QED
  BY <1>1, InitTfInv, PTL DEF TfSpec

----------------------------------------------------------------------------
\* The variables hold values of their types.
THEOREM TerraformTypeCorrect == TfSpec => []TfTypeOK
  BY TerraformInvariant, PTL DEF TfInv

\* What is written is what was planned, declared and has a rule.
THEOREM WrittenInstances == TfSpec => []EveryInstance
<1>1. TfInv => EveryInstance
  BY DEF TfInv, ProgressInv, Planned, EveryInstance, TfTypeOK
<1> QED
  BY <1>1, TerraformInvariant, PTL

\* No reference of the template that is written is left without its resource.
THEOREM NoDanglingReference == TfSpec => []ReferencesResolve
<1>1. TfInv => ReferencesResolve
  <2> SUFFICES ASSUME TfInv, tf \in {"save", "saved"}
               PROVE  ReferencesResolve
    BY DEF ReferencesResolve
  <2>1. \A t : Planned(t) /\ t[1] \in supported => t \in DOMAIN converted
    BY DEF TfInv, ProgressInv
  <2>2. QED
    BY <2>1 DEF TfInv, RefersInv, ReferencesResolve
<1> QED
  BY <1>1, TerraformInvariant, PTL

\* A converted template, too, is written whole and in dependency order.
THEOREM ConversionInOrder == TfSpec => [](EachResourceOnce /\ DependenciesFirst)
<1>1. TfInv => EachResourceOnce /\ DependenciesFirst
  BY WrittenOnce DEF TfInv, OrderInv
<1> QED
  BY <1>1, TerraformInvariant, PTL

----------------------------------------------------------------------------
\* The resources whose handler has been called, if they have one.
Done == DOMAIN source \ (pending \cup toHandle)

\* How far the two loops have come: no handler is called before every
\* resource is converted.
LoopsInv ==
  /\ cf = "load" => DOMAIN source = {} /\ DOMAIN made = {} /\ toHandle = {}
  /\ cf \in {"handle", "saved"} => pending = {}
  /\ cf = "saved" => toHandle = {}
  /\ cf = "convert" => \A n \in Done : ~HasHandler(source[n])

\* What has been made of the source so far.
MadeInv ==
  /\ \A i : i \in DOMAIN made <=> \/ i \in Convertible \ pending
                                  \/ \E m \in Split \cap Done : AssociationId[m] = i
  /\ \A m \in Split \cap Done : made[AssociationId[m]].type = "EIPAssociation"
  /\ \A n \in Convertible \ pending :
       \/ \E m \in Split \cap Done : AssociationId[m] = n
       \/ made[n].type = TargetType[source[n].kind]

\* Which attachments have been merged so far.
AttachedInv ==
  \A g \in DOMAIN made :
    made[g].vpc \subseteq Attached(g) /\ (Attached(g) \cap Done # {} => made[g].vpc # {})

CfInv ==
  /\ OrderInv
  /\ CfTypeOK
  /\ cf # "saved" => phase = "idle"
  /\ LoopsInv
  /\ cf # "failed" => MadeInv /\ AttachedInv

----------------------------------------------------------------------------
LEMMA TargetsAre ==
  DOMAIN TargetType = {"plain", "nat", "internet", "vpn"}
    /\ \A q \in DOMAIN TargetType : TargetType[q] \in TargetTypes \ {"EIPAssociation"}
  BY DEF TargetType, TargetTypes

LEMMA InitCfInv == CfInit => CfInv
<1> SUFFICES ASSUME CfInit PROVE CfInv
  OBVIOUS
<1> USE DEF CfInit
<1>1. OrderInv /\ phase = "idle"
  BY InitOrderInv DEF IdleInit
<1>2. DOMAIN source = {} /\ DOMAIN made = {}
  OBVIOUS
<1>3. CfTypeOK
  <2>1. source \in [DOMAIN source -> CfResource] /\ made \in [DOMAIN made -> Made]
    OBVIOUS
  <2>2. QED
    BY <1>2, <2>1 DEF CfTypeOK
<1>4. LoopsInv
  BY <1>2 DEF LoopsInv
<1>5. MadeInv /\ AttachedInv
  BY <1>2 DEF MadeInv, AttachedInv, Convertible, Split
<1> QED
  BY <1>1, <1>3, <1>4, <1>5 DEF CfInv

LEMMA CfOrderStays ==
  ASSUME CfInv, UNCHANGED orderVars
  PROVE  OrderInv' /\ (phase = "idle" => phase' = "idle")
  BY StutterOrderInv DEF CfInv, orderVars

LEMMA ReadCfInv ==
  ASSUME CfInv, NEW t \in CfTemplates, Read(t), UNCHANGED orderVars
  PROVE  CfInv'
<1> USE DEF CfInv
<1>0. cf = "load" /\ DOMAIN made = {} /\ toHandle = {} /\ phase = "idle"
  BY DEF Read, LoopsInv
<1>1. OrderInv' /\ phase' = "idle"
  BY <1>0, CfOrderStays
<1>2. /\ source' = t /\ pending' = DOMAIN t /\ UNCHANGED <<toHandle, made>>
      /\ cf' = IF t = <<>> THEN "handle" ELSE "convert"
      /\ DOMAIN t \subseteq Ids /\ t \in [DOMAIN t -> CfResource]
  BY CfAssumption DEF Read
<1>3. t = <<>> => DOMAIN t = {}
  OBVIOUS
<1>4. CfTypeOK'
  BY <1>0, <1>2 DEF CfTypeOK
<1>5. LoopsInv'
  BY <1>0, <1>2, <1>3 DEF LoopsInv, Done
<1>6. MadeInv' /\ AttachedInv'
  BY <1>0, <1>2 DEF MadeInv, AttachedInv, Convertible, Split, Done
<1> QED
  BY <1>1, <1>2, <1>4, <1>5, <1>6

LEMMA RefuseCfInv ==
  ASSUME CfInv, RefuseSource, UNCHANGED orderVars
  PROVE  CfInv'
<1> USE DEF CfInv, RefuseSource
<1>1. OrderInv' /\ phase' = "idle"
  BY CfOrderStays
<1>2. CfTypeOK'
  BY DEF CfTypeOK
<1>3. LoopsInv'
  BY DEF LoopsInv
<1> QED
  BY <1>1, <1>2, <1>3

----------------------------------------------------------------------------
\* The types of what is added.
LEMMA ConvertedType ==
  ASSUME NEW r \in CfResource, r.kind \in DOMAIN TargetType
  PROVE  /\ Converted(r) \in Made
         /\ Converted(r).type = TargetType[r.kind]
         /\ Converted(r).vpc = {}
  BY TargetsAre DEF Converted, Made, CfResource

LEMMA AssociationType ==
  ASSUME NEW r \in CfResource
  PROVE  /\ Association(r) \in Made
         /\ Association(r).type = "EIPAssociation"
         /\ Association(r).vpc = {}
  BY DEF Association, Made, CfResource, TargetTypes

LEMMA AddType ==
  ASSUME CfTypeOK, NEW id \in Ids, NEW q \in Made, q.vpc = {}, Add(id, q), UNCHANGED source
  PROVE  /\ DOMAIN made' = DOMAIN made \cup {id}
         /\ made'[id] = q
         /\ \A i \in DOMAIN made \ {id} : made'[i] = made[i]
         /\ DOMAIN made' \subseteq Ids
         /\ made' \in [DOMAIN made' -> Made]
         /\ \A g \in DOMAIN made' : made'[g].vpc \subseteq DOMAIN source
<1>1. /\ DOMAIN made' = DOMAIN made \cup {id}
      /\ made'[id] = q
      /\ \A i \in DOMAIN made \ {id} : made'[i] = made[i]
  BY DEF Add
<1>2. \A i \in DOMAIN made' : made'[i] \in Made
  BY <1>1 DEF CfTypeOK
<1>3. made' \in [DOMAIN made' -> Made]
  BY <1>2 DEF Add
<1> QED
  BY <1>1, <1>3 DEF CfTypeOK

LEMMA ConvertCfInv ==
  ASSUME CfInv, NEW n \in pending, ConvertResource(n), UNCHANGED orderVars
  PROVE  CfInv'
<1> USE DEF CfInv
<1>0. /\ cf = "convert" /\ phase = "idle" /\ UNCHANGED source
      /\ n \in DOMAIN source /\ source[n] \in CfResource /\ n \in Ids
      /\ pending' = pending \ {n}
      /\ toHandle' = toHandle \cup (IF HasHandler(source[n]) THEN {n} ELSE {})
  BY DEF ConvertResource, CfTypeOK
<1>1. OrderInv' /\ phase' = "idle"
  BY <1>0, CfOrderStays
<1>2. /\ cf' = "handle" => pending' = {}
      /\ cf' \in {"failed", "handle", "convert"}
  BY DEF ConvertResource
<1>3. \A m \in Done' : ~HasHandler(source[m])
  BY <1>0 DEF LoopsInv, Done
<1>4. LoopsInv'
  BY <1>0, <1>2, <1>3 DEF LoopsInv, HasHandler
<1>5. Split \cap Done = {} /\ (Split \cap Done)' = {}
  <2>1. \A m \in Split : HasHandler(source[m])
    BY DEF Split, HasHandler
  <2>2. \A m \in Done : ~HasHandler(source[m])
    BY <1>0 DEF LoopsInv
  <2>3. QED
    BY <1>0, <1>3, <2>1, <2>2 DEF Split
<1>6. \A g : (Attached(g) \cap Done)' = {}
  BY <1>0, <1>3 DEF Attached, HasHandler
<1>7. CASE source[n].kind \in DOMAIN TargetType /\ source[n].breaks
  <2>1. cf' = "failed" /\ UNCHANGED made
    BY <1>7 DEF ConvertResource
  <2>2. CfTypeOK'
    BY <1>0, <2>1 DEF CfTypeOK
  <2>3. QED
    BY <1>1, <1>4, <2>1, <2>2
<1>8. CASE source[n].kind \notin DOMAIN TargetType
  <2>1. UNCHANGED made
    BY <1>8 DEF ConvertResource
  <2>2. CfTypeOK'
    BY <1>0, <1>2, <2>1 DEF CfTypeOK
  <2>3. MadeInv'
    BY <1>0, <1>5, <1>8, <2>1 DEF MadeInv, Convertible
  <2>4. AttachedInv'
    BY <1>0, <1>6, <2>1 DEF AttachedInv, Attached
  <2>5. QED
    BY <1>0, <1>1, <1>2, <1>4, <2>2, <2>3, <2>4
<1>9. CASE source[n].kind \in DOMAIN TargetType /\ ~source[n].breaks
  <2> DEFINE q == Converted(source[n])
  <2>1. q \in Made /\ q.type = TargetType[source[n].kind] /\ q.vpc = {}
    BY <1>0, <1>9, ConvertedType
  <2>2. Add(n, q)
    BY <1>9 DEF ConvertResource
  <2> HIDE DEF q
  <2>3. /\ DOMAIN made' = DOMAIN made \cup {n}
        /\ made'[n] = q
        /\ \A i \in DOMAIN made \ {n} : made'[i] = made[i]
        /\ DOMAIN made' \subseteq Ids
        /\ made' \in [DOMAIN made' -> Made]
        /\ \A g \in DOMAIN made' : made'[g].vpc \subseteq DOMAIN source
    BY <1>0, <2>1, <2>2, AddType
  <2>4. CfTypeOK'
    BY <1>0, <1>2, <2>3 DEF CfTypeOK
  <2>5. MadeInv'
    <3>1. (Convertible \ pending)' = (Convertible \ pending) \cup {n}
      BY <1>0, <1>9 DEF Convertible
    <3>2. \A i : i \in DOMAIN made <=> i \in Convertible \ pending
      BY <1>0, <1>5 DEF MadeInv
    <3>3. \A i \in Convertible \ pending : made[i].type = TargetType[source[i].kind]
      BY <1>0, <1>5 DEF MadeInv
    <3>4. \A i \in (Convertible \ pending)' : made'[i].type = TargetType[source[i].kind]
      BY <2>1, <2>3, <3>1, <3>2, <3>3
    <3>5. \A i : i \in DOMAIN made' <=> i \in (Convertible \ pending)'
      BY <2>3, <3>1, <3>2
    <3>6. QED
      BY <1>0, <1>5, <3>4, <3>5 DEF MadeInv
  <2>6. AttachedInv'
    <3>1. \A g \in DOMAIN made' : made'[g].vpc \subseteq Attached(g)'
      <4>1. ASSUME NEW g \in DOMAIN made' PROVE made'[g].vpc \subseteq Attached(g)'
        <5>1. CASE g = n
          BY <2>1, <2>3, <5>1
        <5>2. CASE g # n
          <6>1. g \in DOMAIN made /\ made'[g] = made[g]
            BY <2>3, <5>2
          <6>2. Attached(g)' = Attached(g)
            BY <1>0, <6>1 DEF Attached
          <6>3. QED
            BY <1>0, <6>1, <6>2 DEF AttachedInv
        <5>3. QED
          BY <5>1, <5>2
      <4>2. QED
        BY <4>1
    <3>2. QED
      BY <3>1, <1>6 DEF AttachedInv
  <2>7. QED
    BY <1>0, <1>1, <1>2, <1>4, <2>4, <2>5, <2>6
<1> QED
  BY <1>7, <1>8, <1>9

LEMMA SplitCfInv ==
  ASSUME CfInv, NEW n \in toHandle, SplitNatGateway(n), UNCHANGED orderVars
  PROVE  CfInv'
<1> USE DEF CfInv
<1>0. /\ cf = "handle" /\ phase = "idle" /\ pending = {}
      /\ UNCHANGED <<cf, source, pending>>
      /\ n \in DOMAIN source /\ source[n] \in CfResource /\ n \in Ids
      /\ source[n].kind = "nat" /\ toHandle' = toHandle \ {n} /\ Done' = Done \cup {n}
      /\ AssociationId[n] \in Ids
  BY CfAssumption DEF SplitNatGateway, CfTypeOK, LoopsInv, Done
<1>1. OrderInv' /\ phase' = "idle"
  BY <1>0, CfOrderStays
<1>2. LoopsInv'
  BY <1>0 DEF LoopsInv
<1>3. Convertible' = Convertible /\ Split' = Split
  BY <1>0 DEF Convertible, Split
<1>4. \A g : n \notin Attached(g)
  BY <1>0 DEF Attached
<1>5. CASE ~source[n].given
  <2>1. UNCHANGED made /\ n \notin Split
    BY <1>5 DEF SplitNatGateway, Split
  <2>2. CfTypeOK'
    BY <1>0, <2>1 DEF CfTypeOK
  <2>3. (Split \cap Done)' = Split \cap Done
    BY <1>0, <1>3, <2>1
  <2>4. MadeInv'
    BY <1>0, <1>3, <2>1, <2>3 DEF MadeInv
  <2>5. \A g : Attached(g)' = Attached(g)
    BY <1>0, <2>1 DEF Attached
  <2>6. AttachedInv'
    BY <1>0, <1>4, <2>1, <2>5 DEF AttachedInv
  <2>7. QED
    BY <1>0, <1>1, <1>2, <2>2, <2>4, <2>6
<1>6. CASE source[n].given
  <2> DEFINE q == Association(source[n])
             id == AssociationId[n]
  <2>1. q \in Made /\ q.type = "EIPAssociation" /\ q.vpc = {}
    BY <1>0, AssociationType
  <2>2. Add(id, q) /\ n \in Split
    BY <1>0, <1>6 DEF SplitNatGateway, Split
  <2>3. id \in Ids /\ id = AssociationId[n]
    BY <1>0
  <2> HIDE DEF q, id
  <2>4. /\ DOMAIN made' = DOMAIN made \cup {id}
        /\ made'[id] = q
        /\ \A i \in DOMAIN made \ {id} : made'[i] = made[i]
        /\ DOMAIN made' \subseteq Ids
        /\ made' \in [DOMAIN made' -> Made]
        /\ \A g \in DOMAIN made' : made'[g].vpc \subseteq DOMAIN source
    BY <1>0, <2>1, <2>2, <2>3, AddType
  <2>5. CfTypeOK'
    BY <1>0, <2>4 DEF CfTypeOK
  <2>6. (Split \cap Done)' = (Split \cap Done) \cup {n}
    BY <1>0, <1>3, <2>2
  <2>7. MadeInv'
    <3>1. \A i : i \in DOMAIN made' <=> \/ i \in (Convertible \ pending)'
                                        \/ \E m \in (Split \cap Done)' : AssociationId[m] = i
      BY <1>0, <1>3, <2>3, <2>4, <2>6 DEF MadeInv
    <3>2. \A m \in (Split \cap Done)' : made'[AssociationId[m]].type = "EIPAssociation"
      BY <1>0, <2>1, <2>3, <2>4, <2>6 DEF MadeInv
    <3>3. \A i \in (Convertible \ pending)' :
            \/ \E m \in (Split \cap Done)' : AssociationId[m] = i
            \/ made'[i].type = TargetType[source[i].kind]
      BY <1>0, <1>3, <2>3, <2>4, <2>6 DEF MadeInv
    <3>4. QED
      BY <1>0, <3>1, <3>2, <3>3 DEF MadeInv
  <2>8. AttachedInv'
    <3>1. Attached(id)' = {} /\ made'[id].vpc = {}
      BY <2>1, <2>4 DEF Attached
    <3>2. ASSUME NEW g \in DOMAIN made', g # id
          PROVE  /\ made'[g].vpc \subseteq Attached(g)'
                 /\ (Attached(g) \cap Done)' # {} => made'[g].vpc # {}
      <4>1. g \in DOMAIN made /\ made'[g] = made[g]
        BY <2>4, <3>2
      <4>2. Attached(g)' = Attached(g)
        BY <1>0, <4>1 DEF Attached
      <4>3. QED
        BY <1>0, <1>4, <4>1, <4>2 DEF AttachedInv
    <3>3. QED
      BY <3>1, <3>2 DEF AttachedInv
  <2>9. QED
    BY <1>0, <1>1, <1>2, <2>5, <2>7, <2>8
<1> QED
  BY <1>5, <1>6

LEMMA MergeCfInv ==
  ASSUME CfInv, NEW n \in toHandle, MergeAttachment(n), UNCHANGED orderVars
  PROVE  CfInv'
<1> USE DEF CfInv
<1>0. /\ cf = "handle" /\ phase = "idle" /\ pending = {}
      /\ UNCHANGED <<cf, source, pending>>
      /\ n \in DOMAIN source /\ source[n] \in CfResource /\ n \in Ids
      /\ source[n].kind = "attachment" /\ toHandle' = toHandle \ {n} /\ Done' = Done \cup {n}
  BY DEF MergeAttachment, CfTypeOK, LoopsInv, Done
<1>1. OrderInv' /\ phase' = "idle"
  BY <1>0, CfOrderStays
<1>2. LoopsInv'
  BY <1>0 DEF LoopsInv
<1>3. Convertible' = Convertible /\ Split' = Split /\ n \notin Split
  BY <1>0 DEF Convertible, Split
<1>4. DOMAIN made' = DOMAIN made
  BY DEF MergeAttachment
<1>5. ASSUME NEW g \in DOMAIN made
      PROVE  /\ made'[g] \in Made /\ made'[g].type = made[g].type
             /\ made'[g].vpc = IF n \in Attached(g) THEN {n} ELSE made[g].vpc
  <2>1. made'[g] = IF Attaches(source[n], g) THEN [made[g] EXCEPT !.vpc = {n}] ELSE made[g]
    BY DEF MergeAttachment
  <2>2. made[g] \in Made
    BY DEF CfTypeOK
  <2>3. Attaches(source[n], g) <=> n \in Attached(g)
    BY <1>0 DEF Attaches, Attached, SlotType, CfResource, Slots
  <2>4. QED
    BY <1>0, <2>1, <2>2, <2>3 DEF Made
<1>6. CfTypeOK'
  <2>1. made' \in [DOMAIN made' -> Made]
    <3>1. \A g \in DOMAIN made' : made'[g] \in Made
      BY <1>4, <1>5
    <3>2. QED
      BY <3>1 DEF MergeAttachment
  <2>2. \A g \in DOMAIN made' : made'[g].vpc \subseteq DOMAIN source
    BY <1>0, <1>4, <1>5 DEF CfTypeOK
  <2>3. QED
    BY <1>0, <1>4, <2>1, <2>2 DEF CfTypeOK
<1>7. MadeInv'
  <2>1. (Split \cap Done)' = Split \cap Done
    BY <1>0, <1>3
  <2>2. \A i \in DOMAIN made : made'[i].type = made[i].type
    BY <1>5
  <2>3. (Convertible \ pending)' = Convertible \ pending
    BY <1>0, <1>3
  <2>4. MadeInv /\ source' = source
    BY <1>0
  <2>5. \A m \in Split \cap Done : AssociationId[m] \in DOMAIN made
    BY <2>4 DEF MadeInv
  <2>6. \A i \in Convertible \ pending : i \in DOMAIN made
    BY <2>4 DEF MadeInv
  <2>7. QED
    BY <1>4, <2>1, <2>2, <2>3, <2>4, <2>5, <2>6 DEF MadeInv
<1>8. AttachedInv'
  <2>1. \A g \in DOMAIN made : Attached(g)' = Attached(g)
    BY <1>0, <1>5 DEF Attached
  <2>2. QED
    BY <1>0, <1>4, <1>5, <2>1 DEF AttachedInv
<1> QED
  BY <1>0, <1>1, <1>2, <1>6, <1>7, <1>8

LEMMA ConversionCfInv ==
  ASSUME CfInv, CfConvert, UNCHANGED orderVars
  PROVE  CfInv'
<1>1. CASE Open
  <2>1. ASSUME NEW t \in CfTemplates, Read(t) PROVE CfInv'
    BY <2>1, ReadCfInv
  <2>2. CASE RefuseSource
    BY <2>2, RefuseCfInv
  <2> QED
    BY <1>1, <2>1, <2>2 DEF Open
<1>2. ASSUME NEW n \in pending, ConvertResource(n) PROVE CfInv'
  BY <1>2, ConvertCfInv
<1>3. ASSUME NEW n \in toHandle, SplitNatGateway(n) PROVE CfInv'
  BY <1>3, SplitCfInv
<1>4. ASSUME NEW n \in toHandle, MergeAttachment(n) PROVE CfInv'
  BY <1>4, MergeCfInv
<1> QED
  BY <1>1, <1>2, <1>3, <1>4 DEF CfConvert

\* The template handed over is one that the order can be of.
LEMMA WriteCfInv ==
  ASSUME CfInv, WriteTemplate
  PROVE  CfInv'
<1> USE DEF CfInv
<1>0. /\ cf = "handle" /\ phase = "idle" /\ pending = {} /\ toHandle = {}
      /\ UNCHANGED <<source, pending, toHandle, made>>
      /\ cf' \in {"failed", "saved"}
  BY DEF WriteTemplate, LoopsInv
<1>1. CfTypeOK' /\ LoopsInv'
  BY <1>0 DEF CfTypeOK, LoopsInv
<1>2. MadeInv' /\ AttachedInv'
  <2>1. Done' = Done /\ Split' = Split /\ Convertible' = Convertible
    BY <1>0 DEF Done, Split, Convertible
  <2>2. \A m : Attached(m)' = Attached(m)
    BY <1>0 DEF Attached
  <2>3. QED
    BY <1>0, <2>1, <2>2 DEF MadeInv, AttachedInv
<1>3. CASE cf' = "failed"
  <2>1. UNCHANGED orderVars
    BY <1>3 DEF WriteTemplate
  <2>2. QED
    BY <1>0, <1>1, <1>3, <2>1, CfOrderStays
<1>4. CASE cf' = "saved"
  <2> DEFINE t == [m \in DOMAIN made |->
               [dependsOn |-> made[m].dependsOn, refs |-> AllRefs(made[m])]]
  <2>1. Begin(t)
    BY <1>4 DEF WriteTemplate
  <2>2. ASSUME NEW m \in DOMAIN made PROVE t[m] \in Resource
    <3>1. made[m] \in Made /\ made[m].vpc \subseteq DOMAIN source
      BY DEF CfTypeOK
    <3>2. \A n \in DOMAIN source : source[n].value \subseteq Reference
      BY DEF CfTypeOK, CfResource
    <3>3. AllRefs(made[m]) \subseteq Reference
      BY <3>1, <3>2 DEF AllRefs, Made
    <3>4. QED
      BY <3>1, <3>3 DEF Made, Resource
  <2>3. DOMAIN t \subseteq Ids /\ t \in [DOMAIN t -> Resource]
    BY <2>2 DEF CfTypeOK
  <2> HIDE DEF t
  <2>4. OrderInv'
    BY <2>1, <2>3, BeginOrderInv
  <2>5. QED
    BY <1>1, <1>2, <1>4, <2>4
<1> QED
  BY <1>0, <1>3, <1>4

LEMMA OrderCfInv ==
  ASSUME CfInv, OrderStep \/ UNCHANGED orderVars, UNCHANGED cfVars
  PROVE  CfInv'
<1> USE DEF CfInv, cfVars
<1>1. OrderInv'
  BY StepOrderInv, StutterOrderInv
<1>2. CfTypeOK' /\ LoopsInv'
  BY DEF CfTypeOK, LoopsInv, Done
<1>3. cf # "failed" => MadeInv' /\ AttachedInv'
  <2>1. Done' = Done /\ Split' = Split /\ Convertible' = Convertible
    BY DEF Done, Split, Convertible
  <2>2. \A m : Attached(m)' = Attached(m)
    BY DEF Attached
  <2>3. QED
    BY <2>1, <2>2 DEF MadeInv, AttachedInv
<1>4. cf' # "saved" => phase' = "idle"
  <2>1. CASE UNCHANGED orderVars
    BY <2>1 DEF orderVars
  <2>2. CASE OrderStep
    <3>1. phase # "idle"
      BY <2>2 DEF OrderStep, AddEdges, TopoSort, VisitVertex, VisitDependency, Return, Write
    <3>2. QED
      BY <3>1
  <2>3. QED
    BY <2>1, <2>2
<1> QED
  BY <1>1, <1>2, <1>3, <1>4

\* The invariant holds in every reachable state.
THEOREM CfInvariant == CfSpec => []CfInv
<1>1. CfInv /\ [CfNext]_<<orderVars, cfVars>> => CfInv'
  <2> SUFFICES ASSUME CfInv, [CfNext]_<<orderVars, cfVars>> PROVE CfInv'
    OBVIOUS
  <2>1. CASE CfConvert /\ UNCHANGED orderVars
    BY <2>1, ConversionCfInv
  <2>2. CASE WriteTemplate
    BY <2>2, WriteCfInv
  <2>3. CASE (OrderStep \/ UNCHANGED orderVars) /\ UNCHANGED cfVars
    BY <2>3, OrderCfInv
  <2> QED
    BY <2>1, <2>2, <2>3 DEF CfNext
<1> QED
  BY <1>1, InitCfInv, PTL DEF CfSpec

----------------------------------------------------------------------------
\* The variables hold values of their types.
THEOREM CfTypeCorrect == CfSpec => []CfTypeOK
  BY CfInvariant, PTL DEF CfInv

\* The section has the resources that the rules and split_nat_gateway give,
\* whatever the source is and in whatever order they are converted.
THEOREM ConversionIsComplete == CfSpec => []NothingLostOrInvented
<1>1. CfInv => NothingLostOrInvented
  <2> SUFFICES ASSUME CfInv, cf = "saved" PROVE NothingLostOrInvented
    BY DEF NothingLostOrInvented
  <2>1. MadeInv /\ pending = {} /\ Split \cap Done = Split
    BY DEF CfInv, LoopsInv, Done, Split
  <2>2. DOMAIN made = Convertible \cup {AssociationId[n] : n \in Split}
    BY <2>1 DEF MadeInv
  <2>3. QED
    BY <2>1, <2>2 DEF MadeInv, NothingLostOrInvented
<1> QED
  BY <1>1, CfInvariant, PTL

\* Each VpcId reaches the gateways that its attachment is for, and no other,
\* whichever is converted first.
THEOREM AttachmentsReachGateways == CfSpec => []AttachmentsMerged
<1>1. CfInv => AttachmentsMerged
  <2> SUFFICES ASSUME CfInv, cf = "saved" PROVE AttachmentsMerged
    BY DEF AttachmentsMerged
  <2>1. AttachedInv /\ pending = {} /\ toHandle = {}
    BY DEF CfInv, LoopsInv
  <2>2. \A n : Attached(n) \cap Done = Attached(n)
    BY <2>1 DEF Attached, Done
  <2>3. QED
    BY <2>1, <2>2 DEF AttachedInv, AttachmentsMerged
<1> QED
  BY <1>1, CfInvariant, PTL

\* A converted template is written whole and in dependency order.
THEOREM CfInOrder == CfSpec => [](EachResourceOnce /\ DependenciesFirst)
<1>1. CfInv => EachResourceOnce /\ DependenciesFirst
  BY WrittenOnce DEF CfInv, OrderInv
<1> QED
  BY <1>1, CfInvariant, PTL
=============================================================================
