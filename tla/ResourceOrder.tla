---------------------------- MODULE ResourceOrder ----------------------------
(***************************************************************************)
(* How the Resources section of a ROS template is ordered when it is       *)
(* written: Resources.as_dict(format=True) in rostran/core/resources.py    *)
(* and Graph in rostran/core/utils.py.  Every conversion to ROS and the    *)
(* command `rostran format` end here.                                      *)
(*                                                                         *)
(* A resource is what decides the order: the names in its DependsOn and    *)
(* the references (Ref, Fn::GetAtt) in its properties.  Both may name what *)
(* is not a resource of the template, a parameter for instance.  The order *)
(* of ids, alphabetical or as written, is abstracted: where the code       *)
(* follows one, the model follows any.                                     *)
(***************************************************************************)
EXTENDS Naturals, Sequences, FiniteSets

CONSTANTS
  Ids,        \* the names a resource can have, depend on or refer to
  Templates   \* the Resources sections that may be written

\* single: on the way to the reference there is a dict with one key, such as
\* a function call ({"Fn::Join": ...}).
Reference == [to : Ids, single : BOOLEAN]

Resource == [dependsOn : SUBSET Ids, refs : SUBSET Reference]

ASSUME TemplatesAssumption ==
  \A t \in Templates : DOMAIN t \subseteq Ids /\ t \in [DOMAIN t -> Resource]

VARIABLES
  phase,      \* "idle", "edges", "sort" or "done"
  resources,  \* the template's resources, by id
  unread,     \* the resources whose edges are not in the graph yet
  graph,      \* Graph.graph: for each vertex, the vertices it depends on
  vertices,   \* the keys of Graph.visited
  visited,    \* those whose value is True
  stack,      \* the calls of _topo_sort under way, the innermost last
  sorted      \* sorted_vertices

orderVars == <<phase, resources, unread, graph, vertices, visited, stack, sorted>>

----------------------------------------------------------------------------
\* Properties.get_depends_on_set descends into lists and into dicts with
\* several keys; a dict with one key it only compares with a reference.
GetDependsOnSet(r) == r.dependsOn \cup {ref.to : ref \in {x \in r.refs : ~x.single}}

\* The edges as_dict gives the resource k: `if depends_on in self`.
Edges(k) == GetDependsOnSet(resources[k]) \cap DOMAIN resources

IdleInit ==
  /\ phase = "idle"
  /\ resources = <<>>
  /\ unread = {}
  /\ graph = [k \in Ids |-> {}]
  /\ vertices = {}
  /\ visited = {}
  /\ stack = <<>>
  /\ sorted = <<>>

\* RosTemplate.save asks for the section in dependency order.
Begin(t) ==
  /\ phase = "idle"
  /\ phase' = "edges"
  /\ resources' = t
  /\ unread' = DOMAIN t
  /\ UNCHANGED <<graph, vertices, visited, stack, sorted>>

\* Slip: add_edge(key) is called only when the for had nothing to go over.
AddEdgesOfLeaves(key) ==
  /\ phase = "edges"
  /\ key \in unread
  /\ unread' = unread \ {key}
  /\ graph' = [graph EXCEPT ![key] = Edges(key)]
  /\ vertices' = vertices \cup Edges(key)
                  \cup (IF GetDependsOnSet(resources[key]) = {} THEN {key} ELSE {})
  /\ UNCHANGED <<phase, resources, visited, stack, sorted>>

\* add_edge for every edge of key, then add_edge(key): the else of the for
\* runs whether or not there was an edge.
AddEdges(key) ==
  /\ phase = "edges"
  /\ key \in unread
  /\ unread' = unread \ {key}
  /\ graph' = [graph EXCEPT ![key] = Edges(key)]
  /\ vertices' = vertices \cup {key} \cup Edges(key)
  /\ UNCHANGED <<phase, resources, visited, stack, sorted>>

TopoSort ==
  /\ phase = "edges"
  /\ unread = {}
  /\ phase' = "sort"
  /\ visited' = {}
  /\ UNCHANGED <<resources, unread, graph, vertices, stack, sorted>>

\* _topo_sort(v, ...): v is marked before its dependencies are looked at.
Call(v) ==
  /\ v \notin visited
  /\ visited' = visited \cup {v}
  /\ stack' = Append(stack, v)
  /\ UNCHANGED <<phase, resources, unread, graph, vertices, sorted>>

\* The loop of topo_sort calls _topo_sort for the next vertex not visited.
VisitVertex(v) ==
  /\ phase = "sort"
  /\ stack = <<>>
  /\ v \in vertices
  /\ Call(v)

\* The innermost call descends into a dependency that is not visited.
VisitDependency(v) ==
  /\ phase = "sort"
  /\ stack # <<>>
  /\ v \in graph[stack[Len(stack)]]
  /\ Call(v)

\* Slip: the call returns after its first dependency.
ReturnEarly ==
  /\ phase = "sort"
  /\ stack # <<>>
  /\ \/ graph[stack[Len(stack)]] = {}
     \/ graph[stack[Len(stack)]] \cap visited # {}
  /\ sorted' = Append(sorted, stack[Len(stack)])
  /\ stack' = SubSeq(stack, 1, Len(stack) - 1)
  /\ UNCHANGED <<phase, resources, unread, graph, vertices, visited>>

\* The innermost call has looked at every dependency: it appends its vertex.
Return ==
  /\ phase = "sort"
  /\ stack # <<>>
  /\ graph[stack[Len(stack)]] \subseteq visited
  /\ sorted' = Append(sorted, stack[Len(stack)])
  /\ stack' = SubSeq(stack, 1, Len(stack) - 1)
  /\ UNCHANGED <<phase, resources, unread, graph, vertices, visited>>

\* Every vertex is visited: the section is written in the order of sorted.
Write ==
  /\ phase = "sort"
  /\ stack = <<>>
  /\ vertices \subseteq visited
  /\ phase' = "done"
  /\ UNCHANGED <<resources, unread, graph, vertices, visited, stack, sorted>>

OrderStep ==
  \/ \E k \in unread : AddEdges(k)
  \/ TopoSort
  \/ \E v \in vertices : VisitVertex(v)
  \/ \E v \in vertices : VisitDependency(v)
  \/ Return
  \/ Write

Next == (\E t \in Templates : Begin(t)) \/ OrderStep

Spec == IdleInit /\ [][Next]_orderVars

----------------------------------------------------------------------------
\* The variables hold values of their types.
OrderTypeOK ==
  /\ phase \in {"idle", "edges", "sort", "done"}
  /\ DOMAIN resources \subseteq Ids
  /\ resources \in [DOMAIN resources -> Resource]
  /\ unread \subseteq DOMAIN resources
  /\ graph \in [Ids -> SUBSET Ids]
  /\ vertices \subseteq DOMAIN resources
  /\ visited \subseteq vertices
  /\ stack \in Seq(visited)
  /\ sorted \in Seq(visited)

\* Nothing is lost and nothing is written twice: the section that is written
\* has every resource of the template exactly once, also one that only
\* depends on names that are not resources, and one on a cycle
\* (Resources.as_dict, Graph.topo_sort).
EachResourceOnce ==
  phase = "done" =>
    /\ \A k \in DOMAIN resources : \E i \in DOMAIN sorted : sorted[i] = k
    /\ \A i \in DOMAIN sorted : sorted[i] \in DOMAIN resources
    /\ \A i, j \in DOMAIN sorted : sorted[i] = sorted[j] => i = j

\* The recursion never enters a resource it is in already, so that its depth
\* is bounded by the number of resources whatever cycles the template has
\* (Graph._topo_sort).
NoReentry ==
  \A i, j \in DOMAIN stack : stack[i] = stack[j] => i = j

\* a reaches b along dependencies: every set that holds a and is closed under
\* them holds b.
Reaches(a, b) ==
  \A S \in SUBSET DOMAIN resources :
    (a \in S /\ \A k \in S : Edges(k) \subseteq S) => b \in S

Before(a, i) == \E j \in DOMAIN sorted : j < i /\ sorted[j] = a

\* Dependencies come first: what a resource depends on, as far as
\* get_depends_on_set sees it, is written before it; only two resources on
\* the same cycle may be in the other order.
DependenciesFirst ==
  \A i \in DOMAIN sorted : \A d \in Edges(sorted[i]) :
    Before(d, i) \/ Reaches(d, sorted[i])

\* website/docs/usage/format.md: "The `Resources` section is sorted in resource
\* dependency order, with dependent resources first."  A reference is a
\* dependency wherever it stands in a property.
AllEdges(k) ==
  (resources[k].dependsOn \cup {ref.to : ref \in resources[k].refs})
    \cap DOMAIN resources

AllReaches(a, b) ==
  \A S \in SUBSET DOMAIN resources :
    (a \in S /\ \A k \in S : AllEdges(k) \subseteq S) => b \in S

SortedAsDocumented ==
  phase = "done" =>
    \A i \in DOMAIN sorted : \A d \in AllEdges(sorted[i]) :
      Before(d, i) \/ AllReaches(d, sorted[i])
=============================================================================
