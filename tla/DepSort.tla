------------------------------- MODULE DepSort -------------------------------
(***************************************************************************)
(* depsort.rs: topo_sort_by_depends_on (Kahn's algorithm) followed by      *)
(* compute_resource_layers, as create_operation runs them on the resources *)
(* of a submitted operation.                                               *)
(*                                                                         *)
(* Resources are the positions 1..n of the submitted list. ids[i] is the   *)
(* resource_id of i and dependsOn[i] the ids its metadata.dependsOn lists; *)
(* read_depends_on has refused repeated entries, so it is a set. Nothing   *)
(* refuses two resources with the same id: each of the two functions       *)
(* resolves an id to its last position in the list it is given (the insert *)
(* into id_to_idx overwrites).                                             *)
(***************************************************************************)
EXTENDS Integers, Sequences, SequencesExt, FiniteSets

CONSTANTS
  Id,      \* resource ids
  IdList,  \* the lists of resource ids that may be submitted
  NoHost, NoAgent, NoCanary

ASSUME DepSortAssumption == \A l \in IdList : l \in Seq(Id)

\* The reference definitions of module Routing.
R == INSTANCE Routing WITH Agent <- {}, AgentEnv <- <<>>, MaxLayer <- 0

VARIABLES
  ids,       \* the submitted list: resource_id by position
  dependsOn, \* metadata.dependsOn by position
  pc,        \* where the two functions are
  inDegree,  \* in_degree
  queue,     \* queue
  order,     \* order, then the sorted routing list
  layers     \* layers computed so far, by resource

vars == <<ids, dependsOn, pc, inDegree, queue, order, layers>>

Node == DOMAIN ids

\* id_to_idx of a list of resources: the last place with the id.
Place(list, id) == R!Max({j \in 1..Len(list) : ids[list[j]] = id})

Known(id) == \E i \in Node : ids[i] = id

\* The resources that i depends on, as the sort resolves them; 0 if unknown.
deps ==
  [i \in Node |->
     {IF Known(id) THEN Place([j \in Node |-> j], id) ELSE 0 : id \in dependsOn[i]}]

Init ==
  /\ ids \in IdList
  /\ dependsOn \in [Node -> SUBSET Id]
  /\ pc = "build"
  /\ inDegree = [i \in Node |-> 0]
  /\ queue = <<>>
  /\ order = <<>>
  /\ layers = <<>>

\* The positions of a set, in the order of the list: the k-th has k up to it.
InOrder(S) == [k \in 1..Cardinality(S) |-> CHOOSE i \in S : Cardinality({j \in S : j <= i}) = k]

\* Unknown names and self-dependencies are refused; otherwise every dependency
\* counts once and the resources without one are queued in list order.
Build ==
  /\ pc = "build"
  /\ IF \E i \in Node : i \in deps[i] \/ ~(deps[i] \subseteq Node)
     THEN /\ pc' = "bad_request"
          /\ UNCHANGED <<inDegree, queue>>
     ELSE /\ pc' = "sort"
          /\ inDegree' = [i \in Node |-> Cardinality(deps[i])]
          /\ queue' = InOrder({i \in Node : deps[i] = {}})
  /\ UNCHANGED <<ids, dependsOn, order, layers>>

\* One turn of the loop: the first of the queue is next, and the resources that
\* waited for nothing else are queued, in list order (adjacency lists are
\* filled in list order).
Pop ==
  LET idx  == Head(queue)
      next == {i \in Node : idx \in deps[i]}
      free == {i \in next : inDegree[i] = 1}
  IN /\ pc = "sort"
     /\ queue # <<>>
     /\ order' = Append(order, idx)
     /\ inDegree' = [i \in Node |-> IF i \in next THEN inDegree[i] - 1 ELSE inDegree[i]]
     /\ queue' = Tail(queue) \o InOrder(free)
     /\ UNCHANGED <<ids, dependsOn, pc, layers>>

\* Mutant: whatever was sorted is good enough.
Sorted_Partial ==
  /\ pc = "sort"
  /\ queue = <<>>
  /\ pc' = "layers"
  /\ UNCHANGED <<ids, dependsOn, inDegree, queue, order, layers>>

\* The loop is over: resources that are left wait for each other.
Sorted ==
  /\ pc = "sort"
  /\ queue = <<>>
  /\ pc' = IF Len(order) = Cardinality(Node) THEN "layers" ELSE "bad_request"
  /\ UNCHANGED <<ids, dependsOn, inDegree, queue, order, layers>>

\* Where compute_resource_layers finds the dependencies of i: it resolves ids
\* again, in the sorted list.
DepPlaces(i) == {Place(order, id) : id \in dependsOn[i]}

\* Mutant: dependencies are counted, not measured.
NextLayer_Count(i) == Cardinality(DepPlaces(i))

\* One more than the deepest dependency.
NextLayer(i) == R!Max({-1} \cup {layers[j] : j \in DepPlaces(i)}) + 1

\* compute_resource_layers, one resource of the sorted list at a time. A
\* dependency that does not come earlier in the list is an internal error.
Layer ==
  LET i == order[Len(layers) + 1] IN
  /\ pc = "layers"
  /\ Len(layers) < Len(order)
  /\ IF \A j \in DepPlaces(i) : j <= Len(layers)
     THEN /\ layers' = Append(layers, NextLayer(i))
          /\ UNCHANGED pc
     ELSE /\ pc' = "internal_error"
          /\ UNCHANGED layers
  /\ UNCHANGED <<ids, dependsOn, inDegree, queue, order>>

Layered ==
  /\ pc = "layers"
  /\ Len(layers) = Len(order)
  /\ pc' = "done"
  /\ UNCHANGED <<ids, dependsOn, inDegree, queue, order, layers>>

Next == Build \/ Pop \/ Sorted \/ Layer \/ Layered

Spec == Init /\ [][Next]_vars

(***************************************************************************)
(* Properties                                                              *)
(***************************************************************************)

\* topo_sort_by_depends_on accepts exactly the lists with known references and
\* without cycles, and compute_resource_layers ("Topo sort guarantees deps come
\* before") refuses none of those and computes the depth module Routing defines,
\* which the gates of module Rollout work with.
SortAndLayersAgree ==
  /\ pc \in {"layers", "done", "internal_error"} => R!Sortable(deps)
  /\ pc = "bad_request" => ~R!Sortable(deps)
  /\ pc # "internal_error"
  /\ pc = "done" =>
       \A j \in 1..Len(order) :
         layers[j] = R!compute_resource_layers(deps)[order[j]]

=============================================================================
