------------------------------- MODULE Routing -------------------------------
(***************************************************************************)
(* The pure functions of the submit path: which resources depend on which  *)
(* (depsort.rs), which agent a resource is routed to, which (agent, layer) *)
(* buckets an operation is cut into, and which bucket goes into which      *)
(* canary batch (store.rs).                                                *)
(*                                                                         *)
(* A manifest is what reaches create_operation: the operation's            *)
(* environment, and for every resource the resources its                   *)
(* metadata.dependsOn names and the agent its spec.hostSelector names.     *)
(* Agent names are unique in the agents table, so a name stands for its    *)
(* agent; agents are numbers, because the canary split sorts their ids.    *)
(***************************************************************************)
EXTENDS Integers, FiniteSets, FiniteSetsExt

CONSTANTS
  Agent,      \* agent ids (numbers: ids are sorted by the canary split)
  AgentEnv,   \* the environment each agent registers for
  MaxLayer,   \* bound: the deepest dependency layer
  NoHost,     \* a resource without spec.hostSelector
  NoAgent,    \* "unrouted"
  NoCanary    \* an operation submitted without a canary

ASSUME AgentAssumption ==
  /\ Agent \subseteq Nat /\ IsFiniteSet(Agent)
  /\ NoAgent \notin Agent
  /\ NoHost \notin Agent

ASSUME LayerAssumption == MaxLayer \in Nat

Layer == 0..MaxLayer

\* SQL NULL in the assignments.batch column.
NoBatch == -1

(***************************************************************************)
(* depsort.rs: the dependency graph                                        *)
(***************************************************************************)

\* Every reference names a resource of the same operation.
KnownReferences(deps) == \A r \in DOMAIN deps : deps[r] \subseteq DOMAIN deps

\* No set of resources in which everyone waits for a member: neither a
\* self-dependency nor a longer cycle.
Acyclic(deps) ==
  \A S \in SUBSET DOMAIN deps :
    S # {} => \E r \in S : deps[r] \cap S = {}

\* topo_sort_by_depends_on returns Ok; DepSort shows that Kahn's algorithm
\* decides exactly this.
Sortable(deps) == KnownReferences(deps) /\ Acyclic(deps)

\* compute_resource_layers: one more than the deepest dependency.
compute_resource_layers(deps) ==
  LET layers[r \in DOMAIN deps] ==
        Max({-1} \cup {layers[d] : d \in deps[r]}) + 1
  IN layers

(***************************************************************************)
(* store.rs: routing                                                       *)
(***************************************************************************)

\* route_resource: the named host if it is registered in the operation's
\* environment, else the only agent of that environment, else nobody.
route_resource(host, env, registered) ==
  LET envAgents == {a \in registered : AgentEnv[a] = env} IN
  IF host # NoHost
  THEN IF host \in envAgents THEN host ELSE NoAgent
  ELSE IF Cardinality(envAgents) = 1
       THEN CHOOSE a \in envAgents : TRUE
       ELSE NoAgent

\* The buckets of create_operation and approve_operation: one assignment per
\* agent and layer that some routed resource falls into. Unrouted resources
\* are reported (submit) or skipped (approve); they leave no bucket.
Buckets(m, registered) ==
  LET layers == compute_resource_layers(m.deps) IN
  {b \in Agent \X Layer :
     \E r \in DOMAIN m.deps :
       /\ route_resource(m.host[r], m.env, registered) = b[1]
       /\ layers[r] = b[2]}

(***************************************************************************)
(* store.rs: the canary split                                              *)
(***************************************************************************)

\* bucket_agents_per_layer
AgentsAt(buckets, l) == {b[1] : b \in {c \in buckets : c[2] = l}}

\* The number of canaries among n >= 2 agents: pct clamped to 1..99, rounded
\* up, at least min_count, and always leaving one agent in the baseline.
CanaryCount(n, spec) ==
  LET pct  == Max({1, Min({99, spec.pct})})
      want == Max({(n * pct + 99) \div 100, spec.min_count, 1})
  IN Min({want, n - 1})

\* compute_canary_split: batch 0 for the agents with the smallest ids, batch 1
\* for the rest; no batch without a canary, or in a layer with one agent.
compute_canary_split(buckets, canary) ==
  [b \in buckets |->
     LET agents == AgentsAt(buckets, b[2])
         rank   == Cardinality({a \in agents : a < b[1]})
     IN IF canary = NoCanary \/ Cardinality(agents) <= 1 THEN NoBatch
        ELSE IF rank < CanaryCount(Cardinality(agents), canary) THEN 0 ELSE 1]

=============================================================================
