------------------------------ MODULE Desired ------------------------------
(***************************************************************************)
(* What the server holds to be the desired state of a resource: the        *)
(* desired_states rows every operation leaves behind, what an agent is     *)
(* told to watch, what a revert and a rollback send out again, and what    *)
(* retention takes away.  Dispatch itself (layers, canaries, claims) is    *)
(* Rollout's; here an agent has one assignment of an operation.            *)
(*                                                                         *)
(* Operations are numbered in the order of created_at; a spec is known by  *)
(* the number of the operation it was first submitted with.                *)
(***************************************************************************)
EXTENDS Naturals, FiniteSets, Sequences, FiniteSetsExt, Functions

CONSTANTS
  Resource,
  Agent,
  Home,     \* [Resource -> Agent]: route_resource
  Bundles,  \* the sets of resources that are submitted together
  Cap,      \* desired_state_max_per_resource
  MaxOps,   \* bound: operations ever created
  MaxUpset  \* bound: assignments that fail and resources out of order, together

ASSUME DesiredAssumption ==
  /\ Home \in [Resource -> Agent]
  /\ Bundles \subseteq (SUBSET Resource) \ {{}}
  /\ Cap \in Nat \ {0} /\ MaxOps \in Nat /\ MaxUpset \in Nat

VARIABLES
  ops,     \* operations: status, resources, specs, and what their assignments carry
  stored,  \* desired_states: <<operation, resource>>
  task,    \* assignments: [operation -> [agent -> status]]
  done,    \* the assignments with a result that are still stored, by completed_at
  onHost,  \* the spec each resource of its host was last brought to, 0 for none
  \* History of the run:
  before,  \* [operation -> [resource -> spec on the host before it was applied]]
  mixed    \* resources whose history on the host is not that of created_at

desiredVars == <<ops, stored, task, done, onHost, before, mixed>>

Finished == {"succeeded", "partially_applied", "failed"}
Touched(o) == ops[o].res
OpsOf(r) == {o \in DOMAIN ops : r \in Touched(o)}
HomesOf(rs) == {Home[r] : r \in rs}

\* Nothing more may go wrong.
Upset == Cardinality(mixed)
         + Cardinality({p \in (DOMAIN ops) \X Agent : task[p[1]][p[2]] = "failed"}) >= MaxUpset

DesiredInit ==
  /\ ops = <<>> /\ stored = {} /\ task = <<>> /\ done = <<>> /\ before = <<>>
  /\ onHost = [r \in Resource |-> 0]
  /\ mixed = {}

-----------------------------------------------------------------------------
(* Creating, approving and finishing operations                            *)

NoTask == [a \in Agent |-> "absent"]
Dispatched(rs) == [a \in Agent |-> IF a \in HomesOf(rs) THEN "pending" ELSE "absent"]

\* create_operation: a desired_states row for every resource, held or not;
\* assignments only when no approval is awaited.
create_operation(spec, requires_approval) ==
  LET o == Len(ops) + 1
      rs == DOMAIN spec IN
  /\ o <= MaxOps
  /\ ops' = Append(ops, [status |-> IF requires_approval THEN "pending_approval" ELSE "running",
                         res |-> rs, spec |-> spec,
                         payload |-> IF requires_approval THEN {} ELSE rs])
  /\ stored' = stored \cup {<<o, r>> : r \in rs}
  /\ task' = Append(task, IF requires_approval THEN NoTask ELSE Dispatched(rs))
  /\ before' = Append(before, [r \in rs |-> 0])
  /\ UNCHANGED <<done, onHost, mixed>>

\* POST /v1/operations; whether a policy asks for approval is the environment's.
submit(rs, held) == create_operation([r \in rs |-> Len(ops) + 1], held)

\* approve_operation dispatches the rows that are still stored.
approve_operation(o) ==
  LET left == {r \in Touched(o) : <<o, r>> \in stored} IN
  /\ ops[o].status = "pending_approval"
  /\ ops' = [ops EXCEPT ![o].status = IF left = {} THEN "succeeded" ELSE "running",
                        ![o].payload = left]
  /\ task' = [task EXCEPT ![o] = Dispatched(left)]
  /\ UNCHANGED <<stored, done, onHost, before, mixed>>

reject_operation(o) ==
  /\ ops[o].status = "pending_approval"
  /\ ops' = [ops EXCEPT ![o].status = "rejected"]
  /\ UNCHANGED <<stored, task, done, onHost, before, mixed>>

\* The assignment is there: with a result, only until retention takes it.
Kept(o, a) ==
  task[o][a] \in {"pending", "cancelled"} \/ <<o, a>> \in Range(done)

\* What the assignments of the operation that are still there add up to, once
\* those in t have changed.
RolledUp(o, t) ==
  LET seen == {t[a] : a \in {b \in Agent : Kept(o, b)}} IN
  IF "pending" \in seen THEN ops[o].status
  ELSE IF seen \cap {"failed", "cancelled"} = {} THEN "succeeded"
  ELSE IF "succeeded" \in seen THEN "partially_applied" ELSE "failed"

\* An agent reports that it applied its resources of o.
Applied(o, a) ==
  LET mine == {r \in ops[o].payload : Home[r] = a}
      t == [task[o] EXCEPT ![a] = "succeeded"] IN
  /\ task[o][a] = "pending"
  /\ task' = [task EXCEPT ![o] = t]
  /\ ops' = [ops EXCEPT ![o].status = RolledUp(o, t)]
  /\ onHost' = [r \in Resource |-> IF r \in mine THEN ops[o].spec[r] ELSE onHost[r]]
  /\ before' = [before EXCEPT ![o] = [r \in Touched(o) |-> IF r \in mine THEN onHost[r] ELSE @[r]]]
  /\ mixed' = mixed \cup {r \in mine : \E p \in OpsOf(r) : p > o /\ task[p][a] = "succeeded"}
  /\ done' = Append(done, <<o, a>>)
  /\ UNCHANGED stored

\* An agent reports a failure (its executor put the host back); the agents
\* in later layers or outside the canary are cancelled.
Failed(o, a) ==
  \E later \in SUBSET {b \in Agent \ {a} : task[o][b] = "pending"} :
    LET t == [b \in Agent |-> IF b = a THEN "failed"
                              ELSE IF b \in later THEN "cancelled" ELSE task[o][b]] IN
    /\ task[o][a] = "pending"
    /\ ~Upset
    /\ task' = [task EXCEPT ![o] = t]
    /\ ops' = [ops EXCEPT ![o].status = RolledUp(o, t)]
    /\ done' = Append(done, <<o, a>>)
    /\ UNCHANGED <<stored, onHost, before, mixed>>

\* Somebody changes a resource on its host.
Tampered(r) ==
  /\ onHost[r] # 0 /\ ~Upset
  /\ onHost' = [onHost EXCEPT ![r] = 0]
  /\ mixed' = mixed \cup {r}
  /\ UNCHANGED <<ops, stored, task, done, before>>

-----------------------------------------------------------------------------
(* What an agent watches                                                   *)

\* Mutant: desired_states joined with assignments by the operation only.
owned_pairs_ByOperation(a) ==
  {p \in stored : Kept(p[1], a) /\ task[p[1]][a] # "failed"}

\* The rows of the operations this agent has an assignment of, failed ones
\* aside, for the resources in that assignment's payload.
owned_pairs(a) ==
  {p \in stored : Kept(p[1], a) /\ task[p[1]][a] # "failed" /\ Home[p[2]] = a}

\* list_desired_state_for_agent: of each resource, the newest operation's row.
list_desired_state_for_agent(a) ==
  {p \in owned_pairs(a) : \A q \in owned_pairs(a) : q[2] = p[2] => q[1] <= p[1]}

\* The host is not at the spec its agent watches: the agent reports drift.
Drifted(r) ==
  \E p \in list_desired_state_for_agent(Home[r]) :
    p[2] = r /\ onHost[r] # ops[p[1]].spec[r]

-----------------------------------------------------------------------------
(* Revert, rollback, retention                                             *)

\* revert_drift: the resource's newest row goes out again, without policies,
\* approval or canary.
revert_drift(r) ==
  LET rows == {o \in OpsOf(r) : <<o, r>> \in stored} IN
  /\ Drifted(r)
  /\ rows # {}
  /\ create_operation([x \in {r} |-> ops[Max(rows)].spec[r]], FALSE)

\* Mutant: without AND o.created_at < the target's.
Priors_AnyTime(o, r) ==
  {p \in OpsOf(r) \ {o} : <<p, r>> \in stored /\ ops[p].status \in {"succeeded", "partially_applied"}}

\* The operations a rollback of o may take r's spec from.
Priors(o, r) ==
  {p \in OpsOf(r) : p < o /\ <<p, r>> \in stored
                    /\ ops[p].status \in {"succeeded", "partially_applied"}}

PriorSpec(o, r) == ops[Max(Priors(o, r))].spec[r]

\* prepare_rollback: resources nothing is known of from before are only reported.
RolledBack(o) == {r \in Touched(o) : <<o, r>> \in stored /\ Priors(o, r) # {}}

\* rollback_op; policies decide again.
rollback_op(o, held) ==
  LET rs == RolledBack(o) IN
  /\ ops[o].status \in Finished
  /\ rs # {}
  /\ create_operation([r \in rs |-> PriorSpec(o, r)], held)

\* Mutant: ORDER BY id without DESC.
PastCap_Oldest ==
  {p \in stored : Cardinality({q \in stored : q[2] = p[2] /\ q[1] < p[1]}) >= Cap}

\* The rows beyond the newest Cap of their resource, whatever became of them.
PastCap ==
  {p \in stored : Cardinality({q \in stored : q[2] = p[2] /\ q[1] > p[1]}) >= Cap}

prune_desired_states_per_resource ==
  /\ PastCap # {}
  /\ stored' = stored \ PastCap
  /\ UNCHANGED <<ops, task, done, onHost, before, mixed>>

\* delete_older_than_with_filter on assignments: the one that has had its
\* result longest.
PruneAssignment ==
  /\ done # <<>>
  /\ done' = Tail(done)
  /\ UNCHANGED <<ops, stored, task, onHost, before, mixed>>

DesiredNext ==
  \/ \E rs \in Bundles, held \in BOOLEAN : submit(rs, held)
  \/ \E o \in DOMAIN ops : \/ approve_operation(o) \/ reject_operation(o)
                           \/ \E held \in BOOLEAN : rollback_op(o, held)
                           \/ \E a \in Agent : Applied(o, a) \/ Failed(o, a)
  \/ \E r \in Resource : Tampered(r) \/ revert_drift(r)
  \/ prune_desired_states_per_resource \/ PruneAssignment

DesiredSpec == DesiredInit /\ [][DesiredNext]_desiredVars

-----------------------------------------------------------------------------

\* An agent is told to watch only resources that were routed to it, and, as
\* long as it applies operations in the order they were made, retention never
\* brings back an older spec it had applied: what is older than the spec on the
\* host is an operation that it has not got to or that was cancelled
\* (list_desired_state_for_agent, prune_once).
WatchesItsOwn ==
  \A a \in Agent : \A p \in list_desired_state_for_agent(a) :
    /\ Home[p[2]] = a
    /\ \/ p[2] \in mixed
       \/ task[p[1]][a] \in {"pending", "cancelled"}
       \/ \A o \in OpsOf(p[2]) : task[o][a] = "succeeded" => o <= p[1]

\* A rollback sends out what was on the host before the operation it undoes,
\* when the resource's operations were applied in the order they were made,
\* nobody changed the resource, and every earlier operation that went to its
\* host was applied there and counts as applied: not one that still runs
\* elsewhere, nor one whose result on this host was deleted before it failed
\* on another (prepare_rollback, rollback_op).
RollbackGoesBack ==
  \A o \in DOMAIN ops : ops[o].status \in Finished =>
    \A r \in RolledBack(o) \ mixed :
      LET a == Home[r] IN
      task[o][a] = "succeeded"
      /\ (\A p \in OpsOf(r) : p < o => \/ task[p][a] = "absent"
                                       \/ /\ task[p][a] = "succeeded"
                                          /\ ops[p].status \in {"succeeded", "partially_applied"})
      => PriorSpec(o, r) = before[o][r]

\* An approval dispatches all that was submitted, unless Cap newer operations
\* carried the resource before it: retention counts rows of operations that
\* nobody approved yet (approve_operation, prune_desired_states_per_resource).
ApprovedInFull ==
  \A o \in DOMAIN ops : ops[o].status \in {"running"} \cup Finished =>
    \A r \in Touched(o) :
      \/ r \in ops[o].payload
      \/ Cardinality({p \in OpsOf(r) : p > o}) >= Cap

\* No host is sent a spec that waits for approval or was rejected: "a revert
\* that would cross a requires_approval rule still has to be approved"
\* (revert_drift).
NothingUnapproved ==
  \A o \in DOMAIN ops : ops[o].status \in {"running"} \cup Finished =>
    \A r \in Touched(o) :
      ops[ops[o].spec[r]].status \notin {"pending_approval", "rejected"}

=============================================================================
