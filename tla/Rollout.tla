------------------------------- MODULE Rollout -------------------------------
(***************************************************************************)
(* The control plane's dispatch state machine: operations and their        *)
(* assignments (crates/iac-controlplane/src/store.rs), with the handler    *)
(* that serves an agent's poll (src/api/agents.rs).                        *)
(*                                                                         *)
(* An assignment is one (agent, layer) bucket of an operation, so a row of *)
(* the assignments table is named by <<operation, agent, layer>>. Store    *)
(* transactions are single steps here, as they are on SQLite, whose        *)
(* writers are serialised; module RolloutTx takes complete_assignment      *)
(* apart into its statements for Postgres.                                 *)
(*                                                                         *)
(* A poll is not one step: list_assignments claims rows in one             *)
(* transaction, then resolves secrets and signs, then either answers or    *)
(* gives the claims back in a second transaction. Leases run out at any    *)
(* moment in between.                                                      *)
(***************************************************************************)
EXTENDS Routing

CONSTANTS
  Op,         \* operation ids, taken in increasing order
  SshAgent,   \* the agents with kind = 'ssh'
  Manifest,   \* the manifests that may be submitted
  CanarySpec, \* the canary requests that may come with them
  Poll,       \* list_assignments handlers that may be in flight at a time
  NoManifest

ASSUME OpAssumption == Op \subseteq Nat
ASSUME SshAssumption == SshAgent \subseteq Agent
ASSUME CanaryAssumption == CanarySpec \subseteq [pct : Nat, min_count : Nat]

VARIABLES
  registered, \* ids in the agents table
  desired,    \* desired_states: the manifest of each operation
  opStatus,   \* operations.status
  asg,        \* assignments.status
  batch,      \* assignments.batch
  expired,    \* fetched rows whose fetched_at is older than the lease
  polls,      \* handlers between their claim and their answer
  shipped     \* rows an agent or an SSH worker was ever handed

vars == <<registered, desired, opStatus, asg, batch, expired, polls, shipped>>

Row == Op \X Agent \X Layer

OpOf(r) == r[1]
AgentOf(r) == r[2]
LayerOf(r) == r[3]

OpFinished == {"succeeded", "partially_applied", "failed"}
OpStatus == {"none", "pending_approval", "rejected", "pending", "running"}
              \cup OpFinished

Result  == {"succeeded", "partially_applied", "failed"}
Waiting == {"pending_layer", "pending_canary"}
Live    == {"pending", "fetched"} \cup Waiting
AsgStatus == {"absent", "cancelled"} \cup Live \cup Result

\* The rows of an operation.
RowsOf(s, o) == {r \in Row : OpOf(r) = o /\ s[r] # "absent"}

Idle == [agent |-> NoAgent, rows |-> {}]

TypeOK ==
  /\ registered \subseteq Agent
  /\ desired \in [Op -> Manifest \cup {NoManifest}]
  /\ opStatus \in [Op -> OpStatus]
  /\ asg \in [Row -> AsgStatus]
  /\ batch \in [Row -> {NoBatch, 0, 1}]
  /\ expired \subseteq Row
  /\ polls \in [Poll -> [agent : Agent \cup {NoAgent}, rows : SUBSET Row]]
  /\ shipped \subseteq Row

Init ==
  /\ registered = {}
  /\ desired = [o \in Op |-> NoManifest]
  /\ opStatus = [o \in Op |-> "none"]
  /\ asg = [r \in Row |-> "absent"]
  /\ batch = [r \in Row |-> NoBatch]
  /\ expired = {}
  /\ polls = [p \in Poll |-> Idle]
  /\ shipped = {}

(***************************************************************************)
(* The phased-apply state machine. Each operator maps the assignment       *)
(* statuses an operation had inside the transaction to the ones it leaves. *)
(***************************************************************************)

\* The canary batch of a layer.
CanaryRows(s, o, l) ==
  {r \in RowsOf(s, o) : LayerOf(r) = l /\ batch[r] = 0}

\* Layers with baseline rows that wait for their canary.
WaitingLayers(s, o) ==
  {l \in Layer : \E r \in RowsOf(s, o) :
                    LayerOf(r) = l /\ s[r] = "pending_canary"}

FailedCanaryLayers(s, o) ==
  {l \in WaitingLayers(s, o) :
     \E r \in CanaryRows(s, o, l) : s[r] \in {"failed", "partially_applied"}}

\* Mutant: one canary that is through is enough.
PassedCanaryLayers_AnyCanary(s, o) ==
  {l \in WaitingLayers(s, o) :
     \E r \in CanaryRows(s, o, l) : s[r] \notin {"pending", "fetched"}}

PassedCanaryLayers(s, o) ==
  {l \in WaitingLayers(s, o) :
     \A r \in CanaryRows(s, o, l) : s[r] \notin {"pending", "fetched"}}

\* advance_canary: a failed canary cancels every unfinished row of the
\* operation except the canary batch it belongs to (the WHERE clause is
\* three-valued: NOT (layer = l AND batch = 0) is not true of a row of layer l
\* without a batch); otherwise a canary batch that is through releases the
\* baseline of its layer.
advance_canary(s, o) ==
  IF FailedCanaryLayers(s, o) # {}
  THEN LET l == CHOOSE k \in FailedCanaryLayers(s, o) : TRUE IN
       [r \in Row |->
          IF OpOf(r) = o /\ s[r] \in Live /\ (LayerOf(r) # l \/ batch[r] = 1)
          THEN "cancelled" ELSE s[r]]
  ELSE [r \in Row |->
          IF /\ OpOf(r) = o
             /\ s[r] = "pending_canary"
             /\ LayerOf(r) \in PassedCanaryLayers(s, o)
          THEN "pending" ELSE s[r]]

\* The rows the layer gate holds back, and their lowest layer.
HeldRows(s, o) == {r \in RowsOf(s, o) : s[r] = "pending_layer"}
NextLayer(s, o) ==
  CHOOSE l \in Layer :
    /\ \E r \in HeldRows(s, o) : LayerOf(r) = l
    /\ \A r \in HeldRows(s, o) : l <= LayerOf(r)

\* The rows of the layer just below the one that is held back. This is the
\* whole gate: no earlier layer is looked at.
GateRows(s, o) == {r \in RowsOf(s, o) : LayerOf(r) = NextLayer(s, o) - 1}

\* Mutant: the gate forgets rows that an agent has fetched.
AdvanceLayers_FetchedIsDone(s, o) ==
  IF HeldRows(s, o) = {} \/ \E r \in GateRows(s, o) : s[r] \in Live \ {"fetched"}
  THEN s
  ELSE IF \E r \in GateRows(s, o) : s[r] \in {"failed", "partially_applied"}
  THEN [r \in Row |-> IF r \in HeldRows(s, o) THEN "cancelled" ELSE s[r]]
  ELSE [r \in Row |-> IF r \in HeldRows(s, o) /\ LayerOf(r) = NextLayer(s, o)
                      THEN "pending" ELSE s[r]]

\* The layer gate of advance_phased_apply, after its call of advance_canary.
AdvanceLayers(s, o) ==
  IF HeldRows(s, o) = {} \/ \E r \in GateRows(s, o) : s[r] \in Live
  THEN s
  ELSE IF \E r \in GateRows(s, o) : s[r] \in {"failed", "partially_applied"}
  THEN [r \in Row |-> IF r \in HeldRows(s, o) THEN "cancelled" ELSE s[r]]
  ELSE [r \in Row |-> IF r \in HeldRows(s, o) /\ LayerOf(r) = NextLayer(s, o)
                      THEN "pending" ELSE s[r]]

\* Mutant: only the canary gate is advanced.
advance_phased_apply_CanaryOnly(s, o) == advance_canary(s, o)

advance_phased_apply(s, o) == AdvanceLayers(advance_canary(s, o), o)

\* Mutant: fetched rows are not counted.
roll_up_operation_SkipsFetched(s, o) ==
  LET seen == {s[r] : r \in RowsOf(s, o)} IN
  IF seen \cap (Live \ {"fetched"}) # {} THEN opStatus[o]
  ELSE IF seen \cap {"failed", "partially_applied", "cancelled"} = {}
       THEN "succeeded"
  ELSE IF seen \cap {"succeeded", "partially_applied"} # {}
       THEN "partially_applied"
  ELSE "failed"

\* roll_up_operation: the operation's status, given its assignments'.
roll_up_operation(s, o) ==
  LET seen == {s[r] : r \in RowsOf(s, o)} IN
  IF seen \cap Live # {} THEN opStatus[o]
  ELSE IF seen \cap {"failed", "partially_applied", "cancelled"} = {}
       THEN "succeeded"
  ELSE IF seen \cap {"succeeded", "partially_applied"} # {}
       THEN "partially_applied"
  ELSE "failed"

(***************************************************************************)
(* Operations                                                              *)
(***************************************************************************)

register_agent(a) ==
  /\ a \notin registered
  /\ registered' = registered \cup {a}
  /\ UNCHANGED <<desired, opStatus, asg, batch, expired, polls, shipped>>

\* The status a new assignment starts in.
InitialStatus(l, b) ==
  IF l > 0 THEN "pending_layer"
  ELSE IF b = 1 THEN "pending_canary" ELSE "pending"

\* INSERT INTO assignments, for the buckets of an operation and their batches.
InsertAssignments(o, buckets, split) ==
  LET new(r) == OpOf(r) = o /\ <<AgentOf(r), LayerOf(r)>> \in buckets
      b(r)   == split[<<AgentOf(r), LayerOf(r)>>]
  IN /\ asg' = [r \in Row |-> IF new(r) THEN InitialStatus(LayerOf(r), b(r))
                              ELSE asg[r]]
     /\ batch' = [r \in Row |-> IF new(r) THEN b(r) ELSE batch[r]]

\* create_operation behind POST /v1/operations: what a policy matched decides
\* whether the operation waits for approval. An operation of which nothing can
\* be routed is done at once.
create_operation(o, m, requires_approval, spec) ==
  LET buckets == Buckets(m, registered) IN
  /\ opStatus[o] = "none"
  /\ \A p \in Op : p < o => opStatus[p] # "none"
  /\ Sortable(m.deps)
  /\ desired' = [desired EXCEPT ![o] = m]
  /\ IF requires_approval
     THEN /\ opStatus' = [opStatus EXCEPT ![o] = "pending_approval"]
          /\ UNCHANGED <<asg, batch>>
     ELSE /\ opStatus' = [opStatus EXCEPT ![o] =
                            IF buckets = {} THEN "succeeded" ELSE "pending"]
          /\ InsertAssignments(o, buckets, compute_canary_split(buckets, spec))
  /\ UNCHANGED <<registered, expired, polls, shipped>>

\* approve_operation routes the stored manifest again, over the agents that
\* are registered by now, and inserts its assignments without a batch.
approve_operation(o) ==
  LET buckets == Buckets(desired[o], registered) IN
  /\ opStatus[o] = "pending_approval"
  /\ opStatus' = [opStatus EXCEPT ![o] =
                    IF buckets = {} THEN "succeeded" ELSE "pending"]
  /\ InsertAssignments(o, buckets, [b \in buckets |-> NoBatch])
  /\ UNCHANGED <<registered, desired, expired, polls, shipped>>

reject_operation(o) ==
  /\ opStatus[o] = "pending_approval"
  /\ opStatus' = [opStatus EXCEPT ![o] = "rejected"]
  /\ UNCHANGED <<registered, desired, asg, batch, expired, polls,
                 shipped>>

(***************************************************************************)
(* Claims                                                                  *)
(***************************************************************************)

\* The rows a claim may take: pending ones, and fetched ones whose lease ran
\* out.
Claimable(a) ==
  {r \in Row : /\ AgentOf(r) = a
               /\ asg[r] = "pending" \/ (asg[r] = "fetched" /\ r \in expired)}

\* UPDATE assignments SET status = 'fetched' ... and the first fetch of an
\* operation makes it running.
Claim(rows) ==
  /\ asg' = [r \in Row |-> IF r \in rows THEN "fetched" ELSE asg[r]]
  /\ expired' = expired \ rows
  /\ opStatus' = [o \in Op |->
                    IF opStatus[o] = "pending" /\ \E r \in rows : OpOf(r) = o
                    THEN "running" ELSE opStatus[o]]

\* list_assignments, first transaction.
fetch_pending_assignments(p, a) ==
  /\ polls[p] = Idle
  /\ a \in registered \ SshAgent
  /\ Claimable(a) # {}
  /\ Claim(Claimable(a))
  /\ polls' = [polls EXCEPT ![p] = [agent |-> a, rows |-> Claimable(a)]]
  /\ UNCHANGED <<registered, desired, batch, shipped>>

\* Secrets resolved, envelopes signed: the answer reaches the agent.
ShipAssignments(p) ==
  /\ polls[p] # Idle
  /\ shipped' = shipped \cup polls[p].rows
  /\ polls' = [polls EXCEPT ![p] = Idle]
  /\ UNCHANGED <<registered, desired, opStatus, asg, batch, expired>>

\* A resolver or the signer failed: the rows that are still fetched become
\* pending again, whoever fetched them last.
revert_assignment_claims(p) ==
  /\ polls[p] # Idle
  /\ asg' = [r \in Row |-> IF r \in polls[p].rows /\ asg[r] = "fetched"
                           THEN "pending" ELSE asg[r]]
  /\ expired' = expired \ polls[p].rows
  /\ polls' = [polls EXCEPT ![p] = Idle]
  /\ UNCHANGED <<registered, desired, opStatus, batch, shipped>>

\* The server stops, the revert itself fails, or the answer is lost on the
\* wire: the rows stay fetched until their lease runs out.
LoseAnswer(p) ==
  /\ polls[p] # Idle
  /\ polls' = [polls EXCEPT ![p] = Idle]
  /\ UNCHANGED <<registered, desired, opStatus, asg, batch, expired,
                 shipped>>

\* claim_ssh_pending: a push worker takes one row of its target. The query
\* orders candidates by created_at, which is a wall-clock string that rows of
\* one operation share: any claimable row may come first.
claim_ssh_pending(a, r) ==
  /\ a \in registered \cap SshAgent
  /\ r \in Claimable(a)
  /\ Claim({r})
  /\ shipped' = shipped \cup {r}
  /\ UNCHANGED <<registered, desired, batch, polls>>

\* assignment_lease_secs pass without a result.
LeaseExpires(r) ==
  /\ asg[r] = "fetched"
  /\ r \notin expired
  /\ expired' = expired \cup {r}
  /\ UNCHANGED <<registered, desired, opStatus, asg, batch, polls,
                 shipped>>

(***************************************************************************)
(* Results                                                                 *)
(***************************************************************************)

\* complete_assignment(_with_extra_audit): accepted for a row that is pending
\* or fetched, answered 404 otherwise; the row's result, the phased-apply
\* state machine and the roll-up commit together.
RecordResult(r, result) ==
  LET o  == OpOf(r)
      s1 == [asg EXCEPT ![r] = result]
      s2 == advance_phased_apply(s1, o)
  IN /\ asg[r] \in {"pending", "fetched"}
     /\ asg' = s2
     /\ opStatus' = [opStatus EXCEPT ![o] = roll_up_operation(s2, o)]
     /\ expired' = {x \in expired : s2[x] = "fetched"}
     /\ UNCHANGED <<registered, desired, batch, polls, shipped>>

\* Agents and SSH workers report only rows they were handed; the server does
\* not look. Module Fleet shows it of the agent.
complete_assignment(r, result) == r \in shipped /\ RecordResult(r, result)

(***************************************************************************)
(* Specification                                                           *)
(***************************************************************************)

Next ==
  \/ \E a \in Agent : register_agent(a)
  \/ \E o \in Op, m \in Manifest, ra \in BOOLEAN,
        spec \in CanarySpec \cup {NoCanary} : create_operation(o, m, ra, spec)
  \/ \E o \in Op : approve_operation(o) \/ reject_operation(o)
  \/ \E p \in Poll, a \in Agent : fetch_pending_assignments(p, a)
  \/ \E p \in Poll : \/ ShipAssignments(p)
                     \/ revert_assignment_claims(p)
                     \/ LoseAnswer(p)
  \/ \E a \in Agent, r \in Row : claim_ssh_pending(a, r)
  \/ \E r \in Row : LeaseExpires(r)
  \/ \E r \in Row, result \in Result : complete_assignment(r, result)

Spec == Init /\ [][Next]_vars

(***************************************************************************)
(* Properties                                                              *)
(***************************************************************************)

Rows(o) == RowsOf(asg, o)

\* An agent may already have touched its host for this row.
Dispatched(r) == asg[r] \in {"pending", "fetched"} \cup Result

Failure == {"failed", "partially_applied"}

\* No hole in the layers of the operation: every layer above 0 that has a row
\* stands on a layer that has one. Resources that could not be routed make
\* holes; the README says what the gate does about them (differences).
Contiguous(o) ==
  \A r \in Rows(o) :
    LayerOf(r) > 0 => \E q \in Rows(o) : LayerOf(q) = LayerOf(r) - 1

\* advance_phased_apply: an agent is handed a row of some layer only when every
\* row of every lower layer has succeeded, whatever agents report, in whatever
\* order, however often rows are claimed again (for operations without holes).
LayerGate ==
  \A o \in Op : Contiguous(o) =>
    \A q, r \in Rows(o) :
      LayerOf(q) < LayerOf(r) /\ Dispatched(r) => asg[q] = "succeeded"

\* advance_canary: the baseline of layer 0 is released only when every canary
\* of layer 0 has succeeded.
CanaryGateLayerZero ==
  \A q, r \in Row :
    /\ OpOf(q) = OpOf(r) /\ LayerOf(q) = 0 /\ LayerOf(r) = 0
    /\ batch[q] = 0 /\ batch[r] = 1 /\ Dispatched(r)
    => asg[q] = "succeeded"

\* advance_phased_apply and advance_canary: a row is cancelled only in an
\* operation of which a row has failed or was applied in part.
CancelledForCause ==
  \A r \in Row : asg[r] = "cancelled" =>
    \E q \in Rows(OpOf(r)) : asg[q] \in Failure

\* roll_up_operation: "cancelled means 'earlier layer failed, this layer never
\* ran'". No agent was ever handed a row that is cancelled (for operations
\* without holes), although advance_canary also cancels pending and fetched
\* rows.
CancelledNeverRan ==
  \A r \in Row :
    asg[r] = "cancelled" /\ Contiguous(OpOf(r)) => r \notin shipped

\* The status of an operation whose rows are all settled.
SettledStatus(o) ==
  IF \A r \in Rows(o) : asg[r] = "succeeded" THEN "succeeded"
  ELSE IF \E r \in Rows(o) : asg[r] \in {"succeeded", "partially_applied"}
       THEN "partially_applied" ELSE "failed"

\* roll_up_operation: an operation is finished exactly when it was dispatched
\* and none of its rows can change any more, and its status then sums up its
\* rows; an operation that waits for approval or was rejected has no rows.
FinishedIffSettled ==
  \A o \in Op :
    LET live == \E r \in Rows(o) : asg[r] \in Live IN
    /\ opStatus[o] \in {"none", "pending_approval", "rejected"} => Rows(o) = {}
    /\ opStatus[o] \in {"pending", "running"} => live
    /\ opStatus[o] \in OpFinished => ~live /\ opStatus[o] = SettledStatus(o)

\* advance_phased_apply: a dispatched operation that is not finished always has
\* a row that an agent can fetch or report; rows held back by a gate are never
\* the only ones left (for operations without holes). advance_phased_apply only
\* runs when a row completes, so a violation is an operation stuck for ever.
NoStrandedRows ==
  \A o \in Op :
    opStatus[o] \in {"pending", "running"} /\ Contiguous(o) =>
      \E r \in Rows(o) : asg[r] \in {"pending", "fetched"}

\* complete_assignment, revert_assignment_claims and approve_operation: late
\* results, late reverts and late approvals never change a finished or
\* rejected operation, nor a row of it.
FinishedForever ==
  [][\A o \in Op : opStatus[o] \in OpFinished \cup {"rejected"} =>
       /\ opStatus'[o] = opStatus[o]
       /\ \A r \in Row : OpOf(r) = o => asg'[r] = asg[r]]_vars

=============================================================================
