# iac: a verification project

`iac` manages hosts from a central server. An operator submits a manifest; the
control plane (`crates/iac-controlplane`) expands its modules, sorts the
resources by dependency, splits them into layers and per-host assignments and
stores them in SQLite or Postgres; agents on the hosts (`crates/iac-agent`) poll
for their assignments, verify the signed envelopes, execute them through
`crates/iac-core` and `crates/iac-providers`, and report back. The server
releases the next batch or layer when the results allow it, and every change of
state leaves a row in a hash-chained audit log. Hosts without an agent are
reached over SSH, by the server or by the command line (`crates/iac-cli`) alone.

This directory holds TLA+ models of the parts where order, failure and
concurrency decide about correctness, the TLC configurations that check them,
and proofs for TLAPS. `PROJECT.json` lists every run, every definition with the
lines it models, the hazards and the theorems.

## 1. Inventory

| Part | State | Operations | Talks to | What is hard | What makes it correct |
|---|---|---|---|---|---|
| Dispatch (`store.rs`, `api/operations.rs`, `api/agents.rs`) | `operations`, `assignments` (status, layer, batch, `fetched_at`), `desired_states` | submit, approve, reject, claim with a lease, revert a claim, complete, advance canary and layers, roll up | agents and push workers (poll, report); audit log in the same transaction | two polls, leases that run out during execution, late and repeated results, completions that overlap on Postgres, layers without rows | no row before its lower layers and canaries; a finished operation stays finished; every operation finishes |
| Agent (`agent.rs`, `remote.rs`, `store.rs`) | the drain in progress; `processed_assignments` on disk | poll, verify the batch, look up, execute, record, report | server over HTTP with a timeout of 15 s; host executor | crash between execute and record, lost reports, stale envelopes, a table that cannot be read | a row is executed once unless something failed; the server keeps only real outcomes |
| Submission (`api/operations.rs`, `rate_limit.rs`, `maintenance.rs`, `policy.rs`, `expansion.rs`, `secrets.rs`, `depsort.rs`) | buckets of times, the configuration, the resolvers | limit, look for a window, check secrets, expand, sort, match policies, create or hold | dispatch, approvers, SIGHUP | a reload between two steps, several policies of which one refuses, modules that use each other, cycles of dependencies | one submission sees one configuration; budgets hold; composites become what their templates render; layers are depths |
| Desired state (`store.rs`, `api/operations.rs`, `api/drift.rs`, `retention.rs`) | `desired_states`, `assignments` | what an agent watches, rollback, revert, approval, deletion by age and by number | dispatch, drift | rows of rejected and waiting operations, rows that were deleted, operations out of order | a rollback goes back to what was on the host; an approval dispatches everything; nothing unapproved goes out |
| Audit log (`store.rs`, `retention.rs`, `api/audit.rs`) | `audit_events`, `audit_chain_tip` | record inside somebody's transaction, verify by chunks, prune | all writers | two writers on one tip, ids lost by rollbacks, verification while rows come and go | verification finds changed rows and nothing else; readers by id see rows in order |
| Webhooks (`webhook.rs`) | a cursor and a deadline per receiver, in memory and in two tables; the batch in flight | start, tick, fire, back off, move the cursor | reads the audit log by id; outside receivers | a stop between delivery and cursor, statements that fail, 429 answers in parallel | no cursor passes a row that was not fired; every row is fired |
| Drift (`agent.rs`, `remote.rs`, `api/agents.rs`, `api/drift.rs`) | observations and open drifts, at the agent and at the server | observe, push in chunks, push drift, record, close, accept, ignore | desired state | one push is two transactions, pushes overlap, requests that are too large | one open row per resource; the server's view catches up |
| Users (`identity.rs`, `api/users.rs`, `api/auth.rs`) | `users`, `user_tokens` | log in and out, refresh, create, delete, disable, change role and password | every handler | two administrators act on each other, a refresh races a lock-out | an active admin remains; tokens follow logins |
| Trust (`signing.rs`, `remote.rs`) | key files and active pointer, the agent's row, its identity file with pinned keys | register, authenticate, rotate the token, rotate and retire keys, refresh | server and agent | lost answers, stops between two files, files that cannot be written, a key retired too early | the agent is locked out only by a new token that did not reach its file; it has a key in common unless one was retired too early |
| SSH push (`ssh_push.rs`) | one worker per target and process | claim, check capabilities, push, wait, report | dispatch, the host | no replay table, lease shorter than the push, broken connections | a job starts again only for a loss; every job gets a result |
| Process loops (`main.rs`, `agent.rs`, `capabilities.rs`) | loops and their tickers, rules in force | tick, stop, reload the rules | all loops | a signal that nobody waits for, a file that changes during start | shutdown ends; what the rules forbid is not applied |
| Executor (`executor.rs`) | operation directories, checkpoints, applied state | plan, apply, verify, roll back, delete old directories | providers | a stop in the middle of a step, calls that fail, a rollback that fails half way and is tried again | what an operation did can be undone at every moment; what is recorded is true |
| Providers (`iac-providers`) | the host | observe, diff, plan, pre_apply, apply, rollback | operating system, docker, plugins | steps of several calls that fail half way, errors that are ignored, late answers of a plugin | success means conformance; a rollback restores; a retry succeeds |
| Command line (`iac-cli`) | the git cache, `credentials.json`, the history, binaries on hosts | plan, apply, run, login, logout | git, ssh, the server | a fan-out with an abort flag, invocations that share files, connections that break | exit code, history and saved token tell the truth |
| Wiring (HTTP, TLS, configuration, metrics, trial host) | none that another part reads | parsing, printing, I/O | all | - | - |

## 2. Modules

```
Routing <- Rollout <- Fleet, RolloutTx <- RolloutProofs
   ^--- DepSort (INSTANCE)                  Expansion <- Admission, Desired, DepSort <- SubmitProofs
AuditLog <- Webhook <- WebhookProofs        AuditChain <- AuditProofs
   ^--- implemented by AuditChain (INSTANCE)
Providers <- Executor <- ExecutorProofs     Drift, SshPush, Daemon <- RunningProofs
Containers <- NetDrivers <- HostDrivers <- Drivers <- DriverProofs
CommandLine <- ServerClient <- ClientProofs     Accounts, Trust <- ClientProofs
Plugin <- ExecutorProofs
```

| Module | Models | State and actions |
|---|---|---|
| `Routing` | `compute_resource_layers`, the split of a manifest into (agent, layer) buckets and the canary split | operators only |
| `Rollout` | `create_operation`, `approve_operation`, `reject_operation`, `fetch_pending_assignments`, `revert_assignment_claims`, `claim_ssh_pending`, `complete_assignment` with `advance_canary`, `advance_phased_apply` and `roll_up_operation` | a row of `assignments` is named `<<operation, agent, layer>>`; one action per store transaction, and the poll handler in three steps (claim; answer, lose the answer or revert) |
| `RolloutTx` | `complete_assignment` statement by statement | transactions with their own view; Postgres at READ COMMITTED with row locks, SQLite with one writer and snapshot promotion |
| `Fleet` | `drain_assignments`, `processed_assignments`, `verify_envelope`, `report_assignment` | composes `Rollout` with agents and a network that loses and delays |
| `Expansion` | `expand_resources`, modules and built-in composites | operators; the reference is a forest unfolded by depth |
| `DepSort` | `topo_sort_by_depends_on` (Kahn), `compute_resource_layers` on lists | the input as variables, the algorithm as folds and recursive functions |
| `Admission` | the submit handler, both limiters, windows, policies and approvers, secret references, `reload_config` | one action per step of the handler between two of which the configuration may be replaced |
| `Desired` | `desired_states`, `list_desired_state_for_agent`, `prepare_rollback`, `revert_drift`, `approve_operation`, `prune_once` | operations by number of creation, one assignment per agent, what is on the host, and the history a rollback should return to |
| `AuditChain` | `record_audit_on`, `audit_verify_chain_from`, the audit part of `prune_once` | transactions that stamp, read the tip, insert and commit or roll back; a verification that walks by chunks |
| `AuditLog` | what the audit log promises to those who read it by id | abstract: rows appear in the order of their ids and leave only by retention. `AuditChain` implements it (`ImplementsLog`), `Webhook` is built on it |
| `Webhook` | `initialize`, `tick_once`, `tick_one_webhook`, `fire_with_permit`, `fire`, `persist_backoff`, `load_persisted_backoffs` | the dispatcher's memory and its two tables; one action per statement or request, so that the process may stop between any two; each statement may fail |
| `Drift` | `observe_once`, `push_to_remote`, `push_observations` (halving on 413), `push_drift`; the server's `record_observations`, `record_drift`, `close_drift_not_in`, `accept_drift`, `ignore_drift` | the agent's tables and cycle, requests on their way, the server's tables; a push that timed out is still handled |
| `Accounts` | `api/users.rs`, `api/auth.rs`, `identity.rs` and their transactions | a request is a record with the statement it has reached; locks and snapshots as in `RolloutTx` |
| `Trust` | `register_agent`, `rotate_agent_token`, `authenticate`, `load_or_create`, `rotate`, `retire`, `refresh_signing_keys`, the identity file | one agent, one server, either of which may stop between two writes; answers may be lost, writes may fail, and a key may be retired at any time |
| `SshPush` | `run_worker`, `claim_ssh_pending`, `process_assignment`, `iac apply --assignment-stdin` | workers of several server processes, jobs with leases, applies running on the host |
| `Daemon` | the end of `main`, `notify_waiters`, `capabilities_watcher_loop`, the capability check of an assignment | loops that wait, are busy or have stopped; the file with its time |
| `Providers` | `file`, `systemd.unit` and `nginx.vhost` | operators only: whether a state differs from a spec, the steps of a plan, what a step does, what a checkpoint keeps and what restoring it does |
| `Executor` | `Executor::apply`, `apply_one`, `gc_operation_dirs`, `rollback` and what they keep under the state directory | the host, nginx's memory, operation directories, checkpoints, applied state; one action per call of a provider or write of a file, each of which may fail; the process may stop anywhere, also inside a step; somebody else may change the host |
| `Containers`, `NetDrivers`, `HostDrivers` | the other nine built-in kinds and the provider that plugins stand behind | operators only, in the form of `Providers`, with the calls of a step in order |
| `Drivers` | one resource under one of those providers | applies and rollbacks call by call; every call may fail with or without its effect, the process may stop between any two |
| `Plugin` | `PluginHandle::call`, `call_once`, spawn, hello, cool-off | callers under a lock that is given up between an error and its handling, children with their input and output lines |
| `CommandLine` | `iac plan`, `iac apply`, `iac run` with `gitops.rs`, `ssh_dispatch.rs`, `run_history.rs` | the shared clone, invocations and their tasks, uploaded binaries, applies that outlive their connection |
| `ServerClient` | `iac login`, `logout`, `apply --server --wait`, `credentials.rs` | the shared store, tokens the server accepts, operations that are waited for |
| `*Proofs` | | theorems |

The `MC*` modules hold manifests, specs and symmetry sets of the runs. Parts that
share no state are checked in one run: a variable (`scene`, `part`) says which of
them a behaviour is about, and the others keep an initial state. `MCRollout` has
`Rollout` and `RolloutTx`, `MCSubmit` has `Expansion`, `DepSort`, `Admission` and
`Desired`, `MCHost` has `Executor`, `Drivers` and `Plugin`, `MCClients` has
`Accounts`, `Trust`, `CommandLine` and `ServerClient`, `MCRunning` has `Drift`,
`SshPush` and `Daemon`.

Abstractions. Manifests are small records (environment, dependencies, host of
each resource), a hash is the sequence of records it was computed over (SHA-256
without collisions), tokens and keys are numbers in the order they were made, a
lease is a set of rows whose `fetched_at` is too old, days are numbers. A spec in
`Desired` is known by the operation it was first submitted with. The contents of
a file are one of a few texts, its mode, owner and group one value; the unit file
states that systemd knows are four (`enabled-runtime` counts as `enabled`, a unit
that is not loaded as `masked`). A resource in `Expansion` is its kind, the fields
of its spec and the secret it refers to; the copying of `hostSelector` is left
out. One executor is at work on a host at a time: the agent's tasks take turns.
Payloads, formats and log lines are left out.

Definitions named `X_Something` after "Mutant:" are deliberate bugs; nothing of
the specifications uses them. They show that each property can fail.

## 3. Runs

| Run | Shows | Bounds | States |
|---|---|---|---|
| `rollout` | claims, reverts, lost answers, leases and late results cross no layer or canary gate, an operation is finished exactly when its rows are, no gate closes for good; on SQLite overlapping reports have the effect of one step | claims: 2 operations, an HTTP agent and an SSH target, 2 polls; gates: 1 operation, 3 agents, up to 3 layers, canary batches of 1 and 2; racing: 2 transactions, 2 layers | 60,300 |
| `fleet_faults` | a row is executed once per fault, results are real, and agents and network implement `Rollout` | 1 agent, 2 layers, 2 polls, 1 crash, 1 table failure, stale envelopes | 280,700 |
| `fleet_settles` | operations finish through losses and a crash | 2 agents, 2 layers, 1 poll, 1 crash | 4,900 |
| `submit` | expansion, sort and layers against their definitions; one configuration, budgets and secrets of a submission; what agents watch, what a rollback restores and an approval dispatches | every pair of modules of up to 2 items, depth 2; every graph on 3 and 4 resources; 2 handlers, 2 configurations, 3 points in time; 3 operations on 2 hosts, 2 specs kept per resource, 1 failure or change by hand | 699,000 |
| `audit` | on SQLite, verification reports changed rows and, until retention has been at work, nothing else; the chain implements `AuditLog` | 2 transactions of up to 2 rows, 3 ids, 3 days, 1 edit, chunks of 2 | 1,570,000 |
| `webhook` | no cursor passes a row that was not fired, a row is fired again only for a cut off tick or a lost cursor, every row is fired in the end | 1 receiver, 3 rows of which 2 are there at first, batches of 2, 1 stop, 1 failing statement, 1 Retry-After above the cap | 321,000 |
| `host` | the newest operation can be undone at every moment, a rollback that returns Ok restores, records are true; each provider: success means conformance, rollbacks restore, retries succeed; plugin calls get their own answers and run twice at most | a file, a unit and a virtual host, 2 operations of which 1 is kept, 2 troubles; per provider up to 3 specs, 3 applies, 2 upsets; 2 callers, 3 calls, 2 faults | 2,260,000 |
| `clients` | an administrator remains, tokens follow logins; an agent is locked out only by a new token lost on its way and stranded only by an early retirement; exit codes, history and saved tokens of the command line are true | 2 users, 3 tokens, 2 requests (Postgres); 3 keys, 3 agent tokens, 2 faults; an apply on 2 hosts with a plan beside it, a run on 3, an apply over SSH, 2 slips; a login, a logout and 2 applies on one server, 1 miss | 1,341,000 |
| `running` | one open row per drift, the server's view catches up if the drift fits in a request; every SSH push gets a result and a job starts again only for a loss; the rules in force follow their file | 2 resources, the observation of 1 fits in no request, requests that hold one drift or two, 4 upsets (Postgres); 2 jobs, 2 workers, 3 faults; 3 versions of the file, one broken, 4 edits | 279,000 |

Why these bounds are enough to be interesting: two polls are needed for a row to
be claimed twice, and a third one only repeats what the second can do; three
layers are the least in which a middle layer can be empty; two agents in a
layer are the least in which a layer is partly finished, three the least in
which a canary batch of two leaves a baseline; two modules can use each other and
themselves; two handlers are the least that race for a budget, two configurations
the least that can be mixed; three operations are a rollback target, its
predecessor and the rollback, and with two specs kept the third takes one away;
chunks of two and three ids make the verification cross a chunk while a
transaction rolls back; three rows and batches of two make a batch that is full
and one that is not; two operations with one directory kept make the first one
lose its checkpoints while the second can be undone; two failures make an apply
fail and its first rollback, too; three keys are an active one, its successor and
a retired one; two tokens of one login need a third to be refreshed into. Receivers
share nothing but the loop that serves them in turn, which is why one is enough for
TLC; the theorem about cursors has any number of them. The theorems of
section 6 do not depend on bounds.

Deadlock is not checked: an operator need not submit, so all these systems may
rest. Liveness is stated for what loops by itself (agents, dispatcher, drift,
push workers, watcher, shutdown). Submission, executor, providers and commands are
sequential programs whose loops are bounded by their input.

Runs that are expected to fail, each with its finding in `PROJECT.json`:

| Run | What the code does | What it is said to do |
|---|---|---|
| `tx_postgres` | two completions that overlap leave the next layer waiting for ever | comment of `advance_phased_apply` |
| `revert` | a revert sends out the newest spec of a resource, also one that waits for approval or was rejected, without asking for approval | comments of `revert_drift` |
| `shutdown` | a loop that is busy when `main` notifies it never stops, and `main` waits for it | comment of `main` |

## 4. Further differences between code and text

The models show these; they have no run of their own.

Dispatch.
* Canary and baseline rows of layers above 0 are released together
  (`store.rs:2266`; architecture.md:126 has the canary first in every layer).
* A failed canary leaves the other canaries of its batch running
  (`store.rs:2360`; the comment at 2349 speaks of every row that is not finished).
* Layer holes: an operation without rows in layer 0 never starts
  (`store.rs:2256`), and a layer without rows lets the layer behind it start after
  a failure (`store.rs:2213`; architecture.md:114: "A failure in any layer cancels
  every later layer"). `LayerGate` and the properties like it are therefore stated
  for operations without holes.
* An operation that waited for approval is dispatched without its canary
  (`store.rs:1400`; reference.md:949 has no such exception).
* A row whose envelope is older than a day is claimed and refused again and again
  (`remote.rs:755`; reference.md:1257: "the next GET re-claims them").

Submission.
* A list with a repeated resource id is accepted by the sort and may then fail in
  `compute_resource_layers` as an internal error (`depsort.rs:59`); the run takes
  lists of different ids.
* An overnight window, split in two at midnight, leaves the minute 23:59 open: the
  end is exclusive and 24:00 is refused. Retry-After of a recurring window
  overshoots by up to a minute.
* Submissions that a policy's limit or a window refuses use up the budget of their
  environment, though the budget is to "reflect real submissions only". The
  limiter reads the time before it takes the lock, so entries may be out of order
  by the time it waits; the model stamps a charge under the lock.
* When a policy is removed or renamed, anybody may approve what it holds
  (`policy.rs:24`: "Enforced"). Revert and rollback skip rate limits and windows.
* References to secrets that a template brings in are neither looked up in advance
  nor refused without resolvers; the SSH push sends `${secret://...}` literally
  (`operations.rs:149` fails closed), and the desired state handed to an observing
  agent has literals, so such a resource drifts for ever. Malformed references pass
  as text.
* A composite without `metadata.environment` in an operation for another environment
  than "default" is refused, although an absent one is said to inherit. The
  `dependsOn` of a composite is dropped and those who depend on it have an unknown
  reference. An empty template yields an operation without resources.

Desired state.
* Assignments that were cancelled or never dispatched are watched (`store.rs:1835`:
  "ever dispatched"). The order of `created_at` decides, also after a late approval.
* Retention may delete the failed assignment of an operation that is still running,
  which then ends "succeeded". The cap per resource counts rows of rejected and
  waiting operations: after that many newer ones an approval dispatches nothing
  (`retention.rs:56`).
* `accept_drift` is "a permanent resolution" (`store.rs:838`), but the next push
  inserts a new row. Rolling back a rollback toggles. A prior that was only
  partly applied may never have been on the host.

Audit log and webhooks.
* Verification reports a broken chain once retention has deleted rows
  (`retention.rs:197`; runbook.md:353 knows only corruption, edits and bugs).
* The header of `webhook.rs` says that cursors are kept in memory only, and the
  migration `20260430000007_webhook_state.sql` that what was written between the
  last tick and a crash is delivered; cursors are written, but a receiver whose
  cursor was never written begins at `MAX(id)` again (`webhook.rs:784`), and an
  event that was answered 429 is not sent again (`webhook.rs:1285`).

Users, agents and keys.
* A password reset or lock-out that races a login, or on Postgres a refresh, leaves
  a live token (`raced` in `TokensFollowLogins`). `update_user` stops before its
  audit row when a later field fails (`users.rs:5`: "Every mutation records an
  audit event").
* A lost answer to a rotation, or an identity file that cannot be written after it,
  leaves the agent with a dead token: the server's row forgets the old one before the
  agent has saved the new one, and the agent keeps the old one in memory and on disk.
  The comment has "On any error the in-memory and on-disk state remain unchanged —
  partial rotations don't leave the agent stuck without a usable token"
  (`remote.rs:309`, again at 327). `LockedOutOnlyByLoss` names these cases (`orphaned`).
  A lost answer to a registration, or a file that cannot be written then, leaves its
  name taken. After a 401 the identity file is kept, so the agent never
  registers again (`agent.rs:603`, `agent.rs:685`). The margin of a rotation is an
  hour, not a third of the lifetime.
* `retire` checks that a key is there and not active (`signing.rs:352`), not that the
  rotation window has passed (the header, `signing.rs:29`, leaves that to the operator):
  retired before the agent has fetched its successor, the key takes every key in common
  with it, and the agent follows no rotation any more. `NeverStranded` names this case
  (`hasty`), which the run reaches.
* A first start that is cut off between the directory and the active pointer leaves
  a server that cannot load its keys. `sign` and `key_id` load the state twice, so
  a rotation between them labels an envelope with the wrong key.

Drift and loops.
* `push_drift` is not cut into chunks: when the open drift does not fit in one request,
  the 413 comes back every cycle, drift is neither added nor closed, and the server's
  view stays as it was. The models have this (`TooLarge`), and `CatchesUp` promises
  nothing of drift then, only of observations. The
  server inserts every observation (`remote.rs` says it removes duplicates). A
  local manifest of another environment makes it refuse every push (`Foreign`). An
  open drift of a resource that is no longer watched is pushed for ever.
* An idle push worker loops without the pause of `ssh_push.rs:29`; a claim that is
  given up after a second may have committed; the lease of 60 s is shorter than the
  300 s a push may take, so a second server pushes the same job; a killed `ssh`
  leaves the apply running and is reported as failed.
* `agent.rs:966` has "File deletion ... swaps to None", but the rules stay. A file
  that changes between the load and the first look at its time is never noticed
  (`early`). A SIGTERM before the server waits for it is lost.

Executor and providers.
* A `file` without `content` is emptied when its mode is to change, and one without
  `mode` gets 0600 (`file/ops.rs:319`; `file/spec.rs:20`, reference.md:199: what is
  omitted is not managed).
* When nginx could not be reloaded after its file was written, the next apply sees
  no difference and never reloads (`nginx/ops.rs:158`; reference.md:352). This is
  what `torn` stands for.
* An apply that ends early (`?` in `executor.rs`) writes no `operation.json` and
  deletes no old directories; `Undoable` holds all the same. Rollback leaves
  `applied/` as it was. Checkpoints are restored in the order of their ULIDs, which
  is that of their creation unless two fall into one millisecond or the clock is
  set back; the model takes the order of creation. `iac-agent rollback` takes no
  lock against an apply of the daemon (`agent.rs:856`).
* Containers: the rollback of an update by a moved tag pulls the tag as it is now,
  loses tmpfs, and a stopped container comes back running; `extra_networks` without
  `network` never verify, and a rollback does not restore docker's default network beside
  others (`docker/ops.rs:812`); a health check interval of "0s" drifts for ever. Compose:
  after `up` has failed with services running, the file on disk is the wanted one
  and the next apply sees no change (`compose/ops.rs:10`); a rollback to a file
  without services brings them up.
* Firewall: a rule that changes its chain leaves the old one (`backend.rs:53`), an
  ignored error of the delete leaves two, a listing that fails counts as "nothing to
  delete", a name that is a prefix of another matches both, table and family are not
  compared and are lost in a rollback, a changed rule moves to the end.
* ACME: a missing or foreign key is not noticed, and a rollback writes certificate and
  key one after the other. Packages: dpkg's "config-files" counts as installed. A
  sysctl parameter that is missing can neither be set nor undone.
* Plugins: a late answer is followed by a second try, so an apply may run twice while
  the old child, never killed, works on; a stale failure drops a healthy new process;
  a bad hello is not counted by the cool-off; `handle.rs:112` says 300 s, the code
  stops at 256.

Command line.
* The abort flag is read before the permit is waited for, so tasks that wait run
  nevertheless (`main.rs:217`: "stop the fan-out on first failure").
* `FETCH_HEAD` and the tree are shared by invocations (`gitops.rs:103`: "no chance of
  a different process moving the ref under us"); a stop between `init` and `remote
  add` makes every later fetch fail.
* A cached binary is known by its name and `--version`, not by its hash; a lost
  connection is reported as failed although the apply goes on.
* `apply --wait` takes `PendingApproval` for an end (exit 5; `main.rs:2005`). It keeps
  its token, so another invocation's refresh or logout ends the wait with 1. A lost
  answer to a refresh leaves the old token in the file, and the file is loaded,
  changed and saved as a whole.

## 5. Fairness

`Fleet!FleetFairness` states what the code's loops give:
agents poll for ever (the drain runs on a timer), every HTTP handler ends, an
agent that is up works off its queue, leases run out because time passes, push
workers loop. Strong fairness is used in two places: for starting a poll, because
the number of handlers in flight is the model's bound and a free one is only
there again and again; and for messages that get through again and again, the
usual assumption on a network that loses messages. Nobody is obliged to submit,
approve, reject or register, and nothing obliges a crash.

`Webhook!Fairness` is weak everywhere: the clock runs, the supervisor starts the
process again with its receivers, the loop ticks, a request ends because the HTTP
client has a timeout of five seconds, and statements return. Nothing obliges a
stop or a failing statement, and both are bounded.

`MCRunning!RunningSpec` is weak everywhere, too: the observe cycle is a timer loop,
handlers and workers run to their end, an apply on the host ends, leases run out,
the watcher ticks every few seconds, a busy loop finishes its iteration, and `main`
goes on when the loop it awaits has ended. Changes of the host, edits of the file,
losses and restarts are bounded and never obliged; `CatchesUp`, `JobsSettle` and
`AllowlistFollowsFile` speak of what comes after the last of them.

## 6. Proofs

`tlapm` checks all of these, for every value of the constants.

* `RolloutProofs`: `TypeCorrect`, `FinishedIffSettledCorrect` (an operation is
  finished exactly when none of its rows can change, and its status sums the
  rows up) and `FinishedForeverCorrect` (an action property). The invariant adds
  that only operations that were dispatched have rows.
* `RolloutProofs` again, for the gates: `LayerGateCorrect`, `CanaryGateCorrect`,
  `CancelledForCauseCorrect`, `CancelledNeverRanCorrect`, `NoStrandedRowsCorrect`.
  A gate acts only when a row completes, so the proofs need to know that it never
  misses its moment. `GateInv` says this: rows wait only where the gates will look
  (`WaitPlaces`), and after every step the gates have nothing left to do
  (`Thorough`); `BatchOfRows` ties the canary split to the rows. `HandedInv` adds
  which rows an agent may have been handed.
* `RolloutProofs`, about `RolloutTx`: `RacingIsOneStepCorrect`, `TxImplementsRollout` and
  `RacingIsSafeOnSqlite`. On SQLite the statements of `complete_assignment`, in any number
  of transactions that overlap each other and every other operation, have the effect of
  the one action of `Rollout` or none, so what is proved of `Rollout` holds of them.
  `RaceInv` says that only the writer has rows of its own, that its snapshot is current,
  and that what it sees is the action as far as it has come: the rows after the result,
  after the canary, after the layers. On Postgres none of this is so (`tx_postgres`).
* `RolloutProofs`, about `Fleet`: `FleetTypeCorrect`, `FleetImplementsRollout` (each step of the
  fleet is a step of `Rollout` or changes none of its variables),
  `AppliedOncePerFaultCorrect`, `ResultsAreRealCorrect`, `LayersOnHostsCorrect`.
  `AgentInv` relates the envelope in hand, the queue, the replay table and the
  rows the server has handed out; `AppliedInv` counts executions against faults.
* `AuditProofs`: `NoForkCorrect`, `TipIsHeadCorrect`, `ChainIsLinearCorrect`, on
  both databases. `AuditInv` says that only the holder of the lock has rows of its
  own and that a transaction that could insert has read the tip as it is
  (`SeesTip`): on Postgres because of `FOR UPDATE`, on SQLite because the writer's
  snapshot is current. Lengths of hashes grow with the ids, so no hash occurs twice.
  `LinkInv` adds that rows are linked in id order. `ImplementsLogCorrect` shows
  that the chain implements `AuditLog`: ids are handed out under the same lock
  (`IdBound`), so a commit only appends above the tip. `CleanWhenUntouchedCorrect` and
  `EditsAreFoundCorrect` follow a verification through a log that grows and is pruned
  under it: a chunk leaves out no row up to its last (`ChunkFacts`), so until a break is
  found every changed row after `from_id` is ahead of the verification or deleted
  (`AheadInv`), and as long as no row was changed or deleted it holds the hash of the
  row it has come to (`WalkInv`), which the next row names. A changed row is not
  changed back.
* `WebhookProofs`: `TypeCorrect`, `NothingPassedOverCorrect` and
  `FiredOncePerLossCorrect`, for any number of receivers, stops and failing statements.
  Whether a cursor may move depends on the
  batch in progress: `Ticking` says that every row that is due up to the end of the
  batch waits, is in flight or is done, `Bounds` that no cursor is ahead of the log,
  so that rows committed later lie beyond every cursor. That a batch ends with one
  of its rows and has every row up to there (`BatchRead`) rests on the finite set
  theorems of the library and on the order of the naturals being well-founded. How
  often a row is fired depends on whether it may be fired once more: `Owed` says that
  the rows that may (beyond the cursor in the database, where the next start begins, or
  beyond the one in memory, and not passed by the batch) were fired once less.
* `ExecutorProofs`: `TypeCorrect`, `UndoableCorrect`, `RollbackRestoresCorrect`,
  `RecordsAreTrueCorrect`, for any resources, manifests, number of operations and failures. Lemmas about the
  providers come first: a plan has only steps that fit its resource, a step and a
  restore lead to a state of the same kind (a unit that can be enabled stays one),
  and restoring depends only on that kind, so a step in between does not change where
  the oldest checkpoint leads. The invariant adds that a step is taken only with its
  checkpoint written (`ExecInv`), that checkpoints fit their resource (`FitsInv`), that
  new operations begin without any (`FreshInv`), and that a rollback without errors
  has put back every resource whose oldest checkpoint is behind it (`UndoInv`).
  Directories that are deleted have at least `Keep` newer ones, by the finite set
  theorems. For the records, `TakenInv` says that the items of a manifest that apply has
  behind it conform as long as none has failed and nobody else has changed the host: no
  later item undoes them since a manifest names no resource twice.
* `ExecutorProofs`, about `Plugin`: `AnsweredAndDoneCorrect`, for any number of callers,
  children, failures and lines. An id is for one call as long as anybody knows it
  (`IdInv`: a child has it in its input or in a line not read yet, or a caller waits for
  it), so the answer with that id is the caller's own. A call is not carried out more
  often than it is tried since what was carried out, the children that still have it
  before them and the tries to come are together no more than the tries (`CountInv`,
  `CallerOK`); that rests on the lock, under which requests are written, and on a
  child that has a call never getting it again, because the handle lets go of a child
  before a second try.
* `DriverProofs`: `OkMeansConformsCorrect`, `UndoRestoresCorrect` and
  `RetrySucceedsCorrect`, for each of the ten providers of `Drivers`, any specs and hosts,
  and any number of applies, failing calls, stops and rollbacks. None of the three is
  inductive. `DriverInv` says that what is on the host is `Sound`, that the calls to come
  are `Proper` and in a possible order (`Tidy`: docker connects networks only to a container
  that was started for them, a rule is appended after the old one was deleted), and that
  checkpoints are of the resource (`Kept`). `Way` says, per provider, at which places an
  apply can be: the steps and calls to come, and what is true of the host when the earlier
  ones are done; from each of them the next call leads to the next, and at the end nothing
  differs. `Back` says the same of the rollback of the oldest checkpoint, which is one of
  the host at the beginning (`FirstKept`), so that it does not matter how far the apply or
  an earlier rollback had come. `Since` has what no apply touches, the other rules of a
  chain above all. That a host which does not differ conforms is a lemma about the
  operators (`ConformsUnlessDifferent`). Two hypotheses are named. `RulesStayPut`, which is about
  behaviours of the firewall provider only: a rule keeps its table and chain, names are not
  prefixes of each other, hosts begin without two rules of one name, and with iptables the
  table is `filter`; for the other nine providers it holds by itself. `NamedNetworks`
  (not needed for `OkMeansConforms`): docker's default network is not used beside others,
  and `extra_networks` come with a `network`. Without them the code does not do what the
  properties say (section 4); the specs and hosts of the run `host` satisfy both.
* `SubmitProofs`, about `Desired`: `ApprovedInFullCorrect`, `WatchesItsOwnCorrect`,
  `RollbackGoesBackCorrect`, for any hosts, resources, bundles, failures and cap.
  Retention deletes from two tables in no fixed order, so what is watched rests on
  two facts: the stored rows of a resource are its newest ones (`NewestStay`), and
  results of a host are stored in the order of their operations, as long as it applies
  them in that order (`ResultsInOrder`). `WholeOrPruned` says why a row is missing,
  `DispatchInv` what was dispatched. `HostInv` relates history to host: the spec there is
  that of the last operation that was applied, and before each operation that of the
  one before it; deletion by number changes neither, deletion by age takes results away
  and is why `RollbackGoesBack` has the premise that earlier operations count as applied.
* `SubmitProofs`, about `Admission`: `OneConfigurationCorrect` and `BudgetsHoldCorrect`, for
  any number of handlers, policies, caps and reloads. `FoundInv` keeps what a handler has
  found out tied to the configuration it took. A budget is a statement about every
  minute, of which the limiter sees only the last: `BucketsInv` says that a bucket is
  what is left of all its charges once those are gone that are over a minute old, and
  that charges as many places apart as some cap of the bucket allows are over a minute
  apart. So the charges of any minute are among the `cap` up to its last. `Accounted`
  finds each charge of a policy with a handler, an operation or a lost submission.
* `SubmitProofs`, about `Admission` and `Expansion`: `LiteralsComeFromTemplatesCorrect`, for
  any modules, depth, requests and handlers. `LiteralInv` says that without a registry no
  handler past the probe, and no operation, has a request with references; the rest is
  what expansion does to references (`ExpansionRefers`). Concatenating and passing are
  recursive functions, whose existence is proved first (`FlatExists`, `PassingExists`):
  the least number of steps for which there is none has one that is one smaller.
* `SubmitProofs`, about `DepSort`: `SortAndLayersAgreeCorrect`, for lists of any length.
  `Sorting` says that exactly the resources whose dependencies are all in the result are
  in it or queued, and that `in_degree` counts the others; so what is left over when the
  queue is empty depends on what is left over. `Ordered` says that each stands after its
  dependencies, hence that they have their layers (`LayersFound`). The layers satisfy the
  equation of `compute_resource_layers`, and without cycles only one function does
  (`LayersAreUnique`). The hypothesis `DistinctIds` is that no list names an id twice: the
  two functions resolve a repeated id to different resources (section 4).
* `ClientProofs`, about `Trust`: `TrustTypeCorrect`, `LockedOutOnlyByLossCorrect`,
  `NeverStrandedCorrect`. Both properties speak of moments without an answer under way;
  `CallInv` says what an answer under way carries, `CycleInv` when the agent's memory is
  its file, `KeysInv` how keys in memory and on disk differ in the middle of a rotation
  or retirement and after one that failed, `PinnedInv` that what an agent has pinned, or is
  about to pin, has a key on disk and one in memory. `orphaned` and `hasty` are history:
  no action reads them. The first is set when a new token is lost on its way into the file,
  the second by a retirement at a moment when the agent lacks the active key or has a call
  under way; `PinnedInv` holds until the second, while `LockedOutOnlyByLoss` does not need it.
* `ClientProofs`, about `Accounts`: `AccountsTypeCorrect`, `AdminRemainsCorrect` (an action
  property), `TokensFollowLoginsCorrect`, for any number of users, tokens and overlapping
  requests on either database. A request checks in one statement and writes in another.
  `RequestOK` says what it has read that still holds when it writes, unless the database
  will refuse the write (a stale snapshot on SQLite); `Apart`
  says which two requests are never at their statements together, because of row locks
  or because there is one writer. `ensure_active_admin_remains` is sound because a
  request that has counted the other administrators holds the locks on their rows.
* `ClientProofs`, about `CommandLine` and `ServerClient`: `CommandsTellTheTruthCorrect`, for
  any hosts, invocations, servers and tokens. `TaskInv` says what a task of a fan-out has
  kept at each place it can be at, `AbortInv` that the flag which lets tasks be skipped was
  raised by a task that failed: so a command that skips or loses a connection does not end
  with 0. `GitInv` follows the commit that was fetched to the manifests that were loaded,
  unless another invocation works in the clone. With a server, `FreshInv` says that a token
  that was just issued is nowhere else until it is saved; `AloneInv` and `SavedInv` tie
  `credentials.json` to the store a command has loaded, as long as no two had it at a time.
* `RunningProofs`: `RecordMatchesHostCorrect`, for any number of jobs, workers and restarts:
  starts that were and starts to come (a row that a claim may take without a loss, a
  worker that has claimed and not pushed) are bounded together (`Accounted`).
  `OneRowPerDriftCorrect`: what a push found no open row of has none until it inserts,
  while no second push is at the server (`Inserting`). `AllowlistHoldsCorrect`: the first
  half of `AllowlistFollowsFile`; the other half is liveness.

The assumptions are the named `ASSUME`s of the modules: ids of operations, audit rows,
jobs, keys and tokens are numbers, a lock that is free is held by no caller, push targets
are agents, canary requests are pairs of numbers, requests and modules hold lists, there is a configuration to start with, its caps are numbers, handlers and
workers are finitely many, a bucket's key says whether it is an environment's or a
policy's (`rate_limit.rs` gives them different variants), an inventory has finitely many
hosts, specs and hosts of a provider are of its form (`ValidSpec`, `ValidHost` in
`Drivers`; images and services are the sets `Ref` and `Service`), literals are strings,
and the place holders
(`NoPoll`, `NoTx`, `None`, `Nil`, ...) are not among the things they stand for.

Only model-checked. Liveness (`FleetSettles`, `EveryRowIsFired`, `DriftCatchesUp`,
`PushesSettle`, the second half of `AllowlistFollowsFile`), which TLAPS cannot do under
fairness; `ExpandsToLeaves`, which compares two recursions over data as wholes, by way
of a sorted sequence of paths. What the code violates (`tx_postgres`, `revert`, `shutdown`) is only a counterexample of TLC.

## 7. Not modelled

* HTTP routing, TLS, parsing of the configuration, metrics, health checks, rendering
  of output and the trial host: wiring, conversion and a load generator, without
  state that another part reads.
* The template language, the parsers of specs and of the output of commands, and the
  resolvers of secrets: conversions and calls of outside services. What they tell
  apart is in the models (a field is known, required or missing; a state differs or
  does not; a secret can be resolved or not).
* The WebAssembly host, which runs a module inside the process and has no protocol
  of its own; signatures and URL checks of webhooks.
* Heartbeats, which only set the time an agent was last seen, and migrations.
* Commands that only show something, and retention of tables that nothing else reads
  (observations, resolved drift, tokens past their end).
* Two executors on one host at a time (`agent.rs:856`): the code has nothing that
  would make a property of it true.
