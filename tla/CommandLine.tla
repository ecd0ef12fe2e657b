---------------------------- MODULE CommandLine -----------------------------
(***************************************************************************)
(* The command line without a server (iac-cli): iac plan and iac apply     *)
(* take their manifests from a git repository by way of a cache that all   *)
(* invocations of a user share; iac apply and iac run then work on the     *)
(* hosts of an inventory in parallel, over SSH, and bring the iac binary   *)
(* along where there is none. A call of ssh, scp or git may fail; a        *)
(* connection that breaks leaves what was started on the host running.     *)
(***************************************************************************)
EXTENDS Integers, Sequences, FiniteSets

CONSTANTS
  Cmd,           \* invocations
  Job,           \* [Cmd -> [kind, ref, limit]]: "plan", "apply", "ssh" (apply --ssh) or "run"
  Entry,         \* hosts of the groups of the inventory
  Of,            \* [Entry -> Cmd]: the invocation whose group it is in
  Machine,       \* [Entry -> machine]: two entries may be the same one
  WithIac,       \* machines that iac is installed on
  OtherArch,     \* machines of another architecture
  Authorised,    \* IAC_BOOTSTRAP_BINARY_SHA256 is right, or somebody is watching
  Unset,         \* no commit, no entry
  MaxParallel, FailFast, AutoBootstrap,
  MaxCommit,     \* bound: pushes to one branch
  MaxSlip        \* bound: calls that fail and stops

ASSUME CommandLineAssumption ==
  /\ IsFiniteSet(Entry) /\ Of \in [Entry -> Cmd] /\ DOMAIN Machine = Entry
  /\ Unset \notin Nat
  /\ MaxParallel \in Nat \ {0} /\ MaxSlip \in Nat /\ MaxCommit \in Nat

Commit == 0..MaxCommit

VARIABLES
  remote,   \* [ref -> the commit it is at]
  cache,    \* the clone: its state, FETCH_HEAD and the commit of the tree
  inv,      \* [Cmd -> where it is, the sha it found, the commit it loaded, exit code]
  aborted,  \* the invocations whose abort_flag is set
  task,     \* [Entry -> where its task is]
  outcome,  \* [Entry -> DispatchOutcome.status, or "none"]
  binary,   \* [machine -> /tmp/iac-applier-<sha8>: content, mode, last writer]
  history,  \* run-history.jsonl
  slips,
  \* What the program does not keep:
  fetched,  \* [Cmd -> the commit its own fetch brought]
  mixed,    \* invocations that shared the clone with another one
  verdict   \* [Entry -> how the apply or command ended on the machine]

cliVars == <<remote, cache, inv, aborted, task, outcome, binary, history, slips,
             fetched, mixed, verdict>>
gitVars == <<remote, cache, fetched, mixed>>
sshVars == <<aborted, task, outcome, binary, verdict>>

Slip == slips < MaxSlip /\ slips' = slips + 1

-----------------------------------------------------------------------------
(* The inventory                                                           *)

\* LimitExpr: patterns to include and to exclude, as the entries they match;
\* exclusions alone are an exclusion from all.
matches(limit, e) ==
  \/ limit.include = {} /\ limit.exclude = {}
  \/ /\ e \in UNION limit.include \/ limit.include = {}
     /\ e \notin UNION limit.exclude

\* InventoryFile::resolve
resolve(c) == {e \in Entry : Of[e] = c /\ matches(Job[c].limit, e)}

-----------------------------------------------------------------------------
(* Git: a plan or an apply fetches, resolves FETCH_HEAD, checks out and    *)
(* loads the tree                                                          *)

CommandLineInit ==
  /\ remote = [r \in {Job[c].ref : c \in Cmd} |-> 0]
  /\ cache = [repo |-> "none", head |-> Unset, tree |-> Unset]
  /\ inv = [c \in Cmd |-> [at |-> "start", exit |-> Unset, sha |-> Unset, loaded |-> Unset]]
  /\ aborted = {}
  /\ task = [e \in Entry |-> "none"] /\ outcome = [e \in Entry |-> "none"]
  /\ binary = [m \in {Machine[e] : e \in Entry} |->
                 [whole |-> FALSE, mode |-> FALSE, by |-> Unset]]
  /\ history = <<>> /\ slips = 0
  /\ fetched = [c \in Cmd |-> Unset] /\ mixed = {}
  /\ verdict = [e \in Entry |-> "none"]

At(c, where) == inv[c].at = where
Goes(c, where) == inv' = [inv EXCEPT ![c].at = where]
InClone(c) == inv[c].at \in {"parse", "checkout", "load"}

\* A git command that changes the clone, while others are at work in it.
Disturbs(c) == mixed' = mixed \cup {d \in Cmd \ {c} : InClone(d)}

\* run_git has failed, or there is no remote to fetch from, or it is there
\* already: the command ends with an error.
GitFails(c) ==
  /\ inv[c].at \in {"init", "remote", "fetch", "parse", "checkout"}
  /\ \/ Slip
     \/ At(c, "fetch") /\ cache.repo = "init" /\ UNCHANGED slips
     \/ At(c, "remote") /\ cache.repo = "made" /\ UNCHANGED slips
  /\ inv' = [inv EXCEPT ![c].at = "over", ![c].exit = 1]
  /\ UNCHANGED <<gitVars, sshVars, history>>

\* iac run has no manifests. A clone counts as made when .git is there, which
\* is before it has a remote.
LooksForClone(c) ==
  /\ At(c, "start")
  /\ Goes(c, IF Job[c].kind = "run" THEN "fanout"
             ELSE IF cache.repo = "none" THEN "init" ELSE "fetch")
  /\ UNCHANGED <<gitVars, sshVars, history, slips>>

GitInit(c) ==
  /\ At(c, "init")
  /\ cache' = [cache EXCEPT !.repo = IF @ = "none" THEN "init" ELSE @]
  /\ Goes(c, "remote")
  /\ UNCHANGED <<remote, fetched, mixed, sshVars, history, slips>>

RemoteAdd(c) ==
  /\ At(c, "remote") /\ cache.repo = "init"
  /\ cache' = [cache EXCEPT !.repo = "made"] /\ Goes(c, "fetch")
  /\ UNCHANGED <<remote, fetched, mixed, sshVars, history, slips>>

Fetch(c) ==
  /\ At(c, "fetch") /\ cache.repo = "made"
  /\ cache' = [cache EXCEPT !.head = remote[Job[c].ref]]
  /\ fetched' = [fetched EXCEPT ![c] = remote[Job[c].ref]]
  /\ Goes(c, "parse") /\ Disturbs(c)
  /\ UNCHANGED <<remote, sshVars, history, slips>>

RevParse(c) ==
  /\ At(c, "parse")
  /\ inv' = [inv EXCEPT ![c].at = "checkout", ![c].sha = cache.head]
  /\ UNCHANGED <<gitVars, sshVars, history, slips>>

\* Mutant: what was fetched is taken for checked out.
CheckedOut_Fetched(c) == IF cache.tree = Unset THEN inv[c].sha ELSE cache.tree

CheckedOut(c) == inv[c].sha

Checkout(c) ==
  /\ At(c, "checkout")
  /\ cache' = [cache EXCEPT !.tree = CheckedOut(c)]
  /\ Goes(c, "load") /\ Disturbs(c)
  /\ UNCHANGED <<remote, fetched, sshVars, history, slips>>

\* load_manifests; a plan is printed and done.
LoadManifests(c) ==
  /\ At(c, "load")
  /\ inv' = [inv EXCEPT ![c].loaded = cache.tree,
                        ![c].at = IF Job[c].kind = "plan" THEN "over" ELSE "fanout",
                        ![c].exit = IF Job[c].kind = "plan" THEN 0 ELSE Unset]
  /\ UNCHANGED <<gitVars, sshVars, history, slips>>

-----------------------------------------------------------------------------
(* cmd_apply_fanout, cmd_run: a task per host, a semaphore, an abort flag  *)
(* that a task looks at before it waits for a permit                       *)

Joined(e) == At(Of[e], "fanout")
Permitted == {"probe", "bootstrap", "cached", "copy", "scp", "chmod", "apply", "running"}
StepsTo(e, where) == task' = [task EXCEPT ![e] = where]

Spawn(c) ==
  /\ At(c, "fanout") /\ resolve(c) # {}
  /\ \A e \in resolve(c) : task[e] = "none"
  /\ task' = [e \in Entry |-> IF e \in resolve(c) THEN "spawned" ELSE task[e]]
  /\ UNCHANGED <<gitVars, inv, aborted, outcome, binary, verdict, history, slips>>

LooksAtFlag(e) ==
  /\ Joined(e) /\ task[e] = "spawned"
  /\ StepsTo(e, IF Of[e] \in aborted THEN "skipped" ELSE "waiting")
  /\ UNCHANGED <<gitVars, inv, aborted, outcome, binary, verdict, history, slips>>

GetsPermit(e) ==
  /\ Joined(e) /\ task[e] = "waiting"
  /\ Cardinality({d \in Entry : Of[d] = Of[e] /\ task[d] \in Permitted}) < MaxParallel
  /\ StepsTo(e, IF Job[Of[e]].kind = "run" THEN "apply" ELSE "probe")
  /\ UNCHANGED <<gitVars, inv, aborted, outcome, binary, verdict, history, slips>>

\* Mutant: an error of dispatch_apply is printed and not kept.
Kept_OkOnly(e, s, error) == IF error THEN "none" ELSE s

\* An Err of dispatch_apply counts as a failed outcome; apply --ssh, which has
\* one host, ends with it.
Kept(e, s, error) == IF error /\ Job[Of[e]].kind = "ssh" THEN "error" ELSE s

\* is_terminal_failure and --fail-fast
RaisedBy(e, s) == IF s = "failed" /\ FailFast THEN aborted \cup {Of[e]} ELSE aborted

\* The task of e ends with outcome s; a failure raises the flag.
Ends(e, s, error) ==
  /\ task' = [task EXCEPT ![e] = "ended"]
  /\ outcome' = [outcome EXCEPT ![e] = Kept(e, s, error)]
  /\ aborted' = RaisedBy(e, s)

Proceeds(e, where) == StepsTo(e, where) /\ UNCHANGED <<outcome, aborted>>

\* resolve_remote_iac
probe_remote_iac(e) ==
  /\ Joined(e) /\ task[e] = "probe"
  /\ \/ Slip /\ Ends(e, "failed", TRUE)
     \/ /\ IF Machine[e] \in WithIac THEN Proceeds(e, "apply")
           ELSE IF AutoBootstrap THEN Proceeds(e, "bootstrap")
           ELSE Ends(e, "failed", TRUE)
        /\ UNCHANGED slips
  /\ UNCHANGED <<gitVars, inv, binary, verdict, history>>

\* The architectures must be the same, and the binary pinned or watched.
bootstrap_iac_binary(e) ==
  /\ Joined(e) /\ task[e] = "bootstrap"
  /\ \/ Slip /\ Ends(e, "failed", TRUE)
     \/ /\ IF Machine[e] \notin OtherArch /\ Authorised THEN Proceeds(e, "cached")
           ELSE Ends(e, "failed", TRUE)
        /\ UNCHANGED slips
  /\ UNCHANGED <<gitVars, inv, binary, verdict, history>>

Staged(e) == binary[Machine[e]]
Runnable(e) == Machine[e] \in WithIac \/ (Staged(e).whole /\ Staged(e).mode)
Writing(m) == {e \in Entry : task[e] = "scp" /\ Machine[e] = m}
Executing(m) == {e \in Entry : /\ task[e] \in {"running", "orphan"} /\ Machine[e] = m
                              /\ Job[Of[e]].kind # "run"}

\* test -x and --version: the upload is skipped; a call that fails counts as not
\* there.
CacheHit(e) ==
  /\ Joined(e) /\ task[e] = "cached"
  /\ \/ Slip /\ StepsTo(e, "copy")
     \/ /\ StepsTo(e, IF Runnable(e) /\ Writing(Machine[e]) = {} THEN "apply" ELSE "copy")
        /\ UNCHANGED slips
  /\ UNCHANGED <<gitVars, inv, aborted, outcome, binary, verdict, history>>

\* scp opens the file, which empties it and keeps its mode; a new one may have
\* the mode of the local file. A file that is being executed cannot be opened.
ScpBegins(e, x) ==
  /\ Joined(e) /\ task[e] = "copy"
  /\ IF Executing(Machine[e]) # {} THEN Ends(e, "failed", TRUE) /\ UNCHANGED binary
     ELSE /\ binary' = [binary EXCEPT ![Machine[e]] =
                          [whole |-> FALSE, mode |-> @.mode \/ x, by |-> e]]
          /\ Proceeds(e, "scp")
  /\ UNCHANGED <<gitVars, inv, verdict, history, slips>>

\* The file is whole when the one who opened it last is done.
ScpEnds(e) ==
  /\ Joined(e) /\ task[e] = "scp"
  /\ \/ Slip /\ Ends(e, "failed", TRUE) /\ UNCHANGED binary
     \/ /\ Proceeds(e, "chmod")
        /\ binary' = IF Staged(e).by = e THEN [binary EXCEPT ![Machine[e]].whole = TRUE] ELSE binary
        /\ UNCHANGED slips
  /\ UNCHANGED <<gitVars, inv, verdict, history>>

Chmod(e) ==
  /\ Joined(e) /\ task[e] = "chmod"
  /\ \/ Slip /\ Ends(e, "failed", TRUE) /\ UNCHANGED binary
     \/ /\ Proceeds(e, "apply")
        /\ binary' = [binary EXCEPT ![Machine[e]].mode = TRUE]
        /\ UNCHANGED slips
  /\ UNCHANGED <<gitVars, inv, verdict, history>>

\* dispatch_apply, dispatch_run: ssh starts the process; a binary that is not
\* whole, or being written, does not start, which ssh reports by its exit code.
SshStarts(e) ==
  /\ Joined(e) /\ task[e] = "apply"
  /\ \/ Slip /\ Ends(e, "failed", TRUE)
     \/ /\ IF Job[Of[e]].kind = "run" \/ (Runnable(e) /\ Writing(Machine[e]) = {})
           THEN Proceeds(e, "running") ELSE Ends(e, "failed", FALSE)
        /\ UNCHANGED slips
  /\ UNCHANGED <<gitVars, inv, binary, verdict, history>>

\* What the process on the machine ends with.
Verdicts(c) == {"succeeded", "failed"} \cup IF Job[c].kind = "run" THEN {} ELSE {"partial"}

\* The process has ended with v. What iac apply printed may be no result.
SshEnds(e, v) ==
  /\ Joined(e) /\ task[e] = "running"
  /\ verdict' = [verdict EXCEPT ![e] = v]
  /\ \/ Ends(e, v, FALSE) /\ UNCHANGED slips
     \/ Slip /\ Job[Of[e]].kind # "run" /\ Ends(e, "partial", FALSE)
  /\ UNCHANGED <<gitVars, inv, binary, history>>

\* The connection breaks: ssh fails, and the process on the machine goes on.
ConnectionLost(e) ==
  /\ Joined(e) /\ task[e] = "running" /\ Slip
  /\ task' = [task EXCEPT ![e] = "orphan"]
  /\ outcome' = [outcome EXCEPT ![e] = Kept(e, "failed", FALSE)]
  /\ aborted' = RaisedBy(e, "failed")
  /\ UNCHANGED <<gitVars, inv, binary, verdict, history>>

OrphanEnds(e, v) ==
  /\ task[e] = "orphan"
  /\ verdict' = [verdict EXCEPT ![e] = v] /\ StepsTo(e, "ended")
  /\ UNCHANGED <<gitVars, inv, aborted, outcome, binary, history, slips>>

\* A task that was skipped has no outcome.
Outcomes(c, s) == {e \in resolve(c) : outcome[e] = s}

ExitCode(c) ==
  IF Outcomes(c, "error") # {} THEN 1
  ELSE IF Outcomes(c, "failed") # {} THEN 5
  ELSE IF Outcomes(c, "partial") # {} THEN 4 ELSE 0

\* RunRecord::new, of what the tasks have kept.
RunRecord(c) ==
  [command |-> c, host_count |-> Cardinality({e \in resolve(c) : outcome[e] # "none"}),
   ok_count |-> Cardinality(Outcomes(c, "succeeded")),
   failed_count |-> Cardinality(Outcomes(c, "failed"))]

\* All handles are joined. No host at all is an error; a run leaves a line in
\* run-history.jsonl, if it can be written.
Leaves(c) ==
  /\ At(c, "fanout")
  /\ \A e \in resolve(c) : task[e] \in {"ended", "skipped", "orphan"}
  /\ inv' = [inv EXCEPT ![c].at = "over",
                        ![c].exit = IF resolve(c) = {} THEN 1 ELSE ExitCode(c)]
  /\ \/ Slip /\ Job[c].kind = "run" /\ UNCHANGED history
     \/ /\ history' = IF Job[c].kind = "run" /\ resolve(c) # {}
                      THEN Append(history, RunRecord(c)) ELSE history
        /\ UNCHANGED slips
  /\ UNCHANGED <<gitVars, sshVars>>

\* The operator stops the command: an upload is cut off, and what runs on a
\* machine goes on.
Interrupt(c) ==
  /\ inv[c].at # "over" /\ Slip
  /\ inv' = [inv EXCEPT ![c].at = "over", ![c].exit = 130]
  /\ task' = [e \in Entry |-> IF Of[e] # c \/ task[e] = "orphan" THEN task[e]
                              ELSE IF task[e] = "running" THEN "orphan" ELSE "ended"]
  /\ UNCHANGED <<gitVars, aborted, outcome, binary, verdict, history>>

\* Somebody pushes to the repository.
PushedTo(r) ==
  /\ remote[r] + 1 \in Commit
  /\ remote' = [remote EXCEPT ![r] = @ + 1]
  /\ UNCHANGED <<cache, fetched, mixed, inv, sshVars, history, slips>>

CommandLineNext ==
  \/ \E c \in Cmd :
       \/ GitFails(c) \/ LooksForClone(c) \/ GitInit(c) \/ RemoteAdd(c) \/ Fetch(c) \/ RevParse(c)
       \/ Checkout(c) \/ LoadManifests(c) \/ Spawn(c) \/ Leaves(c) \/ Interrupt(c)
  \/ \E e \in Entry :
       \/ LooksAtFlag(e) \/ GetsPermit(e) \/ probe_remote_iac(e) \/ bootstrap_iac_binary(e)
       \/ CacheHit(e) \/ ScpEnds(e) \/ Chmod(e) \/ SshStarts(e) \/ ConnectionLost(e)
       \/ \E x \in BOOLEAN : ScpBegins(e, x)
       \/ \E v \in Verdicts(Of[e]) : SshEnds(e, v) \/ OrphanEnds(e, v)
  \/ \E r \in DOMAIN remote : PushedTo(r)

CommandLineSpec == CommandLineInit /\ [][CommandLineNext]_cliVars

-----------------------------------------------------------------------------

\* The exit code can be relied on: with 0 every host the inventory and the limit
\* name has carried out the command with success ("0 - every host succeeded"),
\* though tasks were skipped, connections broke and two tasks staged the binary
\* on one machine; with the manifests that were fetched for it, as long as no
\* other invocation worked in the clone meanwhile; and run-history tells the
\* same as the exit code.
ExitCodeIsTrue ==
  /\ \A c \in Cmd : inv[c].exit = 0 /\ Job[c].kind # "plan" =>
       /\ \A e \in resolve(c) : verdict[e] = "succeeded"
       /\ Job[c].kind # "run" /\ c \notin mixed => inv[c].loaded = fetched[c]
  /\ \A i \in DOMAIN history :
       history[i].failed_count = 0 <=> inv[history[i].command].exit = 0

=============================================================================
