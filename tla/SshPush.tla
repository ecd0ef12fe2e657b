------------------------------- MODULE SshPush ------------------------------
(***************************************************************************)
(* Pushing assignments to one SSH target: the server's worker claims a row,*)
(* pipes its payload to `iac apply --assignment-stdin` on the host, and    *)
(* reports what the host answered.  The host keeps no record of what it    *)
(* was sent, so what is pushed twice is applied twice.                     *)
(*                                                                         *)
(* A target has one worker per server process; processes that share a      *)
(* database each have one.                                                 *)
(***************************************************************************)
EXTENDS Naturals, FiniteSets, FiniteSetsExt

CONSTANTS
  Job,        \* assignments of the target, numbered by created_at
  Pusher,     \* workers
  Barred,     \* jobs with a kind the target's capabilities do not list
  MaxFault    \* bound: failures and stops

ASSUME SshPushAssumption ==
  /\ Job \subseteq Nat \ {0} /\ Barred \subseteq Job /\ MaxFault \in Nat
  /\ IsFiniteSet(Pusher)

VARIABLES
  job,      \* [Job -> assignments.status]
  lapsed,   \* fetched jobs whose lease ran out
  worker,   \* [Pusher -> where it is, with which job, and the answer it got]
  running,  \* [Job -> applies of it that run on the host]
  faults,
  \* History of the run:
  ran,      \* [Job -> applies of it that were started]
  ended,    \* [Job -> verdicts of the applies of it that ended]
  cuts      \* [Job -> times a worker lost hold of it, or its lease ran out]

pushVars == <<job, lapsed, worker, running, faults, ran, ended, cuts>>

Verdict == {"succeeded", "partially_applied", "failed"}
Free == [at |-> "free", job |-> 0, answer |-> "none"]

SshPushInit ==
  /\ job = [j \in Job |-> "pending"]
  /\ lapsed = {}
  /\ worker = [k \in Pusher |-> Free]
  /\ running = [j \in Job |-> 0] /\ ran = [j \in Job |-> 0] /\ cuts = [j \in Job |-> 0]
  /\ ended = [j \in Job |-> {}]
  /\ faults = 0

Fault == faults < MaxFault /\ faults' = faults + 1
Bump(f, j) == [f EXCEPT ![j] = @ + 1]
Goto(k, at, j, answer) ==
  worker' = [worker EXCEPT ![k] = [at |-> at, job |-> j, answer |-> answer]]

-----------------------------------------------------------------------------

\* Mutant: a fetched row is taken again whatever its lease.
Claimable_NoLease == {j \in Job : job[j] \in {"pending", "fetched"}}

\* Mutant: a fetched row is never taken again.
Claimable_Pending == {j \in Job : job[j] = "pending"}

\* Rows a claim may take: pending, or fetched with the lease run out.
Claimable == {j \in Job : job[j] = "pending" \/ (job[j] = "fetched" /\ j \in lapsed)}

\* claim_ssh_pending takes the oldest. The claim is given up on when it takes
\* longer than IDLE_POLL_INTERVAL: committed or not, nobody has the job then.
claim_ssh_pending(k, late) ==
  /\ worker[k].at = "free" /\ Claimable # {}
  /\ LET j == Min(Claimable) IN
     /\ job' = [job EXCEPT ![j] = "fetched"]
     /\ lapsed' = lapsed \ {j}
     /\ IF late THEN Fault /\ cuts' = Bump(cuts, j) /\ UNCHANGED worker
        ELSE Goto(k, "claimed", j, "none") /\ UNCHANGED <<faults, cuts>>
  /\ UNCHANGED <<running, ran, ended>>

\* process_assignment, up to the push: a barred kind is reported as a failure,
\* an ssh that cannot be spawned or fed is only logged, one that ends in an
\* error is a failure, and otherwise the host starts to apply.
Refused(k) ==
  /\ worker[k].at = "claimed" /\ worker[k].job \in Barred
  /\ Goto(k, "report", worker[k].job, "failed")
  /\ UNCHANGED <<job, lapsed, running, faults, ran, ended, cuts>>

NotSpawned(k) ==
  /\ worker[k].at = "claimed" /\ worker[k].job \notin Barred
  /\ Fault
  /\ worker' = [worker EXCEPT ![k] = Free]
  /\ cuts' = Bump(cuts, worker[k].job)
  /\ UNCHANGED <<job, lapsed, running, ran, ended>>

NotConnected(k) ==
  /\ worker[k].at = "claimed" /\ worker[k].job \notin Barred
  /\ Fault
  /\ Goto(k, "report", worker[k].job, "failed")
  /\ UNCHANGED <<job, lapsed, running, ran, ended, cuts>>

Pushed(k) ==
  LET j == worker[k].job IN
  /\ worker[k].at = "claimed" /\ j \notin Barred
  /\ running' = Bump(running, j) /\ ran' = Bump(ran, j)
  /\ Goto(k, "pushing", j, "none")
  /\ UNCHANGED <<job, lapsed, faults, ended, cuts>>

\* What the worker makes of an ssh that exited with 0: the verdict in its
\* output, or "something probably ran" when that cannot be read.
Answer(v, readable) == IF readable THEN v ELSE "partially_applied"

\* cmd_apply_assignment_stdin on the host ends with a verdict and prints it; a
\* worker that still waits for it reads it.
cmd_apply_assignment_stdin(j, v, readable) ==
  /\ running[j] > 0
  /\ readable \/ faults < MaxFault
  /\ faults' = IF readable THEN faults ELSE faults + 1
  /\ running' = [running EXCEPT ![j] = @ - 1]
  /\ ended' = [ended EXCEPT ![j] = @ \cup {v}]
  /\ \/ \E k \in Pusher : worker[k].at = "pushing" /\ worker[k].job = j
                          /\ Goto(k, "report", j, Answer(v, readable))
     \/ Cardinality({k \in Pusher : worker[k].at = "pushing" /\ worker[k].job = j}) < running[j]
        /\ UNCHANGED worker
  /\ UNCHANGED <<job, lapsed, ran, cuts>>

\* MAX_PUSH_DURATION passes, or the connection breaks: ssh is gone, reported as
\* a failure, while the host goes on.
PushCutOff(k) ==
  /\ worker[k].at = "pushing"
  /\ Fault
  /\ Goto(k, "report", worker[k].job, "failed")
  /\ UNCHANGED <<job, lapsed, running, ran, ended, cuts>>

\* report_result and complete_assignment_with_extra_audit: refused (404) for a
\* row that has a result. A report that fails is only logged.
report_result(k, stored) ==
  LET j == worker[k].job IN
  /\ worker[k].at = "report"
  /\ IF stored THEN UNCHANGED <<faults, cuts>> ELSE Fault /\ cuts' = Bump(cuts, j)
  /\ IF stored /\ job[j] = "fetched"
     THEN job' = [job EXCEPT ![j] = worker[k].answer] /\ lapsed' = lapsed \ {j}
     ELSE UNCHANGED <<job, lapsed>>
  /\ worker' = [worker EXCEPT ![k] = Free]
  /\ UNCHANGED <<running, ran, ended>>

\* The server process stops and starts again; what runs on the host goes on.
ServerRestarts(k) ==
  /\ worker[k].at # "free"
  /\ Fault
  /\ cuts' = Bump(cuts, worker[k].job)
  /\ worker' = [worker EXCEPT ![k] = Free]
  /\ UNCHANGED <<job, lapsed, running, ran, ended>>

\* assignment_lease_secs (60 s) pass without a result; a push may take 300 s.
LeaseLapses(j) ==
  /\ job[j] = "fetched" /\ j \notin lapsed
  /\ lapsed' = lapsed \cup {j}
  /\ IF \E k \in Pusher : worker[k].job = j
     THEN Fault /\ cuts' = Bump(cuts, j)
     ELSE UNCHANGED <<faults, cuts>>
  /\ UNCHANGED <<job, worker, running, ran, ended>>

WorkerSteps(k) ==
  \/ claim_ssh_pending(k, FALSE) \/ Refused(k) \/ Pushed(k) \/ report_result(k, TRUE)

HostSteps == \E j \in Job, v \in Verdict, b \in BOOLEAN : cmd_apply_assignment_stdin(j, v, b)

SshPushNext ==
  \/ \E k \in Pusher : \/ WorkerSteps(k)
                       \/ claim_ssh_pending(k, TRUE) \/ NotSpawned(k) \/ NotConnected(k)
                       \/ PushCutOff(k) \/ report_result(k, FALSE) \/ ServerRestarts(k)
  \/ HostSteps
  \/ \E j \in Job : LeaseLapses(j)

SshPushSpec == SshPushInit /\ [][SshPushNext]_pushVars

-----------------------------------------------------------------------------

\* A job is started on the host once, and once more for every time a worker
\* lost it after its claim or its lease ran out under the push: a second claim
\* never comes out of nothing. A job with a barred kind never starts, and one
\* that is recorded as succeeded did succeed on the host, whichever push it was
\* (claim_ssh_pending, process_assignment, report_result).
RecordMatchesHost ==
  \A j \in Job : /\ ran[j] <= 1 + cuts[j]
                 /\ j \in Barred => ran[j] = 0
                 /\ job[j] = "succeeded" => "succeeded" \in ended[j]

\* Every job gets a result in the end, whatever was lost before
\* (run_worker, claim_ssh_pending).
JobsSettle == <>(\A j \in Job : job[j] \in Verdict)

=============================================================================
