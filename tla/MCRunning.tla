----------------------------- MODULE MCRunning ------------------------------
(***************************************************************************)
(* What runs by itself: drift reports, SSH pushes and the processes' own   *)
(* loops.  They have no state in common: part says which of them a         *)
(* behaviour is about.                                                     *)
(***************************************************************************)
EXTENDS Drift, SshPush, Daemon

CONSTANT Parts

VARIABLE part

ServerLoops == <<{"retention"}, {"webhook"}, {"ssh1", "ssh2"}>>

MCRules == [v \in {1, 2} |-> IF v = 1 THEN [deny |-> {"shadow"}, allow |-> {}]
                             ELSE [deny |-> {}, allow |-> {"motd", "issue"}]]
MCAssigned == {{"motd", "issue"}, {"motd", "shadow"}, {"motd", "hosts"}}

RunningVars == <<driftVars, pushVars, daemonVars, part>>

RunningInit ==
  /\ part \in Parts
  /\ DriftInit /\ SshPushInit /\ DaemonInit
  /\ part # "drift" => scoped = {} /\ room = 2
  /\ part # "capabilities" => file.v = 0

RunningNext ==
  /\ \/ part = "drift" /\ DriftNext /\ UNCHANGED <<pushVars, daemonVars>>
     \/ part = "push" /\ SshPushNext /\ UNCHANGED <<driftVars, daemonVars>>
     \/ part = "capabilities" /\ CapsNext /\ UNCHANGED <<driftVars, pushVars>>
     \/ part = "stop" /\ (StopNext \/ notify_waiters) /\ UNCHANGED <<driftVars, pushVars>>
  /\ UNCHANGED part

\* A part that rests owes no steps. The agent's cycle is a timer loop, the
\* server's handlers and the workers run to their end, the host's apply ends,
\* time passes, the watcher ticks and main goes on.
InDrift(A) == part = "drift" /\ A /\ UNCHANGED <<pushVars, daemonVars, part>>
InPush(A) == part = "push" /\ A /\ UNCHANGED <<driftVars, daemonVars, part>>
InDaemon(p, A) == part = p /\ A /\ UNCHANGED <<driftVars, pushVars, part>>

RunningSpec ==
  /\ RunningInit /\ [][RunningNext]_RunningVars
  /\ WF_RunningVars(InDrift(AgentSteps))
  /\ WF_RunningVars(InDrift(ServerSteps))
  /\ WF_RunningVars(InDrift(IgnoreEnds))
  /\ \A k \in Pusher : WF_RunningVars(InPush(WorkerSteps(k)))
  /\ WF_RunningVars(InPush(HostSteps))
  /\ \A j \in Job : WF_RunningVars(InPush(LeaseLapses(j)))
  /\ WF_RunningVars(InDaemon("capabilities", CapsSteps))
  /\ \A l \in Loops : WF_RunningVars(InDaemon("stop", TickEnds(l)))
  /\ WF_RunningVars(InDaemon("stop", notify_waiters))

\* The server's view of the agent's resources catches up with the host, as far as
\* it fits in requests (CatchesUp: observe_once, push_observations, push_drift).
DriftCatchesUp == part = "drift" => CatchesUp

\* Every assignment pushed to an SSH target gets a result in the end, whatever
\* was lost before (run_worker, claim_ssh_pending, process_assignment).
PushesSettle == part = "push" => JobsSettle

=============================================================================
