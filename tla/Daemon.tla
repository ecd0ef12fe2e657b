------------------------------- MODULE Daemon -------------------------------
(***************************************************************************)
(* The background loops of the server and of the agent: how a process      *)
(* stops, and how the agent follows its capabilities file.                 *)
(*                                                                         *)
(* A loop waits in a select! for its ticker or for Notify::notified().     *)
(* notify_waiters wakes whoever waits at that moment and leaves nothing    *)
(* for those who come later.                                               *)
(***************************************************************************)
EXTENDS Naturals, Sequences

CONSTANTS
  Stops,     \* the loops main stops, in order: a sequence of sets
  Version,   \* contents of the capabilities file; 0 is no rules at all
  Broken,    \* those that do not parse or compile
  Rules,     \* [Version -> [deny, allow]]: the resources a content's patterns match
  Assigned,  \* the sets of resources the server assigns
  MaxEdit    \* bound: changes of the file

ASSUME DaemonAssumption ==
  /\ Stops \in Seq(SUBSET STRING) /\ Version \subseteq Nat \ {0} /\ Broken \subseteq Version
  /\ DOMAIN Rules = Version \ Broken
  /\ MaxEdit \in Nat

VARIABLES
  main,      \* 0 while serving; i while Stops[i] is awaited; then down
  loop,      \* [loop -> "waiting", "busy" or "stopped"]
  file,      \* the capabilities file: its content, 0 when removed, and mtime
  boot,      \* "load", "baseline", then "watch"
  seen,      \* last_seen_mtime
  caps,      \* the allowlist in force, 0 for none
  plan,      \* resources that passed the check and are not applied yet
  \* History of the run:
  early,     \* the file was changed between load and baseline
  bound,     \* the agent started with an allowlist
  applied    \* [resources of an assignment |-> those of it that were applied]

stopVars == <<main, loop>>
capsVars == <<file, boot, seen, caps, plan, early, bound, applied>>
daemonVars == <<stopVars, capsVars>>

Loops == UNION {Stops[i] : i \in DOMAIN Stops}

DaemonInit ==
  /\ main = 0 /\ loop = [l \in Loops |-> "waiting"]
  /\ \E v \in Version \cup {0} : file = [v |-> v, mtime |-> IF v = 0 THEN 0 ELSE 1, edits |-> 0]
  /\ boot = "load" /\ seen = 0 /\ caps = 0
  /\ early = FALSE /\ bound = FALSE
  /\ plan = {} /\ applied = {}

-----------------------------------------------------------------------------
(* Stopping                                                                *)

\* A tick, or a claimed assignment: prune_once, tick_once, process_assignment,
\* observe_once run inside the select!'s branch.
Tick(l) ==
  /\ loop[l] = "waiting"
  /\ loop' = [loop EXCEPT ![l] = "busy"]
  /\ UNCHANGED <<main, capsVars>>

TickEnds(l) ==
  /\ loop[l] = "busy"
  /\ loop' = [loop EXCEPT ![l] = "waiting"]
  /\ UNCHANGED <<main, capsVars>>

\* notify_waiters on the loops of the next stage, and their handles awaited;
\* the first stage begins when SIGTERM or SIGINT has ended the listener.
notify_waiters ==
  /\ main < Len(Stops)
  /\ main # 0 => \A l \in Stops[main] : loop[l] = "stopped"
  /\ main' = main + 1
  /\ loop' = [l \in Loops |-> IF l \in Stops[main + 1] /\ loop[l] = "waiting"
                              THEN "stopped" ELSE loop[l]]
  /\ UNCHANGED capsVars

Down == main = Len(Stops) /\ \A l \in Loops : loop[l] = "stopped"

-----------------------------------------------------------------------------
(* Capabilities                                                            *)

\* Agent::new loads the file (a broken one ends the process); the watcher
\* takes its baseline when the loop starts.
CapsLoad ==
  /\ boot = "load" /\ file.v \notin Broken
  /\ caps' = file.v
  /\ bound' = (file.v # 0)
  /\ boot' = "baseline"
  /\ UNCHANGED <<stopVars, file, seen, plan, early, applied>>

CapsBaseline ==
  /\ boot = "baseline"
  /\ seen' = file.mtime
  /\ boot' = "watch"
  /\ UNCHANGED <<stopVars, file, caps, plan, early, bound, applied>>

\* Mutant: no file, no restrictions.
Reloaded_Removed == IF file.v \in Broken THEN caps ELSE file.v

\* Mutant: a file is read once.
Reloaded_Once == IF caps # 0 \/ file.v = 0 \/ file.v \in Broken THEN caps ELSE file.v

\* A removed or broken file leaves the allowlist as it is.
Reloaded == IF file.v = 0 \/ file.v \in Broken THEN caps ELSE file.v

\* capabilities_watcher_loop: one look at the mtime, once per change.
capabilities_watcher_loop ==
  /\ boot = "watch" /\ file.mtime # seen
  /\ seen' = file.mtime
  /\ caps' = Reloaded
  /\ UNCHANGED <<stopVars, file, boot, plan, early, bound, applied>>

\* The operator replaces or removes the file; every write has its own mtime.
Edit(v) ==
  /\ file.edits < MaxEdit /\ v # file.v
  /\ file' = [v |-> v, mtime |-> IF v = 0 THEN 0 ELSE file.edits + 2,
              edits |-> file.edits + 1]
  /\ early' = (early \/ boot = "baseline")
  /\ UNCHANGED <<stopVars, boot, seen, caps, plan, bound, applied>>

\* Capabilities::check: deny goes first, an empty allow is no restriction. No
\* file, no check.
check(v, r) ==
  v = 0 \/ (r \notin Rules[v].deny /\ (Rules[v].allow = {} \/ r \in Rules[v].allow))

\* Mutant: what is denied is left out, the rest of the assignment goes on.
Passes_Filtered(rs) == {r \in rs : check(caps, r)}

\* execute_assignment refuses an assignment with one denied resource.
Passes(rs) == IF \A r \in rs : check(caps, r) THEN rs ELSE {}

\* enforce_capabilities, against the allowlist of that moment; the executor
\* then works through what passed.
execute_assignment(rs) ==
  /\ boot # "load" /\ plan = {} /\ Passes(rs) # {}
  /\ plan' = Passes(rs)
  /\ applied' = {}
  /\ UNCHANGED <<stopVars, file, boot, seen, caps, early, bound>>

ApplyOne(r) ==
  /\ r \in plan
  /\ plan' = plan \ {r}
  /\ applied' = applied \cup {r}
  /\ UNCHANGED <<stopVars, file, boot, seen, caps, early, bound>>

\* The agent is restarted.
Restart ==
  /\ boot = "watch" /\ file.edits < MaxEdit
  /\ boot' = "load" /\ seen' = 0 /\ caps' = 0 /\ early' = FALSE /\ bound' = FALSE
  /\ plan' = {} /\ applied' = {}
  /\ file' = [file EXCEPT !.edits = @ + 1]
  /\ UNCHANGED stopVars

CapsSteps == CapsLoad \/ CapsBaseline \/ capabilities_watcher_loop

StopNext == \E l \in Loops : Tick(l) \/ TickEnds(l)
CapsNext ==
  \/ CapsSteps \/ Restart
  \/ \E rs \in Assigned : execute_assignment(rs)
  \/ \E r \in UNION Assigned : ApplyOne(r)
  \/ \E v \in Version \cup {0} : Edit(v)

DaemonSpec == DaemonInit /\ [][CapsNext \/ StopNext \/ notify_waiters]_daemonVars

-----------------------------------------------------------------------------

\* Once main has begun to stop the loops it ends: "each worker will drain its
\* current iteration and then exit on the next loop check" (main, run_worker).
ShutdownEnds == (main > 0) ~> Down

\* An agent that started with an allowlist never applies what no version of
\* the file allows, whatever becomes of the file, and of an assignment it
\* applies all or nothing that one allowlist lets through (enforce_capabilities,
\* capabilities_watcher_loop).
AllowlistHolds ==
  bound => \A rs \in {plan \cup applied} \ {{}} :
             /\ rs \in Assigned
             /\ \E v \in Version \ Broken : \A r \in rs : check(v, r)

\* The rules of the file are followed: AllowlistHolds all along, and in the end
\* the rules in force are those of the file, if it is there and sound and was
\* not changed while the agent started (capabilities_watcher_loop).
AllowlistFollowsFile ==
  /\ []AllowlistHolds
  /\ <>[](early \/ boot = "load" \/ file.v \in Broken \cup {0} \/ caps = file.v)

=============================================================================
