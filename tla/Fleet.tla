-------------------------------- MODULE Fleet --------------------------------
(***************************************************************************)
(* The pull agents of iac-agent around the control plane of module         *)
(* Rollout: drain_assignments (agent.rs), its replay table (store.rs) and  *)
(* its HTTP client (remote.rs), with an unreliable network in between.     *)
(*                                                                         *)
(* An agent runs one drain at a time. It polls, verifies the whole batch,  *)
(* then takes the envelopes one by one: look the id up in                  *)
(* processed_assignments, execute, record the outcome there, report it. It *)
(* may crash between any two of these, keeping only the table, and its     *)
(* requests time out while the server is still working on them.            *)
(*                                                                         *)
(* SSH targets have no agent; their rows stay where they are here.         *)
(***************************************************************************)
EXTENDS Rollout

CONSTANTS
  NoPoll, NoRow, NoResult,
  MaxCrash,      \* bound: crashes of agents
  MaxDbFault,    \* bound: failures of an agent's replay table
  EnvelopesAge   \* whether IAC_AGENT_MAX_ENVELOPE_AGE_SECS may pass

ASSUME FleetAssumption ==
  /\ NoPoll \notin Poll /\ NoRow \notin Row /\ NoResult \notin Result
  /\ MaxCrash \in Nat /\ MaxDbFault \in Nat /\ EnvelopesAge \in BOOLEAN

VARIABLES
  waiting,    \* the poll an agent waits for
  queue,      \* envelopes of the current drain not handled yet
  work,       \* the envelope in hand: its row, how far it is, its outcome
  processed,  \* processed_assignments: persistent
  net,        \* reports on their way to the server
  stale,      \* rows created longer ago than agents accept
  applied,    \* history: how often a row was executed
  outcomes,   \* history: what executions of a row ended with
  crashes,    \* history: crashes so far
  dbFaults    \* history: lookups and inserts that failed so far

agentVars == <<waiting, queue, work, processed, net, stale, applied, outcomes,
               crashes, dbFaults>>
fleetVars == <<vars, agentVars>>

\* An envelope in hand, how far it is and its outcome.
InHand(r, step, status) == [row |-> r, step |-> step, status |-> status]

\* Between two envelopes.
NoWork == InHand(NoRow, "none", NoResult)

Step == {"none", "executing", "executed", "reporting"}

FleetTypeOK ==
  /\ TypeOK
  /\ waiting \in [Agent -> Poll \cup {NoPoll}]
  /\ queue \in [Agent -> SUBSET Row]
  /\ work \in [Agent -> [row : Row \cup {NoRow}, step : Step,
                         status : Result \cup {NoResult}]]
  /\ processed \in [Row -> Result \cup {NoResult}]
  /\ net \subseteq Row \X Result
  /\ stale \subseteq Row
  /\ applied \in [Row -> Nat]
  /\ outcomes \in [Row -> SUBSET Result]
  /\ crashes \in 0..MaxCrash
  /\ dbFaults \in 0..MaxDbFault

FleetInit ==
  /\ Init
  /\ waiting = [a \in Agent |-> NoPoll]
  /\ queue = [a \in Agent |-> {}]
  /\ work = [a \in Agent |-> NoWork]
  /\ processed = [r \in Row |-> NoResult]
  /\ net = {}
  /\ stale = {}
  /\ applied = [r \in Row |-> 0]
  /\ outcomes = [r \in Row |-> {}]
  /\ crashes = 0
  /\ dbFaults = 0

(***************************************************************************)
(* The poll                                                                *)
(***************************************************************************)

\* Nothing is left of the last drain.
Free(a) == waiting[a] = NoPoll /\ queue[a] = {} /\ work[a] = NoWork

\* fetch_assignments: the request reaches the server.
PollServer(a, p) ==
  /\ Free(a)
  /\ fetch_pending_assignments(p, a)
  /\ waiting' = [waiting EXCEPT ![a] = p]
  /\ UNCHANGED <<queue, work, processed, net, stale, applied, outcomes,
                 crashes, dbFaults>>

\* The client's timeout. The server does not notice.
PollTimesOut(a) ==
  /\ waiting[a] # NoPoll
  /\ waiting' = [waiting EXCEPT ![a] = NoPoll]
  /\ UNCHANGED <<vars, queue, work, processed, net, stale, applied, outcomes,
                 crashes, dbFaults>>

\* verify_envelope and check_envelope_freshness: one envelope that is too old
\* makes fetch_assignments fail for the whole batch.
Refused(rows) == rows \cap stale # {}

\* The answer arrives: the agent takes the batch or refuses it.
TakeBatch(a) ==
  LET p == waiting[a] IN
  /\ p # NoPoll
  /\ ~Refused(polls[p].rows)
  /\ ShipAssignments(p)
  /\ queue' = [queue EXCEPT ![a] = polls[p].rows]
  /\ waiting' = [waiting EXCEPT ![a] = NoPoll]
  /\ UNCHANGED <<work, processed, net, stale, applied, outcomes, crashes,
                 dbFaults>>

\* Mutant: the failure is logged and the batch used.
RefuseBatch_WarnOnly(a) ==
  LET p == waiting[a] IN
  /\ p # NoPoll
  /\ Refused(polls[p].rows)
  /\ LoseAnswer(p)
  /\ queue' = [queue EXCEPT ![a] = polls[p].rows]
  /\ waiting' = [waiting EXCEPT ![a] = NoPoll]
  /\ UNCHANGED <<work, processed, net, stale, applied, outcomes, crashes,
                 dbFaults>>

RefuseBatch(a) ==
  LET p == waiting[a] IN
  /\ p # NoPoll
  /\ Refused(polls[p].rows)
  /\ LoseAnswer(p)
  /\ waiting' = [waiting EXCEPT ![a] = NoPoll]
  /\ UNCHANGED <<queue, work, processed, net, stale, applied, outcomes,
                 crashes, dbFaults>>

\* The server gives the claims back and answers with an error, or the answer is
\* lost: whoever still waits for it stops waiting.
EndPoll(p) ==
  /\ revert_assignment_claims(p) \/ LoseAnswer(p)
  /\ waiting' = [a \in Agent |-> IF waiting[a] = p THEN NoPoll ELSE waiting[a]]
  /\ UNCHANGED <<queue, work, processed, net, stale, applied, outcomes,
                 crashes, dbFaults>>

(***************************************************************************)
(* One envelope                                                            *)
(***************************************************************************)

\* The order of the batch is by created_at, which the rows of an operation
\* share and which says nothing of layers: any envelope may be next.
Next1(a, r) == waiting[a] = NoPoll /\ work[a] = NoWork /\ r \in queue[a]

\* Mutant: a known assignment is skipped without a word.
ReplayKnown_Silent(a, r) ==
  /\ Next1(a, r)
  /\ processed[r] # NoResult
  /\ queue' = [queue EXCEPT ![a] = @ \ {r}]
  /\ UNCHANGED <<vars, waiting, work, processed, net, stale, applied, outcomes,
                 crashes, dbFaults>>

\* Mutant: a known assignment counts as done.
ReplayKnown_Succeeded(a, r) ==
  /\ Next1(a, r)
  /\ processed[r] # NoResult
  /\ queue' = [queue EXCEPT ![a] = @ \ {r}]
  /\ work' = [work EXCEPT ![a] = InHand(r, "reporting", "succeeded")]
  /\ UNCHANGED <<vars, waiting, processed, net, stale, applied, outcomes,
                 crashes, dbFaults>>

\* assignment_already_processed found the id: the recorded status is reported
\* again and nothing is executed.
ReplayKnown(a, r) ==
  /\ Next1(a, r)
  /\ processed[r] # NoResult
  /\ queue' = [queue EXCEPT ![a] = @ \ {r}]
  /\ work' = [work EXCEPT ![a] = InHand(r, "reporting", processed[r])]
  /\ UNCHANGED <<vars, waiting, processed, net, stale, applied, outcomes,
                 crashes, dbFaults>>

\* Mutant: the replay table is not asked.
Execute_NoLookup(a, r) ==
  /\ Next1(a, r)
  /\ queue' = [queue EXCEPT ![a] = @ \ {r}]
  /\ work' = [work EXCEPT ![a] = InHand(r, "executing", NoResult)]
  /\ applied' = [applied EXCEPT ![r] = @ + 1]
  /\ UNCHANGED <<vars, waiting, processed, net, stale, outcomes, crashes,
                 dbFaults>>

\* The id is new, or the lookup failed and the agent proceeds without it.
Execute(a, r) ==
  /\ Next1(a, r)
  /\ \/ processed[r] = NoResult /\ UNCHANGED dbFaults
     \/ dbFaults < MaxDbFault /\ dbFaults' = dbFaults + 1
  /\ queue' = [queue EXCEPT ![a] = @ \ {r}]
  /\ work' = [work EXCEPT ![a] = InHand(r, "executing", NoResult)]
  /\ applied' = [applied EXCEPT ![r] = @ + 1]
  /\ UNCHANGED <<vars, waiting, processed, net, stale, outcomes, crashes>>

\* execute_assignment returns: whatever the executor did, or "failed" for a
\* denied capability, an unknown kind, a payload that does not decode.
Executed(a, result) ==
  /\ work[a].step = "executing"
  /\ work' = [work EXCEPT ![a] = InHand(work[a].row, "executed", result)]
  /\ outcomes' = [outcomes EXCEPT ![work[a].row] = @ \cup {result}]
  /\ UNCHANGED <<vars, waiting, queue, processed, net, stale, applied, crashes,
                 dbFaults>>

\* INSERT OR IGNORE: the first status recorded for an id stays. A failing
\* insert is logged and the report goes out all the same.
mark_assignment_processed(a) ==
  LET r == work[a].row IN
  /\ work[a].step = "executed"
  /\ \/ /\ processed' = [processed EXCEPT ![r] =
                           IF @ = NoResult THEN work[a].status ELSE @]
        /\ UNCHANGED dbFaults
     \/ /\ dbFaults < MaxDbFault
        /\ dbFaults' = dbFaults + 1
        /\ UNCHANGED processed
  /\ work' = [work EXCEPT ![a] = InHand(work[a].row, "reporting", work[a].status)]
  /\ UNCHANGED <<vars, waiting, queue, net, stale, applied, outcomes, crashes>>

\* report_assignment. The agent waits for the answer or for its timeout and
\* goes on either way, whatever became of the report.
report_assignment(a) ==
  /\ work[a].step = "reporting"
  /\ net' = net \cup {<<work[a].row, work[a].status>>}
  /\ work' = [work EXCEPT ![a] = NoWork]
  /\ UNCHANGED <<vars, waiting, queue, processed, stale, applied, outcomes,
                 crashes, dbFaults>>

\* The report reaches assignment_result. A row that is not pending or fetched
\* any more is answered 404, which changes nothing.
DeliverReport(m) ==
  /\ m \in net
  /\ \/ RecordResult(m[1], m[2])
     \/ asg[m[1]] \notin {"pending", "fetched"} /\ UNCHANGED vars
  /\ net' = net \ {m}
  /\ UNCHANGED <<waiting, queue, work, processed, stale, applied, outcomes,
                 crashes, dbFaults>>

LoseReport(m) ==
  /\ m \in net
  /\ net' = net \ {m}
  /\ UNCHANGED <<vars, waiting, queue, work, processed, stale, applied, outcomes,
                 crashes, dbFaults>>

\* The agent stops, at any point of its loop, and starts again.
CrashAgent(a) ==
  /\ crashes < MaxCrash
  /\ ~Free(a)
  /\ crashes' = crashes + 1
  /\ waiting' = [waiting EXCEPT ![a] = NoPoll]
  /\ queue' = [queue EXCEPT ![a] = {}]
  /\ work' = [work EXCEPT ![a] = NoWork]
  /\ UNCHANGED <<vars, processed, net, stale, applied, outcomes, dbFaults>>

\* A day passes. created_at is the time of the submit or the approval: a row
\* held back by a gate ages like any other.
EnvelopeAges(r) ==
  /\ EnvelopesAge
  /\ asg[r] # "absent"
  /\ r \notin stale
  /\ stale' = stale \cup {r}
  /\ UNCHANGED <<vars, waiting, queue, work, processed, net, applied, outcomes,
                 crashes, dbFaults>>

(***************************************************************************)
(* Specification                                                           *)
(***************************************************************************)

\* Steps of the control plane on its own.
ServerStep ==
  /\ \/ \E a \in Agent : register_agent(a)
     \/ \E o \in Op, m \in Manifest, ra \in BOOLEAN,
           spec \in CanarySpec \cup {NoCanary} : create_operation(o, m, ra, spec)
     \/ \E o \in Op : approve_operation(o) \/ reject_operation(o)
     \/ \E r \in Row : LeaseExpires(r)
  /\ UNCHANGED agentVars

FleetNext ==
  \/ ServerStep
  \/ \E p \in Poll : EndPoll(p)
  \/ \E a \in Agent :
       \/ \E p \in Poll : PollServer(a, p)
       \/ PollTimesOut(a) \/ TakeBatch(a) \/ RefuseBatch(a)
       \/ \E r \in Row : ReplayKnown(a, r) \/ Execute(a, r)
       \/ \E result \in Result : Executed(a, result)
       \/ mark_assignment_processed(a) \/ report_assignment(a)
       \/ CrashAgent(a)
  \/ \E m \in Row \X Result : DeliverReport(m) \/ LoseReport(m)
  \/ \E r \in Row : EnvelopeAges(r)

FleetSpec == FleetInit /\ [][FleetNext]_fleetVars

\* Agents poll for ever, and every request ends (a timeout is one end); batches
\* and reports get through again and again; an agent that is up works its queue
\* off; leases run out.
FleetFairness ==
  /\ \A a \in Agent :
       /\ SF_fleetVars(\E p \in Poll : PollServer(a, p))
       /\ SF_fleetVars(TakeBatch(a))
       /\ WF_fleetVars(RefuseBatch(a))
       /\ WF_fleetVars(\E r \in Row : ReplayKnown(a, r) \/ Execute(a, r))
       /\ WF_fleetVars(\E result \in Result : Executed(a, result))
       /\ WF_fleetVars(mark_assignment_processed(a))
       /\ WF_fleetVars(report_assignment(a))
  /\ \A r \in Row :
       /\ WF_fleetVars(LeaseExpires(r) /\ UNCHANGED agentVars)
       /\ SF_fleetVars(\E result \in Result : DeliverReport(<<r, result>>))
  /\ \A p \in Poll : WF_fleetVars(EndPoll(p))

FairFleetSpec == FleetSpec /\ FleetFairness

(***************************************************************************)
(* Properties                                                              *)
(***************************************************************************)

\* drain_assignments and list_assignments: the fleet implements module Rollout;
\* in particular agents report only rows they were handed, whatever times out,
\* crashes or is refused. The gates shown there hold for the fleet.
ImplementsRollout == Spec

\* assignment_already_processed and mark_assignment_processed: a row is executed
\* a second time only after a crash that lost the record of the first, or a
\* failure of the table; leases that run out and lost reports do not repeat it.
AppliedOncePerFault ==
  \A r \in Row : applied[r] <= 1 + crashes + dbFaults

\* report_assignment, re-reports included: the result the server keeps is one
\* that an execution on the host had, and the one in the agent's table as long
\* as the table works.
ResultsAreReal ==
  \A r \in Row : asg[r] \in Result =>
    /\ asg[r] \in outcomes[r]
    /\ dbFaults = 0 => asg[r] = processed[r]

\* Phased apply, seen from the hosts: when a host has touched a row, every row
\* of a lower layer has been executed with success, and none of them is being
\* executed again (for operations without holes; a replay table that fails
\* allows the latter).
LayersOnHosts ==
  \A o \in Op : Contiguous(o) =>
    \A q, r \in Rows(o) : LayerOf(q) < LayerOf(r) /\ applied[r] > 0 =>
      /\ "succeeded" \in outcomes[q]
      /\ dbFaults = 0 =>
           \A a \in Agent : work[a].row = q => work[a].step # "executing"

\* drain_assignments: "the operation doesn't sit pending forever". Operations
\* without holes finish through crashes, timeouts and lost reports.
FleetSettles ==
  \A o \in Op :
    (opStatus[o] = "pending" /\ Contiguous(o)) ~> (opStatus[o] \in OpFinished)

=============================================================================
