-------------------------------- MODULE Drift -------------------------------
(***************************************************************************)
(* Drift of one agent's resources: the agent's observe cycle and its       *)
(* tables of observations and open drift, the push of observations in      *)
(* chunks, the push of drift in one request that replaces what the server  *)
(* shows unless it is too large and refused, the server's handler in its   *)
(* two transactions, and what operators do to the rows.  A push that times *)
(* out at the agent is still handled: pushes can overlap.                  *)
(***************************************************************************)
EXTENDS Naturals, FiniteSets

CONSTANTS
  Thing,     \* resources
  Local,     \* those of the agent's own manifests
  Foreign,   \* those whose environment is not the agent's
  Engine,    \* "sqlite" or "postgres"
  Body,      \* how many observations fit in max_body_bytes
  Huge,      \* resources whose observation alone does not
  DriftBody, \* how many drifts may fit: that depends on their diffs
  MaxUpset   \* bound: changes of the world, failures and operators' actions

ASSUME DriftAssumption ==
  /\ Local \subseteq Thing /\ Foreign \subseteq Thing
  /\ Huge \subseteq Thing /\ Body \in Nat \ {0} /\ DriftBody \subseteq Nat
  /\ Engine \in {"sqlite", "postgres"} /\ MaxUpset \in Nat

VARIABLES
  scoped,    \* the resources list_desired_state_for_agent returns
  off,       \* the resources that differ from what is wanted
  agentSeen, \* resources with a row in the agent's observations
  agentOpen, \* the agent's drift_events with no resolved_at
  cycle,     \* the agent's observe cycle: where it is, what it has left to do
  room,      \* how many drifts fit in max_body_bytes
  stored,    \* resources with a row in the server's observations
  pushes,    \* the requests the server works on, or that are on their way
  open,      \* the server's drift_events with no resolved_at: how many of a resource
  ignored,   \* how many of those have an ignored_until that is still to come
  upsets,
  \* History of the run:
  overlap,   \* two pushes were at the server at a time
  waived     \* accepted since the last push was recorded

driftVars == <<scoped, off, agentSeen, agentOpen, cycle, stored, pushes, open, ignored,
               upsets, overlap, waived, room>>

obsVars == <<agentSeen, stored>>

Idle == [at |-> "idle", todo |-> {}, chunks |-> {}, batch |-> {}, push |-> 0]

DriftInit ==
  /\ scoped \in SUBSET (Thing \ Local)
  /\ off = {} /\ agentSeen = {} /\ agentOpen = {} /\ stored = {} /\ pushes = {} /\ waived = {}
  /\ cycle = Idle /\ room \in DriftBody
  /\ open = [r \in Thing |-> 0] /\ ignored = [r \in Thing |-> 0]
  /\ upsets = 0
  /\ overlap = FALSE

Upset == upsets < MaxUpset /\ upsets' = upsets + 1

-----------------------------------------------------------------------------
(* The agent                                                               *)

\* observation_resources: local manifests and the server's list; the local
\* ones alone when the list cannot be fetched.
Watched(fetched) == Local \cup IF fetched THEN scoped ELSE {}
MayFetch(fetched) == \/ fetched /\ UNCHANGED upsets
                     \/ ~fetched /\ Upset

observation_resources(fetched) ==
  /\ cycle.at = "idle" /\ MayFetch(fetched)
  /\ cycle' = [Idle EXCEPT !.at = "observe", !.todo = Watched(fetched)]
  /\ UNCHANGED <<obsVars, room, scoped, off, agentOpen, pushes, open, ignored, overlap, waived>>

\* open_drift, close_open_drift_for, or neither when observing fails.
Observed(r, failed) ==
  IF failed THEN agentOpen
  ELSE IF r \in off THEN agentOpen \cup {r} ELSE agentOpen \ {r}

observe_resources_blocking(r, failed) ==
  /\ cycle.at = "observe" /\ r \in cycle.todo
  /\ \/ ~failed /\ UNCHANGED upsets
     \/ failed /\ Upset
  /\ agentOpen' = Observed(r, failed)
  /\ agentSeen' = IF failed THEN agentSeen ELSE agentSeen \cup {r}
  /\ cycle' = [cycle EXCEPT !.todo = @ \ {r}]
  /\ UNCHANGED <<stored, room, scoped, off, pushes, open, ignored, overlap, waived>>

\* push_to_remote asks for the list again, and reads the last observation of
\* each resource and all open drift before it sends any.
push_to_remote(fetched) ==
  LET items == Watched(fetched) \cap agentSeen IN
  /\ cycle.at = "observe" /\ cycle.todo = {} /\ MayFetch(fetched)
  /\ cycle' = [cycle EXCEPT !.at = "ship", !.batch = agentOpen,
                            !.chunks = IF items = {} THEN {} ELSE {items}]
  /\ UNCHANGED <<obsVars, room, scoped, off, agentOpen, pushes, open, ignored, overlap, waived>>

\* Mutant: a chunk that is too large is sent again as it is.
Halves_Whole(c) == {{c}}

\* The ways to cut a chunk in the middle; one of a single item is dropped.
Halves(c) ==
  IF Cardinality(c) <= 1 THEN {{}}
  ELSE {{l, c \ l} : l \in {x \in SUBSET c : Cardinality(x) = Cardinality(c) \div 2}}

\* One transaction of the server for a chunk.
record_observations(c) == stored' = stored \cup c

\* push_observations: the server stores a chunk or answers 413, in which case it
\* is halved; any other error, and a resource of another environment, ends the
\* push.
push_observations(c) ==
  /\ cycle.at = "ship" /\ c \in cycle.chunks
  /\ \/ Upset /\ cycle' = Idle /\ UNCHANGED stored
     \/ /\ UNCHANGED upsets
        /\ IF Cardinality(c) > Body \/ c \cap Huge # {}
           THEN /\ \E hs \in Halves(c) : cycle' = [cycle EXCEPT !.chunks = (@ \ {c}) \cup hs]
                /\ UNCHANGED stored
           ELSE IF c \cap Foreign # {} THEN cycle' = Idle /\ UNCHANGED stored
           ELSE record_observations(c) /\ cycle' = [cycle EXCEPT !.chunks = @ \ {c}]
  /\ UNCHANGED <<agentSeen, room, scoped, off, agentOpen, pushes, open, ignored, overlap, waived>>

\* All the drifts of a request do not fit in its body: the server answers 413.
TooLarge(batch) == Cardinality(batch) > room

\* push_drift: all open drift in one request, never cut. The server refuses it
\* when it is too large or a resource is of another environment; the next cycle
\* sends the same again.
push_drift(sent) ==
  LET n == CHOOSE i \in 1..(Cardinality(pushes) + 1) : \A p \in pushes : p.n # i
      refused == TooLarge(cycle.batch) \/ cycle.batch \cap Foreign # {} IN
  /\ cycle.at = "ship" /\ cycle.chunks = {}
  /\ sent => ~refused
  /\ \/ (sent \/ refused) /\ UNCHANGED upsets
     \/ ~sent /\ ~refused /\ Upset
  /\ pushes' = IF sent
               THEN pushes \cup {[batch |-> cycle.batch, n |-> n, stage |-> "record", new |-> {}]}
               ELSE pushes
  /\ overlap' = (overlap \/ (sent /\ pushes # {}))
  /\ cycle' = IF sent THEN [Idle EXCEPT !.at = "wait", !.push = n] ELSE Idle
  /\ UNCHANGED <<obsVars, room, scoped, off, agentOpen, open, ignored, waived>>

\* The answer came, or the agent's timeout ended the wait.
Answered ==
  /\ cycle.at = "wait"
  /\ IF \E p \in pushes : p.n = cycle.push THEN Upset ELSE UNCHANGED upsets
  /\ cycle' = Idle
  /\ UNCHANGED <<obsVars, room, scoped, off, agentOpen, pushes, open, ignored, overlap, waived>>

\* apply_once, the executor of local manifests: what converged has no drift.
apply_once ==
  /\ Local \cap (off \cup agentOpen) # {} /\ Upset
  /\ \E ok \in SUBSET Local : off' = off \ ok /\ agentOpen' = agentOpen \ ok
  /\ UNCHANGED <<obsVars, room, scoped, cycle, pushes, open, ignored, overlap, waived>>

-----------------------------------------------------------------------------
(* The server                                                              *)

Step(p, s, n) ==
  (pushes \ {p}) \cup {[batch |-> p.batch, n |-> p.n, stage |-> s, new |-> n]}

\* Mutant: no UPDATE before the INSERT.
Unseen_All(batch) == batch

\* The items for which the UPDATE of an open row finds none.
Unseen(batch) == {r \in batch : open[r] = 0}

Insert(rows) == open' = [r \in Thing |-> IF r \in rows THEN open[r] + 1 ELSE open[r]]

\* record_drift is one transaction: on SQLite its UPDATEs keep other writers
\* out until the commit; on Postgres its snapshots miss the rows another one
\* has inserted and not committed.
record_drift(p) ==
  /\ p.stage = "record"
  /\ IF Engine = "sqlite"
     THEN Insert(Unseen(p.batch)) /\ pushes' = Step(p, "close", {})
     ELSE pushes' = Step(p, "insert", Unseen(p.batch)) /\ UNCHANGED open
  /\ waived' = {}
  /\ UNCHANGED <<obsVars, room, scoped, off, agentOpen, cycle, ignored, upsets, overlap>>

record_drift_commits(p) ==
  /\ p.stage = "insert"
  /\ Insert(p.new)
  /\ pushes' = Step(p, "close", {})
  /\ UNCHANGED <<obsVars, room, scoped, off, agentOpen, cycle, ignored, upsets, overlap, waived>>

\* Mutant: nothing to close for an empty batch.
Unreported_SkipsEmpty(batch) == IF batch = {} THEN {} ELSE Thing \ batch

\* What close_drift_not_in resolves.
Unreported(batch) == Thing \ batch

close_drift_not_in(p) ==
  /\ p.stage = "close"
  /\ open' = [r \in Thing |-> IF r \in Unreported(p.batch) THEN 0 ELSE open[r]]
  /\ ignored' = [r \in Thing |-> IF r \in Unreported(p.batch) THEN 0 ELSE ignored[r]]
  /\ pushes' = pushes \ {p}
  /\ UNCHANGED <<obsVars, room, scoped, off, agentOpen, cycle, upsets, overlap, waived>>

\* The server stops between the two transactions, or before the first.
ServerStops(p) ==
  /\ Upset
  /\ pushes' = pushes \ {p}
  /\ UNCHANGED <<obsVars, room, scoped, off, agentOpen, cycle, open, ignored, overlap, waived>>

\* accept_drift resolves a row for good, also one that is ignored.
accept_drift(r) ==
  /\ Upset
  /\ open[r] > 0
  /\ open' = [open EXCEPT ![r] = @ - 1]
  /\ \/ ignored[r] > 0 /\ ignored' = [ignored EXCEPT ![r] = @ - 1]
     \/ ignored[r] < open[r] /\ UNCHANGED ignored
  /\ waived' = waived \cup {r}
  /\ UNCHANGED <<obsVars, room, scoped, off, agentOpen, cycle, pushes, overlap>>

\* accept_drift_bulk: all rows of the resources that match the filter.
accept_drift_bulk(rs) ==
  /\ Upset
  /\ \E r \in rs : open[r] > 0
  /\ open' = [r \in Thing |-> IF r \in rs THEN 0 ELSE open[r]]
  /\ ignored' = [r \in Thing |-> IF r \in rs THEN 0 ELSE ignored[r]]
  /\ waived' = waived \cup {r \in rs : open[r] > 0}
  /\ UNCHANGED <<obsVars, room, scoped, off, agentOpen, cycle, pushes, overlap>>

\* ignore_drift: one row, until a time (again, or in the past, ends it).
ignore_drift(r, inPast) ==
  /\ Upset
  /\ IF inPast THEN ignored[r] > 0 ELSE ignored[r] < open[r]
  /\ ignored' = [ignored EXCEPT ![r] = IF inPast THEN @ - 1 ELSE @ + 1]
  /\ UNCHANGED <<obsVars, room, scoped, off, agentOpen, cycle, pushes, open, overlap, waived>>

\* ignore_drift_bulk: every open row that matches.
ignore_drift_bulk(rs) ==
  /\ Upset
  /\ \E r \in rs : open[r] > ignored[r]
  /\ ignored' = [r \in Thing |-> IF r \in rs THEN open[r] ELSE ignored[r]]
  /\ UNCHANGED <<obsVars, room, scoped, off, agentOpen, cycle, pushes, open, overlap, waived>>

\* An ignored_until passes.
IgnoreEnds ==
  /\ \E r \in Thing : ignored[r] > 0 /\ ignored' = [ignored EXCEPT ![r] = @ - 1]
  /\ UNCHANGED <<obsVars, room, scoped, off, agentOpen, cycle, pushes, open, upsets, overlap, waived>>

\* list_open_drift: rows that are neither resolved nor ignored at present.
list_open_drift == {r \in Thing : open[r] > ignored[r]}

-----------------------------------------------------------------------------
(* The world                                                               *)

\* Somebody changes a resource on the host, or it converges.
Changed(r) ==
  /\ Upset
  /\ off' = IF r \in off THEN off \ {r} ELSE off \cup {r}
  /\ UNCHANGED <<obsVars, room, scoped, agentOpen, cycle, pushes, open, ignored, overlap, waived>>

\* The server's list gains or loses a resource.
Scoped(r) ==
  /\ Upset
  /\ scoped' = IF r \in scoped THEN scoped \ {r} ELSE scoped \cup {r}
  /\ UNCHANGED <<obsVars, room, off, agentOpen, cycle, pushes, open, ignored, overlap, waived>>

AgentSteps ==
  \/ \E b \in BOOLEAN : observation_resources(b) \/ push_to_remote(b) \/ push_drift(b)
  \/ \E c \in cycle.chunks : push_observations(c)
  \/ \E r \in Thing, b \in BOOLEAN : observe_resources_blocking(r, b)
  \/ Answered

ServerSteps == \E p \in pushes : record_drift(p) \/ record_drift_commits(p) \/ close_drift_not_in(p)

DriftNext ==
  \/ AgentSteps \/ ServerSteps \/ apply_once
  \/ \E p \in pushes : ServerStops(p)
  \/ \E rs \in SUBSET Thing : accept_drift_bulk(rs) \/ ignore_drift_bulk(rs)
  \/ \E r \in Thing : accept_drift(r) \/ \E b \in BOOLEAN : ignore_drift(r, b)
  \/ IgnoreEnds
  \/ \E r \in Thing : Changed(r) \/ (r \notin Local /\ Scoped(r))

DriftSpec == DriftInit /\ [][DriftNext]_driftVars

-----------------------------------------------------------------------------

\* A resource has one open drift row at most, and each drift of a push that has
\* been recorded is still open when the push goes on to close the others, unless
\* an operator has settled it in between: as long as no two pushes of the agent
\* were at the server at a time (drift, record_drift, close_drift_not_in).
OneRowPerDrift ==
  ~overlap => \A r \in Thing :
    /\ open[r] <= 1
    /\ \A p \in pushes : p.stage = "close" /\ r \in p.batch => open[r] = 1 \/ r \in waived

\* Once the world rests, the server has an observation of every resource of the
\* agent that fits in a request, though all of them together do not; and what it
\* shows of them is what differs on the host, whatever was lost, late, stopped
\* half way, accepted or ignored before, if all that is open at the agent, the
\* drift of resources it no longer watches included, fits in one request. Drift
\* that does not is refused in every cycle, and then nothing is added or closed
\* (observe_once, push_observations, push_drift, drift, list_open_drift).
CatchesUp ==
  <>[](Foreign = {} =>
         \A r \in Local \cup scoped :
           /\ r \in stored \cup Huge
           /\ ~TooLarge(agentOpen) => ((r \in list_open_drift) <=> (r \in off)))

=============================================================================
