------------------------------ MODULE Webhook -------------------------------
(***************************************************************************)
(* The webhook dispatcher (crates/iac-controlplane/src/webhook.rs): a loop *)
(* that reads the audit log behind one cursor per receiver, fires the      *)
(* matching rows of a batch in parallel, and writes the cursor when all of *)
(* them have ended. A receiver may answer 429 and name a time before which *)
(* it wants no request. Cursors and deadlines are kept in memory and       *)
(* written to the database; the process may stop at any moment and is      *)
(* started again, perhaps with another configuration.                      *)
(***************************************************************************)
EXTENDS AuditLog, FiniteSets, FiniteSetsExt

CONSTANTS
  Hook,             \* names of receivers
  Backfill,         \* the receivers with backfill = true
  Batch,            \* backfill_batch_size
  Permits,          \* per receiver: requests in flight at a time, the smaller of
                    \* its own and the dispatcher's max_concurrent_requests
  MAX_BACKOFF_SECS,
  RetryAfter,       \* values of Retry-After that receivers send
  OldRows,          \* rows an older version has left in the log
  MaxTime,          \* bound: how far the clock runs
  MaxStop,          \* bound: how often the process stops
  MaxDbFault        \* bound: failing statements

ASSUME WebhookAssumption ==
  /\ Ids \subseteq Nat \ {0} /\ IsFiniteSet(Ids)
  /\ Hook # {} /\ Backfill \subseteq Hook
  /\ Batch \in Nat \ {0}
  /\ Permits \in [Hook -> Nat \ {0}]
  /\ MAX_BACKOFF_SECS \in Nat
  /\ RetryAfter \subseteq Nat
  /\ OldRows \in Nat /\ 1..OldRows \subseteq Ids
  /\ MaxTime \in Nat /\ MaxStop \in Nat /\ MaxDbFault \in Nat

VARIABLES
  wants,     \* the rows each receiver's filter matches
  legacy,    \* row 'audit' of webhook_cursor
  cursorDb,  \* rows 'audit:<name>' of webhook_cursor
  backoffDb, \* webhook_backoff.deadline_unix
  now,       \* the clock
  up,        \* the process runs
  conf,      \* the receivers of its configuration
  cursor,    \* cursors
  backoff,   \* backoff_until
  round,     \* the receivers tick_once still has to serve
  tick,      \* the tick_one_webhook in progress
  stops,     \* how often the process has stopped
  dbFaults,  \* how many statements have failed
  start,     \* history: where each receiver's deliveries began
  fired,     \* history: how often a row was fired at a receiver
  ended,     \* history: the rows whose fire has ended
  losses     \* history: what may have cost a receiver its cursor

dbVars   == <<legacy, cursorDb, backoffDb>>
memVars  == <<up, conf, cursor, backoff, round, tick>>
histVars == <<start, fired, ended, losses>>
vars == <<logVars, wants, dbVars, now, memVars, stops, dbFaults, histVars>>

NoCursor == -1

\* A tick of receiver hook: the id of the last row read, the rows to fire, the
\* ones in flight, and the deadlines to be written.
Asked == [id : Ids, retry : Nat]
NoTick(h) == [st |-> "idle", hook |-> h, last |-> 0, queued |-> {}, sent |-> {},
              asked |-> {}]

TypeOK ==
  /\ log \subseteq Ids /\ high \in Nat
  /\ wants \in [Hook -> SUBSET Ids]
  /\ legacy \in Nat \cup {NoCursor}
  /\ cursorDb \in [Hook -> Nat \cup {NoCursor}]
  /\ backoffDb \in [Hook -> Nat]
  /\ now \in Nat
  /\ up \in BOOLEAN
  /\ conf \subseteq Hook
  /\ cursor \in [Hook -> Nat]
  /\ backoff \in [Hook -> Nat]
  /\ round \subseteq Hook
  /\ tick \in [st : {"idle", "firing", "writing"}, hook : Hook, last : Nat,
               queued : SUBSET Ids, sent : SUBSET Ids, asked : SUBSET Asked]
  /\ stops \in Nat /\ dbFaults \in Nat
  /\ start \in [Hook -> Nat]
  /\ fired \in [Hook -> [Ids -> Nat]]
  /\ ended \in [Hook -> SUBSET Ids]
  /\ losses \in [Hook -> Nat]

Init ==
  /\ log = 1..OldRows
  /\ high = OldRows
  /\ wants = [h \in Hook |-> log]
  /\ legacy \in {NoCursor} \cup 0..OldRows
  /\ cursorDb = [h \in Hook |-> NoCursor]
  /\ backoffDb = [h \in Hook |-> 0]
  /\ now = 0
  /\ up = FALSE
  /\ conf = {}
  /\ cursor = [h \in Hook |-> 0]
  /\ backoff = [h \in Hook |-> 0]
  /\ round = {}
  /\ tick = NoTick(CHOOSE h \in Hook : TRUE)
  /\ stops = 0
  /\ dbFaults = 0
  /\ start = [h \in Hook |-> high]
  /\ fired = [h \in Hook |-> [i \in Ids |-> 0]]
  /\ ended = [h \in Hook |-> {}]
  /\ losses = [h \in Hook |-> 0]

\* A statement that fails (n = 1) or does not (n = 0).
Fault(n) == dbFaults' = dbFaults + n /\ dbFaults' <= MaxDbFault

(***************************************************************************)
(* Surroundings                                                            *)
(***************************************************************************)

\* A transaction commits audit rows; each receiver's filter matches some.
RecordAudit(S, m) ==
  /\ AppendRows(S)
  /\ wants' = [h \in Hook |-> wants[h] \cup m[h]]
  /\ UNCHANGED <<dbVars, now, memVars, stops, dbFaults, histVars>>

Prune(kept) ==
  /\ DropRows(kept)
  /\ UNCHANGED <<wants, dbVars, now, memVars, stops, dbFaults, histVars>>

\* The clock; it does not stop before a deadline.
Second ==
  /\ now < MaxTime \/ \E h \in Hook : now < backoff[h] \/ now < backoffDb[h]
  /\ now' = now + 1
  /\ UNCHANGED <<logVars, wants, dbVars, memVars, stops, dbFaults, histVars>>

\* The process stops, at a signal or by itself. A tick that is under way ends
\* where it is.
Stop ==
  /\ up /\ stops < MaxStop
  /\ stops' = stops + 1
  /\ up' = FALSE
  /\ tick' = NoTick(tick.hook)
  /\ losses' = IF tick.st = "idle" THEN losses
               ELSE [losses EXCEPT ![tick.hook] = @ + 1]
  /\ round' = {}
  /\ cursor' = [h \in Hook |-> 0]
  /\ backoff' = [h \in Hook |-> 0]
  /\ UNCHANGED <<logVars, wants, dbVars, now, conf, dbFaults, start, fired, ended>>

(***************************************************************************)
(* initialize                                                              *)
(***************************************************************************)

\* The cursor of a receiver, from what the three SELECTs have found.
InitialCursor(h, persisted, old, max_id) ==
  IF persisted # NoCursor THEN persisted
  ELSE IF old # NoCursor THEN old
  ELSE IF h \in Backfill THEN 0
  ELSE max_id

\* load_persisted_backoffs: deadlines in the future, at most MAX_BACKOFF_SECS.
Restored(h) ==
  IF backoffDb[h] > now
  THEN now + Min({Max({backoffDb[h] - now, 1}), MAX_BACKOFF_SECS}) ELSE 0

\* The process starts with the receivers c. Each statement may fail: a cursor
\* that cannot be read counts as none, MAX(id) as 0; rows that cannot be deleted
\* stay; deadlines that cannot be read are forgotten. failed names the statement
\* ("none" if all is well).
initialize(c, failed) ==
  LET max_id == IF failed = "max_id" THEN 0 ELSE Max({0} \cup log)
      old    == IF failed = "legacy" THEN NoCursor ELSE legacy
      persisted(h) == IF failed = h THEN NoCursor ELSE cursorDb[h]
  IN /\ ~up
     /\ Fault(IF failed = "none" THEN 0 ELSE 1)
     /\ up' = TRUE
     /\ conf' = c
     /\ cursor' = [h \in Hook |-> IF h \in c
                     THEN InitialCursor(h, persisted(h), old, max_id) ELSE 0]
     /\ cursorDb' = [h \in Hook |-> IF h \notin c /\ failed # "orphans"
                       THEN NoCursor ELSE cursorDb[h]]
     /\ backoff' = [h \in Hook |-> IF failed = "backoffs" THEN 0 ELSE Restored(h)]
     /\ round' = c
     /\ start' = [h \in Hook |->
                    IF h \notin c \/ persisted(h) # NoCursor THEN start[h]
                    ELSE IF cursorDb[h] = NoCursor THEN cursor'[h]
                    ELSE Max({start[h], cursor'[h]})]
     /\ losses' = [h \in Hook |-> IF h \notin c \/ failed = h
                     THEN losses[h] + 1 ELSE losses[h]]
     /\ UNCHANGED <<logVars, wants, legacy, backoffDb, now, tick, stops, fired, ended>>

(***************************************************************************)
(* tick_once, tick_one_webhook                                             *)
(***************************************************************************)

\* Mutant: there is no next round.
Served_Once(h) == round \ {h}

\* The receivers left in this round without h; a new round follows the last.
Served(h) == IF round = {h} THEN conf ELSE round \ {h}

\* SELECT ... WHERE id > cursor ORDER BY id LIMIT batch_size.
Later(h) == {i \in log : i > cursor[h]}
RowsRead(h) == {i \in Later(h) : Cardinality({j \in Later(h) : j <= i}) <= Batch}

\* A receiver that backs off, a SELECT that fails or finds nothing.
SkipTick(h, failed) ==
  /\ up /\ h \in round /\ tick.st = "idle"
  /\ backoff[h] > now \/ Later(h) = {} \/ failed
  /\ Fault(IF failed THEN 1 ELSE 0)
  /\ round' = Served(h)
  /\ UNCHANGED <<logVars, wants, dbVars, now, up, conf, cursor, backoff, tick, stops,
                 histVars>>

ReadRows(h) ==
  /\ up /\ h \in round /\ tick.st = "idle"
  /\ backoff[h] <= now
  /\ Later(h) # {}
  /\ round' = Served(h)
  /\ tick' = [st |-> "firing", hook |-> h, last |-> Max(RowsRead(h)),
              queued |-> RowsRead(h) \cap wants[h], sent |-> {}, asked |-> {}]
  /\ UNCHANGED <<logVars, wants, dbVars, now, up, conf, cursor, backoff, stops, dbFaults,
                 histVars>>

\* fire_with_permit has both permits and fire sends its request.
Fire(i) ==
  /\ tick.st = "firing" /\ i \in tick.queued
  /\ Cardinality(tick.sent) < Permits[tick.hook]
  /\ tick' = [tick EXCEPT !.queued = @ \ {i}, !.sent = @ \cup {i}]
  /\ fired' = [fired EXCEPT ![tick.hook][i] = @ + 1]
  /\ UNCHANGED <<logVars, wants, dbVars, now, up, conf, cursor, backoff, round, stops,
                 dbFaults, start, ended, losses>>

\* fire has ended: delivered, refused by the receiver or by the egress check,
\* timed out after five seconds, or 429 without a time to wait.
FireEnds(i) ==
  /\ tick.st = "firing" /\ i \in tick.sent
  /\ \A a \in tick.asked : a.id # i
  /\ tick' = [tick EXCEPT !.sent = @ \ {i}]
  /\ ended' = [ended EXCEPT ![tick.hook] = @ \cup {i}]
  /\ UNCHANGED <<logVars, wants, dbVars, now, up, conf, cursor, backoff, round, stops,
                 dbFaults, start, fired, losses>>

\* fire is answered 429 with a Retry-After. The request keeps its permit until
\* the deadline is written.
RateLimited(i, retry_after) ==
  LET retry == Min({retry_after, MAX_BACKOFF_SECS}) IN
  /\ tick.st = "firing" /\ i \in tick.sent
  /\ \A a \in tick.asked : a.id # i
  /\ retry > 0 /\ now < MaxTime
  /\ backoff' = [backoff EXCEPT ![tick.hook] = now + retry]
  /\ tick' = [tick EXCEPT
                !.asked = @ \cup {[id |-> i, retry |-> retry]}]
  /\ UNCHANGED <<logVars, wants, dbVars, now, up, conf, cursor, round, stops, dbFaults,
                 histVars>>

\* persist_backoff, with its own look at the clock.
persist_backoff(a, failed) ==
  /\ tick.st = "firing" /\ a \in tick.asked
  /\ Fault(IF failed THEN 1 ELSE 0)
  /\ backoffDb' = IF failed THEN backoffDb
                  ELSE [backoffDb EXCEPT ![tick.hook] = now + a.retry]
  /\ tick' = [tick EXCEPT !.asked = @ \ {a}, !.sent = @ \ {a.id}]
  /\ ended' = [ended EXCEPT ![tick.hook] = @ \cup {a.id}]
  /\ UNCHANGED <<logVars, wants, legacy, cursorDb, now, up, conf, cursor, backoff, round,
                 stops, start, fired, losses>>

\* Mutant: the requests are spawned and nobody waits for them.
MoveCursor_NoJoin ==
  /\ tick.st = "firing" /\ tick.queued = {}
  /\ cursor' = [cursor EXCEPT ![tick.hook] = tick.last]
  /\ tick' = [tick EXCEPT !.st = "writing"]
  /\ UNCHANGED <<logVars, wants, dbVars, now, up, conf, backoff, round, stops, dbFaults,
                 histVars>>

\* Mutant: only the row in the database is moved.
MoveCursor_DbOnly ==
  /\ tick.st = "firing" /\ tick.queued = {} /\ tick.sent = {}
  /\ tick' = [tick EXCEPT !.st = "writing"]
  /\ UNCHANGED <<logVars, wants, dbVars, now, up, conf, cursor, backoff, round, stops,
                 dbFaults, histVars>>

\* join_all is through: the cursor in memory moves.
MoveCursor ==
  /\ tick.st = "firing" /\ tick.queued = {} /\ tick.sent = {}
  /\ cursor' = [cursor EXCEPT ![tick.hook] = tick.last]
  /\ tick' = [tick EXCEPT !.st = "writing"]
  /\ UNCHANGED <<logVars, wants, dbVars, now, up, conf, backoff, round, stops, dbFaults,
                 histVars>>

\* ... and then the one in the database.
WriteCursor(failed) ==
  /\ tick.st = "writing"
  /\ Fault(IF failed THEN 1 ELSE 0)
  /\ cursorDb' = IF failed THEN cursorDb
                 ELSE [cursorDb EXCEPT ![tick.hook] = tick.last]
  /\ losses' = IF failed THEN [losses EXCEPT ![tick.hook] = @ + 1] ELSE losses
  /\ tick' = NoTick(tick.hook)
  /\ UNCHANGED <<logVars, wants, legacy, backoffDb, now, up, conf, cursor, backoff, round,
                 stops, start, fired, ended>>

(***************************************************************************)
(* Specification                                                           *)
(***************************************************************************)

Statement == {"none", "max_id", "legacy", "orphans", "backoffs"} \cup Hook

Next ==
  \/ \E S \in SUBSET Ids : \E m \in [Hook -> SUBSET S] : RecordAudit(S, m)
  \/ \E kept \in SUBSET log : Prune(kept)
  \/ Second
  \/ Stop
  \/ \E c \in SUBSET Hook, failed \in Statement : initialize(c, failed)
  \/ \E h \in Hook : ReadRows(h)
  \/ \E h \in Hook, failed \in BOOLEAN : SkipTick(h, failed)
  \/ \E i \in Ids : Fire(i) \/ FireEnds(i)
  \/ \E i \in Ids, retry_after \in RetryAfter : RateLimited(i, retry_after)
  \/ \E a \in tick.asked, failed \in BOOLEAN : persist_backoff(a, failed)
  \/ MoveCursor
  \/ \E failed \in BOOLEAN : WriteCursor(failed)

Spec == Init /\ [][Next]_vars

\* The clock runs, the process is started again, the loop ticks, requests end
\* (the client's timeout is five seconds) and statements return.
Fairness ==
  /\ WF_vars(Second)
  /\ WF_vars(initialize(Hook, "none"))
  /\ \A h \in Hook : WF_vars(ReadRows(h)) /\ WF_vars(SkipTick(h, FALSE))
  /\ \A i \in Ids : WF_vars(Fire(i)) /\ WF_vars(FireEnds(i))
  /\ WF_vars(\E a \in tick.asked : persist_backoff(a, FALSE))
  /\ WF_vars(MoveCursor)
  /\ WF_vars(WriteCursor(FALSE))

FairSpec == Spec /\ Fairness

(***************************************************************************)
(* Properties                                                              *)
(***************************************************************************)

\* A row that h wants, behind the place where its deliveries began.
Due(h, i) == i \in log /\ i \in wants[h] /\ start[h] < i

\* tick_one_webhook: no cursor, in memory or in the database, passes a row that
\* is due before its request has ended, whenever the process stops.
NothingPassedOver ==
  \A h \in Hook, i \in Ids :
    /\ Due(h, i)
    /\ (up /\ h \in conf /\ i <= cursor[h]) \/ i <= cursorDb[h]
    => i \in ended[h]

\* A row is fired once, and once more for each tick that was cut off and each
\* cursor that could not be written or read or was given up.
FiredOncePerLoss ==
  \A h \in Hook, i \in Ids : fired[h][i] <= 1 + losses[h]

\* Rows that are due are fired in the end, unless they are deleted first, the
\* receiver is removed, or its cursor is lost and begins anew.
EveryRowIsFired ==
  \A h \in Hook, i \in Ids :
    Due(h, i) /\ up /\ h \in conf
      ~> i \in ended[h] \/ i \notin log \/ h \notin conf \/ i <= start[h]

=============================================================================
