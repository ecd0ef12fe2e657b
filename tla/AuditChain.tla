----------------------------- MODULE AuditChain -----------------------------
(***************************************************************************)
(* The hash chain of the audit log: record_audit_on, the chain tip, the    *)
(* chunked walk of audit_verify_chain_from (crates/iac-controlplane/src/   *)
(* store.rs) and the deletion of old rows (retention.rs).                  *)
(*                                                                         *)
(* record_audit_on runs at the end of somebody's transaction: it reads the *)
(* tip, inserts a row that names the tip's hash as its predecessor and     *)
(* writes the new tip. Nothing is visible before the transaction commits.  *)
(*                                                                         *)
(* Postgres: SELECT ... FOR UPDATE makes the transaction wait for the tip. *)
(* SQLite: the tip is read from the transaction's snapshot; the first      *)
(* write waits for the only writer and fails if the snapshot is old.       *)
(***************************************************************************)
EXTENDS Integers, FiniteSets, FiniteSetsExt, Sequences

CONSTANTS
  Tx,          \* transactions that record audit rows
  Record,      \* the fields of a row: actor, kind, payload and the rest
  NoTx,        \* nobody holds the lock
  Dialect,     \* "sqlite" or "postgres"
  AuditDays,   \* audit_days: retention of audit rows; 0 keeps them for ever
  MaxEdits,    \* bound: rows changed behind the program's back
  MaxDay,      \* bound: how far the clock runs
  MaxId,       \* bound: ids that are handed out
  PerTx,       \* bound: audit rows of one transaction
  Chunk        \* CHUNK: rows of one SELECT of the verification

ASSUME AuditAssumption ==
  /\ Dialect \in {"sqlite", "postgres"}
  /\ NoTx \notin Tx
  /\ AuditDays \in Nat /\ MaxDay \in Nat /\ MaxId \in Nat /\ MaxEdits \in Nat
  /\ PerTx \in Nat \ {0} /\ Chunk \in Nat \ {0}

VARIABLES
  events,   \* audit_events: the committed rows, by id
  tip,      \* audit_chain_tip
  nextId,   \* the next autoincrement id
  lock,     \* Postgres: who holds the tip; SQLite: the only writer
  version,  \* how many transactions have committed
  tx,       \* the transactions
  day,      \* the clock
  edited,   \* ids of rows that somebody changed behind the program's back
  verify    \* a run of audit_verify_chain_from

vars == <<events, tip, nextId, lock, version, tx, day, edited, verify>>

\* A hash is the sequence of records it stands for: SHA-256 is taken to be free
\* of collisions.
NoHash == <<>>
compute_audit_row_hash(prev, rec) == Append(prev, rec)

Event(prev, rec, stamp) ==
  [prev |-> prev, rec |-> rec, stamp |-> stamp,
   hash |-> compute_audit_row_hash(prev, rec)]

NoRows == [i \in {} |-> Event(NoHash, i, 0)]

\* st: where a transaction is; snap: the version it reads from (SQLite); stamp,
\* prev: what record_audit_on has read; rows: what it has inserted, by id.
Idle == [st |-> "idle", snap |-> 0, prev |-> NoHash, stamp |-> 0, rows |-> NoRows]

NotRunning == [st |-> "off", prev |-> NoHash, last |-> 0, before |-> {}]

\* A table with more rows.
Add(rows, more) ==
  [i \in DOMAIN rows \cup DOMAIN more |->
     IF i \in DOMAIN more THEN more[i] ELSE rows[i]]

LastId(rows) == Max({0} \cup DOMAIN rows)

TypeOK ==
  /\ DOMAIN events \subseteq 1..(nextId - 1)
  /\ \A i \in DOMAIN events : events[i].rec \in Record /\ events[i].stamp \in 0..MaxDay
  /\ tip.id \in 0..(nextId - 1)
  /\ nextId \in 1..(MaxId + 1)
  /\ lock \in Tx \cup {NoTx}
  /\ version \in Nat
  /\ \A t \in Tx : tx[t].st \in {"idle", "begun", "stamped", "tip", "inserted"}
  /\ day \in 0..MaxDay
  /\ edited \subseteq 1..MaxId
  /\ verify.st \in {"off", "walking", "clean", "broken"}

Init ==
  /\ events = NoRows
  /\ tip = [id |-> 0, hash |-> NoHash]
  /\ nextId = 1
  /\ lock = NoTx
  /\ version = 0
  /\ tx = [t \in Tx |-> Idle]
  /\ day = 0
  /\ edited = {}
  /\ verify = NotRunning

(***************************************************************************)
(* Transactions                                                            *)
(***************************************************************************)

\* BEGIN, and what a caller does before it records an audit row. All callers
\* but record_audit have written by then: on SQLite they are the only writer,
\* with a current snapshot.
Begin(t, wrote) ==
  /\ tx[t].st = "idle"
  /\ IF Dialect = "sqlite" /\ wrote
     THEN lock = NoTx /\ lock' = t
     ELSE lock' = lock
  /\ tx' = [tx EXCEPT ![t] = [Idle EXCEPT !.st = "begun"]]
  /\ UNCHANGED <<events, tip, nextId, version, day, edited, verify>>

\* record_audit_on: let now = Timestamp::now().
Stamp(t) ==
  /\ \/ tx[t].st = "begun"
     \/ tx[t].st = "inserted" /\ Cardinality(DOMAIN tx[t].rows) < PerTx
  /\ tx' = [tx EXCEPT ![t].st = "stamped", ![t].stamp = day]
  /\ UNCHANGED <<events, tip, nextId, lock, version, day, edited, verify>>

\* The tip's hash as the transaction sees it: of its own last row, or committed.
TipSeen(t) ==
  IF DOMAIN tx[t].rows # {} THEN tx[t].rows[LastId(tx[t].rows)].hash ELSE tip.hash

\* SELECT last_id, last_hash FROM audit_chain_tip, on Postgres FOR UPDATE. On
\* SQLite this is the first statement of a transaction that has not written, and
\* fixes its snapshot.
ReadTip(t) ==
  /\ tx[t].st = "stamped"
  /\ IF Dialect = "postgres"
     THEN lock \in {NoTx, t} /\ lock' = t
     ELSE lock' = lock
  /\ tx' = [tx EXCEPT ![t].st = "tip", ![t].prev = TipSeen(t), ![t].snap = version]
  /\ UNCHANGED <<events, tip, nextId, version, day, edited, verify>>

\* SQLite: only the writer inserts, and who becomes the writer now must have
\* read the latest version.
MayInsert(t) ==
  Dialect = "sqlite" => lock = t \/ (lock = NoTx /\ tx[t].snap = version)

\* INSERT INTO audit_events ... RETURNING id.
Insert(t, rec) ==
  /\ tx[t].st = "tip"
  /\ nextId <= MaxId
  /\ MayInsert(t)
  /\ lock' = IF Dialect = "sqlite" THEN t ELSE lock
  /\ nextId' = nextId + 1
  /\ tx' = [tx EXCEPT
              ![t].st = "inserted",
              ![t].rows = Add(@, [i \in {nextId} |-> Event(tx[t].prev, rec, tx[t].stamp)])]
  /\ UNCHANGED <<events, tip, version, day, edited, verify>>

\* UPDATE audit_chain_tip after the last row.
NewTip(rows) == [id |-> LastId(rows), hash |-> rows[LastId(rows)].hash]

\* COMMIT by the caller.
Commit(t) ==
  LET rows == tx[t].rows IN
  /\ tx[t].st = "inserted"
  /\ events' = Add(events, rows)
  /\ tip' = NewTip(rows)
  /\ version' = version + 1
  /\ lock' = NoTx
  /\ tx' = [tx EXCEPT ![t] = Idle]
  /\ UNCHANGED <<nextId, day, edited, verify>>

\* A failed statement, SQLITE_BUSY or a crash. SQLite hands out the ids again,
\* Postgres does not.
Rollback(t) ==
  /\ tx[t].st # "idle"
  /\ lock' = IF lock = t THEN NoTx ELSE lock
  /\ nextId' = IF Dialect = "sqlite" /\ DOMAIN tx[t].rows # {}
               THEN Min(DOMAIN tx[t].rows) ELSE nextId
  /\ tx' = [tx EXCEPT ![t] = Idle]
  /\ UNCHANGED <<events, tip, version, day, edited, verify>>

(***************************************************************************)
(* Time, retention and the outside                                         *)
(***************************************************************************)

\* A day passes.
Tick ==
  /\ day < MaxDay
  /\ day' = day + 1
  /\ UNCHANGED <<events, tip, nextId, lock, version, tx, edited, verify>>

\* Mutant: the tip is taken from the rows that are left.
Prune_MovesTip ==
  LET kept == {i \in DOMAIN events : events[i].stamp >= day - AuditDays} IN
  /\ AuditDays > 0
  /\ Dialect = "sqlite" => lock = NoTx
  /\ kept # DOMAIN events
  /\ events' = [i \in kept |-> events[i]]
  /\ tip' = IF kept = {} THEN [id |-> 0, hash |-> NoHash] ELSE NewTip(events')
  /\ version' = version + 1
  /\ UNCHANGED <<nextId, lock, tx, day, edited, verify>>

\* prune_once: DELETE FROM audit_events WHERE timestamp < cutoff.
Prune ==
  LET kept == {i \in DOMAIN events : events[i].stamp >= day - AuditDays} IN
  /\ AuditDays > 0
  /\ Dialect = "sqlite" => lock = NoTx
  /\ kept # DOMAIN events
  /\ events' = [i \in kept |-> events[i]]
  /\ version' = version + 1
  /\ UNCHANGED <<tip, nextId, lock, tx, day, edited, verify>>

\* Somebody changes a row in the database, once: it is not changed back.
Edit(i, rec) ==
  /\ Cardinality(edited) < MaxEdits
  /\ i \in DOMAIN events \ edited
  /\ rec # events[i].rec
  /\ events' = [events EXCEPT ![i].rec = rec]
  /\ edited' = edited \cup {i}
  /\ UNCHANGED <<tip, nextId, lock, version, tx, day, verify>>

(***************************************************************************)
(* audit_verify_chain_from                                                 *)
(***************************************************************************)

\* from_id is 0 or the id of a row the operator has seen at the tip.
VerifyStart(from) ==
  /\ verify.st # "walking"
  /\ from \in {0} \cup DOMAIN events
  /\ verify' = [st |-> "walking", prev |-> IF from = 0 THEN NoHash ELSE events[from].hash,
                last |-> from, before |-> {i \in edited : i > from}]
  /\ UNCHANGED <<events, tip, nextId, lock, version, tx, day, edited>>

\* The rows of one SELECT ... WHERE id > last_seen ORDER BY id LIMIT CHUNK.
ChunkRows ==
  LET later == {i \in DOMAIN events : i > verify.last} IN
  {i \in later : Cardinality({j \in later : j <= i}) <= Chunk}

\* prev_hash when the loop reaches row i of the chunk.
PrevInWalk(i) ==
  LET before == {j \in ChunkRows : j < i} IN
  IF before = {} THEN verify.prev ELSE events[Max(before)].hash

\* Mutant: only the links are compared, no hash is computed.
Mismatch_LinksOnly(i) == events[i].prev # PrevInWalk(i)

Mismatch(i) ==
  \/ events[i].prev # PrevInWalk(i)
  \/ events[i].hash # compute_audit_row_hash(PrevInWalk(i), events[i].rec)

\* The answers. before, which rows after from_id had been changed when it
\* started, is history and kept with a clean one.
Broken == [NotRunning EXCEPT !.st = "broken"]
Clean == [NotRunning EXCEPT !.st = "clean", !.before = verify.before]

\* Mutant: a new chunk starts with an empty predecessor.
VerifyChunk_ForgetsPrev ==
  /\ verify.st = "walking"
  /\ verify' =
       IF \E i \in ChunkRows : Mismatch(i) THEN Broken
       ELSE IF Cardinality(ChunkRows) < Chunk THEN Clean
       ELSE [verify EXCEPT !.last = Max(ChunkRows), !.prev = NoHash]
  /\ UNCHANGED <<events, tip, nextId, lock, version, tx, day, edited>>

\* One turn of the outer loop; the walk over the rows it fetched is in memory.
VerifyChunk ==
  /\ verify.st = "walking"
  /\ verify' =
       IF \E i \in ChunkRows : Mismatch(i) THEN Broken
       ELSE IF Cardinality(ChunkRows) < Chunk THEN Clean
       ELSE [verify EXCEPT !.last = Max(ChunkRows),
                           !.prev = events[Max(ChunkRows)].hash]
  /\ UNCHANGED <<events, tip, nextId, lock, version, tx, day, edited>>

(***************************************************************************)
(* Specification                                                           *)
(***************************************************************************)

Next ==
  \/ \E t \in Tx, wrote \in BOOLEAN : Begin(t, wrote)
  \/ \E t \in Tx : Stamp(t) \/ ReadTip(t) \/ Commit(t) \/ Rollback(t)
  \/ \E t \in Tx, rec \in Record : Insert(t, rec)
  \/ Tick
  \/ Prune
  \/ \E i \in 1..MaxId, rec \in Record : Edit(i, rec)
  \/ \E i \in 0..MaxId : VerifyStart(i)
  \/ VerifyChunk

Spec == Init /\ [][Next]_vars

(***************************************************************************)
(* Properties                                                              *)
(***************************************************************************)

\* record_audit_on: no two rows claim the same predecessor, and a row has a
\* higher id than its predecessor, whatever transactions overlap or fail.
NoFork ==
  \A i, j \in DOMAIN events :
    /\ events[i].prev = events[j].prev => i = j
    /\ events[i].hash = events[j].prev => i < j

\* While rows are kept, each row names the row before it in id order, the order
\* in which audit_verify_chain_from walks.
ChainIsLinear ==
  AuditDays = 0 =>
    \A i \in DOMAIN events :
      LET before == {j \in DOMAIN events : j < i} IN
      events[i].prev = IF before = {} THEN NoHash ELSE events[Max(before)].hash

\* audit_chain_tip is the row with the highest id, also after rollbacks that
\* used up ids, and while retention deletes rows.
TipIsHead ==
  \A i \in DOMAIN events :
    /\ i <= tip.id
    /\ i = tip.id => events[i].hash = tip.hash
    /\ AuditDays = 0 => tip.id \in DOMAIN events

\* "Ok(None) when the chain is intact": a verification that reads the log chunk
\* by chunk while rows are added reports a break only if a row was changed, or
\* if retention has been at work: it deletes the rows the chain starts with.
CleanWhenUntouched == verify.st = "broken" => edited # {} \/ (AuditDays > 0 /\ day > AuditDays)

\* "Tampering with any historical row breaks the chain at that point": a row
\* changed before the verification started, after from_id, is found, unless
\* retention has deleted it.
EditsAreFound ==
  verify.st = "clean" => verify.before \cap DOMAIN events = {}

\* To a reader that goes by id, as the webhook dispatcher and the verification
\* do, the table is a log that grows at its end: the id a row gets inside its
\* transaction is higher than any that was visible before the commit.
Log == INSTANCE AuditLog WITH Ids <- 1..MaxId, log <- DOMAIN events, high <- tip.id
ImplementsLog == Log!LogSpec

=============================================================================
