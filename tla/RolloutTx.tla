------------------------------ MODULE RolloutTx ------------------------------
(***************************************************************************)
(* complete_assignment taken apart into its statements, for reports that   *)
(* arrive at the same time (crates/iac-controlplane/src/store.rs).         *)
(*                                                                         *)
(* A transaction reads the row, writes its result, lets advance_canary and *)
(* the layer gate of advance_phased_apply look at the operation and write  *)
(* what they decided, rolls the operation up and commits. Between any two  *)
(* of these another transaction may run.                                   *)
(*                                                                         *)
(* On Postgres transactions run at READ COMMITTED, the default of the      *)
(* pool: a statement sees what is committed when it starts and its own     *)
(* writes, and waits for rows another transaction has written. On SQLite   *)
(* (WAL) the first write of a transaction waits until it is the only       *)
(* writer and fails if somebody committed since its first read; a failed   *)
(* transaction leaves nothing behind and the report is lost.               *)
(*                                                                         *)
(* The other operations of module Rollout stay single steps.               *)
(***************************************************************************)
EXTENDS Rollout

CONSTANTS
  Tx,       \* database connections (the pool has eight)
  Dialect   \* "sqlite" or "postgres"

ASSUME DialectAssumption == Dialect \in {"sqlite", "postgres"}

VARIABLE tx \* the transactions of complete_assignment

txVars == <<vars, tx>>

\* Mutant: an UPDATE that does not look at the status.
Update_AnyStatus(where, from, to) == [where |-> where, from |-> from \cup Result, to |-> to]

\* A decision of one of the gates: an UPDATE that sets the rows of where whose
\* status is in from. Nothing is an UPDATE that is not executed.
Update(where, from, to) == [where |-> where, from |-> from, to |-> to]
Nothing == Update({}, {}, "absent")

NoTx == [pc |-> "none", row |-> <<>>, result |-> "absent", mine |-> <<>>,
         todo |-> Nothing, stale |-> FALSE]

Running(t) == tx[t].pc # "none"

\* Rows t has written and nobody else may write before it ends.
Locked(t) == DOMAIN tx[t].mine
FreeOf(t, rows) == \A u \in Tx \ {t} : Locked(u) \cap rows = {}

\* What a statement of t sees.
View(t) == [r \in Row |-> IF r \in Locked(t) THEN tx[t].mine[r] ELSE asg[r]]

Goto(t, pc) == tx' = [tx EXCEPT ![t].pc = pc]

(***************************************************************************)
(* The statements                                                          *)
(***************************************************************************)

\* SELECT ... status IN ('pending', 'fetched'): anything else is a 404 and no
\* transaction is left. Reports of one row agree: agents repeat what they
\* recorded.
Begin(t, r, result) ==
  /\ ~Running(t)
  /\ r \in shipped
  /\ asg[r] \in {"pending", "fetched"}
  /\ \A u \in Tx : Running(u) /\ tx[u].row = r => tx[u].result = result
  /\ tx' = [tx EXCEPT ![t] = [pc |-> "update", row |-> r, result |-> result,
                              mine |-> <<>>, todo |-> Nothing, stale |-> FALSE]]
  /\ UNCHANGED vars

\* SQLite: nobody else is writing, and the snapshot of the read is current.
MayWrite(t) ==
  Dialect = "sqlite" => (\A u \in Tx \ {t} : Locked(u) = {}) /\ ~tx[t].stale

\* UPDATE assignments SET status = ... WHERE id = ?
WriteResult(t) ==
  LET r == tx[t].row IN
  /\ tx[t].pc = "update"
  /\ MayWrite(t)
  /\ FreeOf(t, {r})
  /\ tx' = [tx EXCEPT ![t].mine = [x \in {r} |-> tx[t].result],
                      ![t].pc = "canary"]
  /\ UNCHANGED vars

\* SQLITE_BUSY, mapped to 503: the transaction is rolled back.
Busy(t) ==
  /\ Dialect = "sqlite"
  /\ tx[t].pc = "update"
  /\ tx' = [tx EXCEPT ![t] = NoTx]
  /\ UNCHANGED vars

OfOp(o) == {r \in Row : OpOf(r) = o}

\* advance_canary: its SELECTs.
ReadCanary(t) ==
  LET o == OpOf(tx[t].row)
      s == View(t)
      l == CHOOSE k \in FailedCanaryLayers(s, o) : TRUE
  IN /\ tx[t].pc = "canary"
     /\ tx' = [tx EXCEPT
                 ![t].todo =
                   IF FailedCanaryLayers(s, o) # {}
                   THEN Update({r \in OfOp(o) : LayerOf(r) # l \/ batch[r] = 1},
                               Live, "cancelled")
                   ELSE Update({r \in OfOp(o) :
                                  LayerOf(r) \in PassedCanaryLayers(s, o)},
                               {"pending_canary"}, "pending"),
                 ![t].pc = "write_canary"]
     /\ UNCHANGED vars

\* advance_phased_apply: its SELECTs.
ReadLayers(t) ==
  LET o == OpOf(tx[t].row)
      s == View(t)
  IN /\ tx[t].pc = "layers"
     /\ tx' = [tx EXCEPT
                 ![t].todo =
                   IF HeldRows(s, o) = {} \/ \E r \in GateRows(s, o) : s[r] \in Live
                   THEN Nothing
                   ELSE IF \E r \in GateRows(s, o) : s[r] \in Failure
                   THEN Update(OfOp(o), {"pending_layer"}, "cancelled")
                   ELSE Update({r \in OfOp(o) : LayerOf(r) = NextLayer(s, o)},
                               {"pending_layer"}, "pending"),
                 ![t].pc = "write_layers"]
     /\ UNCHANGED vars

\* The UPDATE a gate decided on: it waits for rows that others have written.
WriteGate(t, from, to) ==
  LET u    == tx[t].todo
      s    == View(t)
      rows == {r \in u.where : s[r] \in u.from}
  IN /\ tx[t].pc = from
     /\ FreeOf(t, rows)
     /\ tx' = [tx EXCEPT
                 ![t].mine = [r \in Locked(t) \cup rows |->
                                IF r \in rows THEN u.to ELSE tx[t].mine[r]],
                 ![t].todo = Nothing,
                 ![t].pc = to]
     /\ UNCHANGED vars

\* roll_up_operation, the audit row and COMMIT. Transactions that have read but
\* not written hold a snapshot that is out of date now.
Commit(t) ==
  LET o == OpOf(tx[t].row)
      s == View(t)
  IN /\ tx[t].pc = "rollup"
     /\ asg' = s
     /\ opStatus' = [opStatus EXCEPT ![o] = roll_up_operation(s, o)]
     /\ expired' = {x \in expired : s[x] = "fetched"}
     /\ tx' = [u \in Tx |-> IF u = t THEN NoTx
                            ELSE [tx[u] EXCEPT !.stale = Running(u)]]
     /\ UNCHANGED <<registered, desired, batch, polls, shipped>>

(***************************************************************************)
(* Specification                                                           *)
(***************************************************************************)

\* The other operations. Their UPDATEs of assignments wait for locked rows, and
\* on SQLite for the writer; a commit makes snapshots old.
OtherStep ==
  /\ \/ \E a \in Agent : register_agent(a)
     \/ \E o \in Op, m \in Manifest, ra \in BOOLEAN,
           spec \in CanarySpec \cup {NoCanary} : create_operation(o, m, ra, spec)
     \/ \E o \in Op : approve_operation(o) \/ reject_operation(o)
     \/ \E p \in Poll, a \in Agent : fetch_pending_assignments(p, a)
     \/ \E p \in Poll : ShipAssignments(p) \/ revert_assignment_claims(p)
                          \/ LoseAnswer(p)
     \/ \E a \in Agent, r \in Row : claim_ssh_pending(a, r)
     \/ \E r \in Row : LeaseExpires(r)
  /\ \A t \in Tx : \A r \in Locked(t) : asg'[r] = asg[r]
  /\ Dialect = "sqlite" /\ <<asg, opStatus>>' # <<asg, opStatus>> =>
       \A t \in Tx : Locked(t) = {}
  /\ tx' = [t \in Tx |-> [tx[t] EXCEPT
              !.stale = @ \/ (Running(t) /\ <<asg, opStatus>>' # <<asg, opStatus>>)]]

TxStep(t) ==
  \/ WriteResult(t)
  \/ Busy(t)
  \/ ReadCanary(t)
  \/ WriteGate(t, "write_canary", "layers")
  \/ ReadLayers(t)
  \/ WriteGate(t, "write_layers", "rollup")
  \/ Commit(t)

TxNext ==
  \/ OtherStep
  \/ \E t \in Tx, r \in Row, result \in Result : Begin(t, r, result)
  \/ \E t \in Tx : TxStep(t)

TxInit == Init /\ tx = [t \in Tx |-> NoTx]

TxSpec == TxInit /\ [][TxNext]_txVars

(***************************************************************************)
(* Properties                                                              *)
(***************************************************************************)

\* complete_assignment on SQLite: transactions that overlap have the effect of
\* the single step of module Rollout, so everything shown there holds.
RacingIsOneStep == [][Next]_vars

\* store.rs, advance_phased_apply: "Safe to call from multiple completions
\* racing against each other; SQL row updates serialize via the active
\* transaction". When no transaction is running, an operation that is not
\* finished has a row that an agent can still fetch or report.
RacingCompletionsAreSafe ==
  (\A t \in Tx : ~Running(t)) =>
    \A o \in Op : opStatus[o] \in {"pending", "running"} /\ Contiguous(o) =>
      \E r \in Rows(o) : asg[r] \in {"pending", "fetched"}

=============================================================================
