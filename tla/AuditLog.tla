------------------------------ MODULE AuditLog ------------------------------
(***************************************************************************)
(* What the audit log promises to those who read it by id: rows become     *)
(* visible in the order of their ids, whatever transactions overlap, and   *)
(* leave only by retention. AuditChain implements it; Webhook relies on    *)
(* it.                                                                     *)
(***************************************************************************)
EXTENDS Integers

CONSTANT Ids \* the ids that may be handed out

VARIABLES
  log, \* ids of the rows that a SELECT finds
  high \* the highest id that was ever committed

logVars == <<log, high>>

\* A transaction commits the rows S.
AppendRows(S) ==
  /\ S # {}
  /\ \A i \in S : high < i
  /\ log' = log \cup S
  /\ high' \in S /\ \A i \in S : i <= high'

\* Retention keeps some of the rows.
DropRows(kept) ==
  /\ kept # log
  /\ log' = kept
  /\ high' = high

LogInit == log = {} /\ high = 0

LogNext ==
  \/ \E S \in SUBSET Ids : AppendRows(S)
  \/ \E kept \in SUBSET log : DropRows(kept)

LogSpec == LogInit /\ [][LogNext]_logVars

=============================================================================
