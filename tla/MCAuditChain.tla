---------------------------- MODULE MCAuditChain ----------------------------
(***************************************************************************)
(* A small instance of AuditChain.                                         *)
(***************************************************************************)
EXTENDS AuditChain, TLC

AuditSymmetry == Permutations(Tx) \cup Permutations(Record)

=============================================================================
