---------------------------- MODULE RolloutProofs ----------------------------
(***************************************************************************)
(* Safety of the dispatch state machine, for every set of agents,          *)
(* operations, manifests, canary requests and polls, and every number of   *)
(* layers; and of the two modules that implement it: RolloutTx, which has  *)
(* the statements of complete_assignment, and Fleet, which has the agents. *)
(***************************************************************************)
EXTENDS Fleet, RolloutTx, FiniteSetTheorems, TLAPS

(***************************************************************************)
(* What the phased-apply state machine may do to a row                     *)
(***************************************************************************)

\* From s to t only live rows of operation o change, and they become pending
\* or cancelled.
Moves(s, t, o) ==
  /\ t \in [Row -> AsgStatus]
  /\ \A r \in Row : \/ t[r] = s[r]
                    \/ /\ OpOf(r) = o
                       /\ s[r] \in Live
                       /\ t[r] \in {"pending", "cancelled"}

\* advance_canary changes nothing but live rows of its operation.
LEMMA CanaryMoves ==
  ASSUME NEW s \in [Row -> AsgStatus], NEW o
  PROVE  Moves(s, advance_canary(s, o), o)
<1> DEFINE l == CHOOSE k \in FailedCanaryLayers(s, o) : TRUE
<1>1. CASE FailedCanaryLayers(s, o) # {}
  <2>1. advance_canary(s, o) =
          [r \in Row |->
             IF OpOf(r) = o /\ s[r] \in Live /\ (LayerOf(r) # l \/ batch[r] = 1)
             THEN "cancelled" ELSE s[r]]
    BY <1>1 DEF advance_canary
  <2> QED BY <2>1 DEF Moves, AsgStatus, Live, Waiting
<1>2. CASE FailedCanaryLayers(s, o) = {}
  <2>1. advance_canary(s, o) =
          [r \in Row |->
             IF /\ OpOf(r) = o
                /\ s[r] = "pending_canary"
                /\ LayerOf(r) \in PassedCanaryLayers(s, o)
             THEN "pending" ELSE s[r]]
    BY <1>2 DEF advance_canary
  <2> QED BY <2>1 DEF Moves, AsgStatus, Live, Waiting
<1> QED BY <1>1, <1>2

\* The layer gate changes nothing but live rows of its operation.
LEMMA LayersMove ==
  ASSUME NEW s \in [Row -> AsgStatus], NEW o
  PROVE  Moves(s, AdvanceLayers(s, o), o)
<1>1. \A r \in HeldRows(s, o) : r \in Row /\ OpOf(r) = o /\ s[r] \in Live
  BY DEF HeldRows, RowsOf, Live, Waiting
<1> QED BY <1>1 DEF AdvanceLayers, Moves, AsgStatus, Live, Waiting

\* advance_phased_apply changes nothing but live rows of its operation.
LEMMA AdvanceMoves ==
  ASSUME NEW s \in [Row -> AsgStatus], NEW o
  PROVE  Moves(s, advance_phased_apply(s, o), o)
<1> DEFINE c == advance_canary(s, o)
<1>1. Moves(s, c, o)
  BY CanaryMoves
<1>2. Moves(c, AdvanceLayers(c, o), o)
  BY <1>1, LayersMove DEF Moves
<1> HIDE DEF c
<1>3. Moves(s, AdvanceLayers(c, o), o)
  BY <1>1, <1>2 DEF Moves, Live, Waiting
<1> QED BY <1>3 DEF advance_phased_apply, c

\* roll_up_operation leaves the status alone or finishes the operation.
LEMMA RollUpStatus ==
  ASSUME NEW s, NEW o
  PROVE  roll_up_operation(s, o) \in OpFinished \cup {opStatus[o]}
BY DEF roll_up_operation, OpFinished

(***************************************************************************)
(* Types                                                                   *)
(***************************************************************************)

\* The canary split puts every bucket into the canary, the baseline or no batch.
LEMMA SplitType ==
  ASSUME NEW buckets, NEW spec, NEW b \in buckets
  PROVE  compute_canary_split(buckets, spec)[b] \in {NoBatch, 0, 1}
BY DEF compute_canary_split, NoBatch

\* New rows have a type whatever split of the buckets they come with.
LEMMA InsertType ==
  ASSUME TypeOK, NEW o, NEW buckets, NEW split,
         \A b \in buckets : split[b] \in {NoBatch, 0, 1},
         InsertAssignments(o, buckets, split)
  PROVE  asg' \in [Row -> AsgStatus] /\ batch' \in [Row -> {NoBatch, 0, 1}]
BY DEF TypeOK, InsertAssignments, InitialStatus, AsgStatus, Live, Waiting

\* A claim keeps the types of what it writes.
LEMMA ClaimType ==
  ASSUME TypeOK, NEW rows \in SUBSET Row, Claim(rows)
  PROVE  /\ asg' \in [Row -> AsgStatus]
         /\ expired' \subseteq Row
         /\ opStatus' \in [Op -> OpStatus]
BY DEF TypeOK, Claim, AsgStatus, Live, OpStatus

LEMMA TypeInit == Init => TypeOK
BY DEF Init, TypeOK, OpStatus, AsgStatus, Idle

LEMMA TypeStep == TypeOK /\ [Next]_vars => TypeOK'
<1> SUFFICES ASSUME TypeOK, [Next]_vars PROVE TypeOK'
  OBVIOUS
<1>1. ASSUME NEW a \in Agent, register_agent(a) PROVE TypeOK'
  BY <1>1 DEF register_agent, TypeOK
<1>2. ASSUME NEW o \in Op, NEW m \in Manifest, NEW ra \in BOOLEAN,
             NEW spec \in CanarySpec \cup {NoCanary},
             create_operation(o, m, ra, spec)
      PROVE  TypeOK'
  <2> DEFINE buckets == Buckets(m, registered)
             split == compute_canary_split(buckets, spec)
  <2>1. /\ desired' \in [Op -> Manifest \cup {NoManifest}]
        /\ opStatus' \in [Op -> OpStatus]
    BY <1>2 DEF create_operation, TypeOK, OpStatus, OpFinished
  <2>2. asg' \in [Row -> AsgStatus] /\ batch' \in [Row -> {NoBatch, 0, 1}]
    <3>1. CASE ra
      <4>1. InsertAssignments(o, buckets, split) \/ UNCHANGED <<asg, batch>>
        BY <1>2 DEF create_operation
      <4>2. \A b \in buckets : split[b] \in {NoBatch, 0, 1}
        BY SplitType
      <4> QED BY <4>1, <4>2, InsertType DEF TypeOK
    <3>2. CASE ~ra
      <4>1. InsertAssignments(o, buckets, split)
        BY <1>2, <3>2 DEF create_operation
      <4>2. \A b \in buckets : split[b] \in {NoBatch, 0, 1}
        BY SplitType
      <4> QED BY <4>1, <4>2, InsertType
    <3> QED BY <3>1, <3>2
  <2> QED BY <1>2, <2>1, <2>2 DEF create_operation, TypeOK
<1>3. ASSUME NEW o \in Op, approve_operation(o) PROVE TypeOK'
  <2> DEFINE buckets == Buckets(desired[o], registered)
             split == [b \in buckets |-> NoBatch]
  <2>1. asg' \in [Row -> AsgStatus] /\ batch' \in [Row -> {NoBatch, 0, 1}]
    <3>1. InsertAssignments(o, buckets, split)
      BY <1>3 DEF approve_operation
    <3>2. \A b \in buckets : split[b] \in {NoBatch, 0, 1}
      OBVIOUS
    <3> QED BY <3>1, <3>2, InsertType
  <2> QED BY <1>3, <2>1 DEF approve_operation, TypeOK, OpStatus, OpFinished
<1>4. ASSUME NEW o \in Op, reject_operation(o) PROVE TypeOK'
  BY <1>4 DEF reject_operation, TypeOK, OpStatus
<1>5. ASSUME NEW p \in Poll, NEW a \in Agent, fetch_pending_assignments(p, a)
      PROVE  TypeOK'
  <2>1. Claimable(a) \in SUBSET Row
    BY DEF Claimable
  <2>2. Claim(Claimable(a))
    BY <1>5 DEF fetch_pending_assignments
  <2> QED BY <1>5, <2>1, <2>2, ClaimType DEF fetch_pending_assignments, TypeOK
<1>6. ASSUME NEW p \in Poll,
             ShipAssignments(p) \/ revert_assignment_claims(p) \/ LoseAnswer(p)
      PROVE  TypeOK'
  BY <1>6 DEF ShipAssignments, revert_assignment_claims, LoseAnswer, TypeOK,
              AsgStatus, Live, Idle
<1>7. ASSUME NEW a \in Agent, NEW r \in Row, claim_ssh_pending(a, r)
      PROVE  TypeOK'
  <2>1. Claim({r})
    BY <1>7 DEF claim_ssh_pending
  <2> QED BY <1>7, <2>1, ClaimType DEF claim_ssh_pending, TypeOK
<1>8. ASSUME NEW r \in Row, LeaseExpires(r) PROVE TypeOK'
  BY <1>8 DEF LeaseExpires, TypeOK
<1>9. ASSUME NEW r \in Row, NEW result \in Result, complete_assignment(r, result)
      PROVE  TypeOK'
  <2> DEFINE s1 == [asg EXCEPT ![r] = result]
             s2 == advance_phased_apply(s1, OpOf(r))
  <2>1. s1 \in [Row -> AsgStatus]
    BY DEF TypeOK, AsgStatus
  <2>2. s2 \in [Row -> AsgStatus]
    BY <2>1, AdvanceMoves DEF Moves
  <2>3. OpOf(r) \in Op
    BY DEF Row, OpOf
  <2>4. opStatus' = [opStatus EXCEPT ![OpOf(r)] = roll_up_operation(s2, OpOf(r))]
    BY <1>9 DEF complete_assignment, RecordResult
  <2>5. opStatus' \in [Op -> OpStatus]
    BY <2>3, <2>4, RollUpStatus DEF TypeOK, OpStatus
  <2>6. asg' = s2 /\ expired' \subseteq Row
    BY <1>9 DEF complete_assignment, RecordResult, TypeOK
  <2> HIDE DEF s2
  <2> QED BY <1>9, <2>2, <2>5, <2>6 DEF complete_assignment, RecordResult, TypeOK
<1>10. CASE UNCHANGED vars
  BY <1>10 DEF vars, TypeOK
<1> QED BY <1>1, <1>2, <1>3, <1>4, <1>5, <1>6, <1>7, <1>8, <1>9, <1>10 DEF Next

\* TypeOK holds in every state the dispatch state machine reaches.
THEOREM TypeCorrect == Spec => []TypeOK
BY TypeInit, TypeStep, PTL DEF Spec

(***************************************************************************)
(* Finished operations                                                     *)
(*                                                                         *)
(* FinishedIffSettled is inductive as it stands, given the types: a claim  *)
(* or a result needs a live row, so its operation is pending or running.   *)
(***************************************************************************)

\* FinishedIffSettled, for one operation.
Settled(o) ==
  LET live == \E r \in Rows(o) : asg[r] \in Live IN
  /\ opStatus[o] \in {"none", "pending_approval", "rejected"} => Rows(o) = {}
  /\ opStatus[o] \in {"pending", "running"} => live
  /\ opStatus[o] \in OpFinished => ~live /\ opStatus[o] = SettledStatus(o)

\* An operation with a live row is pending or running.
LEMMA LiveOperation ==
  ASSUME TypeOK, FinishedIffSettled, NEW r \in Row, asg[r] \in Live
  PROVE  OpOf(r) \in Op /\ opStatus[OpOf(r)] \in {"pending", "running"}
<1>1. OpOf(r) \in Op
  BY DEF Row, OpOf
<1>2. r \in Rows(OpOf(r))
  BY DEF Rows, RowsOf, Live, Waiting
<1>3. opStatus[OpOf(r)] \in OpStatus
  BY <1>1 DEF TypeOK
<1> QED BY <1>1, <1>2, <1>3 DEF FinishedIffSettled, OpStatus

\* An operation that keeps its status and its rows stays settled.
LEMMA SettledKept ==
  ASSUME NEW o \in Op, Settled(o), opStatus'[o] = opStatus[o],
         \A r \in Row : OpOf(r) = o => asg'[r] = asg[r]
  PROVE  Settled(o)'
<1>1. Rows(o)' = Rows(o)
  BY DEF Rows, RowsOf
<1>2. \A r \in Rows(o) : asg'[r] = asg[r]
  BY DEF Rows, RowsOf
<1> QED BY <1>1, <1>2 DEF Settled, SettledStatus

\* An operation that keeps live rows, and starts running at most, stays settled.
LEMMA SettledLive ==
  ASSUME NEW o \in Op, opStatus'[o] \in {"pending", "running"},
         NEW r \in Row, OpOf(r) = o, asg'[r] \in Live
  PROVE  Settled(o)'
<1>1. r \in Rows(o)'
  BY DEF Rows, RowsOf, Live, Waiting
<1> QED BY <1>1 DEF Settled, OpFinished

\* InsertAssignments settles a new operation: live rows, or none at all.
LEMMA SettledInsert ==
  ASSUME TypeOK, NEW o \in Op, Rows(o) = {},
         NEW buckets \in SUBSET (Agent \X Layer), NEW split,
         InsertAssignments(o, buckets, split),
         opStatus'[o] = IF buckets = {} THEN "succeeded" ELSE "pending"
  PROVE  Settled(o)'
<1>1. CASE buckets = {}
  <2>1. Rows(o)' = {}
    BY <1>1 DEF InsertAssignments, Rows, RowsOf
  <2> QED BY <1>1, <2>1 DEF Settled, SettledStatus, OpFinished
<1>2. CASE buckets # {}
  <2>1. PICK b \in buckets : TRUE
    BY <1>2
  <2>2. PICK a \in Agent, l \in Layer : b = <<a, l>>
    OBVIOUS
  <2> DEFINE r == <<o, a, l>>
  <2>3. r \in Row /\ OpOf(r) = o /\ <<AgentOf(r), LayerOf(r)>> \in buckets
    BY <2>1, <2>2 DEF Row, OpOf, AgentOf, LayerOf
  <2>4. asg'[r] = InitialStatus(LayerOf(r), split[<<AgentOf(r), LayerOf(r)>>])
    BY <2>3 DEF InsertAssignments
  <2>5. asg'[r] \in Live
    BY <2>4 DEF InitialStatus, Live, Waiting
  <2> QED BY <1>2, <2>3, <2>5, SettledLive
<1> QED BY <1>1, <1>2

\* InsertAssignments touches no other operation.
LEMMA InsertFrame ==
  ASSUME TypeOK, NEW o, NEW buckets, NEW split,
         InsertAssignments(o, buckets, split)
  PROVE  \A r \in Row : OpOf(r) # o => asg'[r] = asg[r] /\ batch'[r] = batch[r]
BY DEF InsertAssignments

\* The buckets of a manifest are pairs of an agent and a layer.
LEMMA BucketsType == \A m, reg : Buckets(m, reg) \in SUBSET (Agent \X Layer)
BY DEF Buckets

\* A claim only touches operations with live rows, and leaves them live.
LEMMA SettledClaim ==
  ASSUME TypeOK, FinishedIffSettled, NEW rows \in SUBSET Row,
         \A r \in rows : asg[r] \in {"pending", "fetched"},
         Claim(rows), NEW o \in Op
  PROVE  Settled(o)'
<1>1. CASE \E r \in rows : OpOf(r) = o
  <2>1. PICK r \in rows : OpOf(r) = o
    BY <1>1
  <2>2. opStatus[o] \in {"pending", "running"}
    BY <2>1, LiveOperation DEF Live
  <2>3. opStatus'[o] \in {"pending", "running"}
    BY <2>2 DEF Claim
  <2>4. asg'[r] \in Live
    BY <2>1 DEF Claim, Live
  <2> QED BY <2>1, <2>3, <2>4, SettledLive
<1>2. CASE ~ \E r \in rows : OpOf(r) = o
  <2>1. \A r \in Row : OpOf(r) = o => asg'[r] = asg[r]
    BY <1>2 DEF Claim
  <2>2. opStatus'[o] = opStatus[o]
    BY <1>2 DEF Claim
  <2> QED BY <2>1, <2>2, SettledKept DEF FinishedIffSettled, Settled
<1> QED BY <1>1, <1>2

\* The roll-up sums up the rows of an operation none of which is live.
LEMMA RollUpSettled ==
  ASSUME NEW s \in [Row -> AsgStatus], NEW o \in Op, asg' = s,
         opStatus[o] \in {"pending", "running"},
         opStatus'[o] = roll_up_operation(s, o)
  PROVE  Settled(o)'
<1>1. Rows(o)' = RowsOf(s, o)
  BY DEF Rows, RowsOf
<1>2. \A r \in RowsOf(s, o) : r \in Row /\ OpOf(r) = o
                               /\ s[r] \in AsgStatus \ {"absent"}
  BY DEF RowsOf
<1>3. CASE \E r \in RowsOf(s, o) : s[r] \in Live
  <2>1. opStatus'[o] = opStatus[o]
    BY <1>3 DEF roll_up_operation
  <2> QED BY <1>2, <1>3, <2>1, SettledLive
<1>4. CASE ~ \E r \in RowsOf(s, o) : s[r] \in Live
  <2> DEFINE seen == {s[r] : r \in RowsOf(s, o)}
  <2>1. seen \cap Live = {}
    BY <1>4
  <2>2. \A r \in RowsOf(s, o) : s[r] \in Result \cup {"cancelled"}
    BY <1>2, <1>4 DEF AsgStatus
  <2>3. opStatus'[o] = IF \A r \in RowsOf(s, o) : s[r] = "succeeded"
                       THEN "succeeded"
                       ELSE IF \E r \in RowsOf(s, o) :
                                 s[r] \in {"succeeded", "partially_applied"}
                       THEN "partially_applied" ELSE "failed"
    BY <2>1, <2>2 DEF roll_up_operation, Result
  <2>4. SettledStatus(o)' = opStatus'[o]
    BY <1>1, <2>3 DEF SettledStatus
  <2>5. opStatus'[o] \in OpFinished
    BY <2>3 DEF OpFinished
  <2> QED BY <1>1, <1>4, <2>4, <2>5 DEF Settled, OpFinished
<1> QED BY <1>3, <1>4

LEMMA SettledStep ==
  TypeOK /\ TypeOK' /\ FinishedIffSettled /\ [Next]_vars => FinishedIffSettled'
<1> SUFFICES ASSUME TypeOK, TypeOK', FinishedIffSettled, [Next]_vars, NEW o \in Op
             PROVE  Settled(o)'
  BY DEF FinishedIffSettled, Settled
<1>0. Settled(o)
  BY DEF FinishedIffSettled, Settled
<1>1. CASE asg' = asg /\ opStatus' = opStatus
  BY <1>0, <1>1, SettledKept
<1>2. ASSUME NEW q \in Op, NEW m \in Manifest, NEW ra \in BOOLEAN,
             NEW spec \in CanarySpec \cup {NoCanary},
             create_operation(q, m, ra, spec)
      PROVE  Settled(o)'
  <2> DEFINE buckets == Buckets(m, registered)
             split == compute_canary_split(buckets, spec)
  <2>1. Rows(q) = {} /\ opStatus[q] = "none"
    BY <1>2 DEF create_operation, FinishedIffSettled
  <2>2. CASE o # q
    <3>1. opStatus'[o] = opStatus[o]
      BY <1>2, <2>2 DEF create_operation, TypeOK
    <3>2. \A r \in Row : OpOf(r) = o => asg'[r] = asg[r]
      BY <1>2, <2>2, InsertFrame DEF create_operation
    <3> QED BY <1>0, <3>1, <3>2, SettledKept
  <2>3. CASE o = q /\ ra
    <3>1. asg' = asg /\ opStatus'[o] = "pending_approval"
      BY <1>2, <2>3 DEF create_operation, TypeOK
    <3> QED BY <2>1, <2>3, <3>1 DEF Settled, Rows, RowsOf, OpFinished
  <2>4. CASE o = q /\ ~ra
    <3>1. /\ InsertAssignments(o, buckets, split)
          /\ opStatus'[o] = IF buckets = {} THEN "succeeded" ELSE "pending"
      BY <1>2, <2>4 DEF create_operation, TypeOK
    <3> QED BY <2>1, <2>4, <3>1, BucketsType, SettledInsert
  <2> QED BY <2>2, <2>3, <2>4
<1>3. ASSUME NEW q \in Op, approve_operation(q) PROVE Settled(o)'
  <2> DEFINE buckets == Buckets(desired[q], registered)
             split == [b \in buckets |-> NoBatch]
  <2>1. Rows(q) = {}
    BY <1>3 DEF approve_operation, FinishedIffSettled
  <2>2. InsertAssignments(q, buckets, split)
    BY <1>3 DEF approve_operation
  <2>3. CASE o # q
    <3>1. opStatus'[o] = opStatus[o]
      BY <1>3, <2>3 DEF approve_operation, TypeOK
    <3> QED BY <1>0, <2>2, <2>3, <3>1, InsertFrame, SettledKept
  <2>4. CASE o = q
    <3>1. opStatus'[o] = IF buckets = {} THEN "succeeded" ELSE "pending"
      BY <1>3, <2>4 DEF approve_operation, TypeOK
    <3> HIDE DEF buckets
    <3> QED BY <2>1, <2>2, <2>4, <3>1, BucketsType, SettledInsert DEF buckets
  <2> QED BY <2>3, <2>4
<1>4. ASSUME NEW q \in Op, reject_operation(q) PROVE Settled(o)'
  <2>1. CASE o # q
    BY <1>0, <1>4, <2>1, SettledKept DEF reject_operation, TypeOK
  <2>2. CASE o = q
    <3>1. Rows(o) = {} /\ asg' = asg /\ opStatus'[o] = "rejected"
      BY <1>4, <2>2 DEF reject_operation, FinishedIffSettled, TypeOK
    <3> QED BY <3>1 DEF Settled, Rows, RowsOf, OpFinished
  <2> QED BY <2>1, <2>2
<1>5. ASSUME NEW p \in Poll, NEW a \in Agent, fetch_pending_assignments(p, a)
      PROVE  Settled(o)'
  BY <1>5, SettledClaim DEF fetch_pending_assignments, Claimable
<1>6. ASSUME NEW p \in Poll, revert_assignment_claims(p) PROVE Settled(o)'
  <2>1. opStatus' = opStatus
    BY <1>6 DEF revert_assignment_claims
  <2>2. \A r \in Row : \/ asg'[r] = asg[r]
                       \/ asg[r] = "fetched" /\ asg'[r] = "pending"
    BY <1>6 DEF revert_assignment_claims
  <2>3. CASE \E r \in Row : OpOf(r) = o /\ asg[r] \in Live
    <3>1. PICK r \in Row : OpOf(r) = o /\ asg[r] \in Live
      BY <2>3
    <3>2. opStatus'[o] \in {"pending", "running"}
      BY <2>1, <3>1, LiveOperation
    <3>3. asg'[r] \in Live
      BY <2>2, <3>1 DEF Live
    <3> QED BY <3>1, <3>2, <3>3, SettledLive
  <2>4. CASE ~ \E r \in Row : OpOf(r) = o /\ asg[r] \in Live
    <3>1. \A r \in Row : OpOf(r) = o => asg'[r] = asg[r]
      BY <2>2, <2>4 DEF Live
    <3> QED BY <1>0, <2>1, <3>1, SettledKept
  <2> QED BY <2>3, <2>4
<1>7. ASSUME NEW a \in Agent, NEW r \in Row, claim_ssh_pending(a, r)
      PROVE  Settled(o)'
  BY <1>7, SettledClaim DEF claim_ssh_pending, Claimable
<1>8. ASSUME NEW r \in Row, NEW result \in Result, complete_assignment(r, result)
      PROVE  Settled(o)'
  <2> DEFINE q == OpOf(r)
             s1 == [asg EXCEPT ![r] = result]
             s2 == advance_phased_apply(s1, q)
  <2>1. s1 \in [Row -> AsgStatus]
    BY DEF TypeOK, AsgStatus
  <2>2. Moves(s1, s2, q)
    BY <2>1, AdvanceMoves
  <2>3. asg' = s2 /\ opStatus' = [opStatus EXCEPT ![q] = roll_up_operation(s2, q)]
    BY <1>8 DEF complete_assignment, RecordResult
  <2> HIDE DEF s2
  <2>4. q \in Op /\ opStatus[q] \in {"pending", "running"}
    BY <1>8, LiveOperation DEF complete_assignment, RecordResult, Live
  <2>5. CASE o = q
    <3>1. s2 \in [Row -> AsgStatus] /\ opStatus'[o] = roll_up_operation(s2, o)
      BY <2>2, <2>3, <2>4, <2>5 DEF Moves, TypeOK
    <3> QED BY <2>3, <2>4, <2>5, <3>1, RollUpSettled
  <2>6. CASE o # q
    <3>1. opStatus'[o] = opStatus[o]
      BY <2>3, <2>4, <2>6 DEF TypeOK
    <3>2. \A x \in Row : OpOf(x) = o => asg'[x] = s1[x] /\ x # r
      BY <2>2, <2>3, <2>6 DEF Moves
    <3>3. \A x \in Row : OpOf(x) = o => asg'[x] = asg[x]
      BY <3>2 DEF TypeOK
    <3> QED BY <1>0, <3>1, <3>3, SettledKept
  <2> QED BY <2>5, <2>6
<1>9. ASSUME \/ \E a \in Agent : register_agent(a)
             \/ \E p \in Poll : ShipAssignments(p) \/ LoseAnswer(p)
             \/ \E r \in Row : LeaseExpires(r)
             \/ UNCHANGED vars
      PROVE  Settled(o)'
  <2>1. asg' = asg /\ opStatus' = opStatus
    BY <1>9 DEF register_agent, ShipAssignments, LoseAnswer, LeaseExpires, vars
  <2> QED BY <1>1, <2>1
<1> QED BY <1>2, <1>3, <1>4, <1>5, <1>6, <1>7, <1>8, <1>9 DEF Next

\* roll_up_operation: an operation is finished exactly when it was dispatched
\* and no row of it can change, and its status sums up its rows.
THEOREM FinishedIffSettledCorrect == Spec => []FinishedIffSettled
<1>1. Init => FinishedIffSettled
  BY DEF Init, FinishedIffSettled, Rows, RowsOf, OpFinished
<1> QED BY <1>1, TypeCorrect, SettledStep, PTL DEF Spec

\* FinishedForever: a finished or rejected operation has no live row, and only
\* a live row, or an operation that was not dispatched, lets a step through.
LEMMA FinishedStep ==
  ASSUME TypeOK, FinishedIffSettled, [Next]_vars, NEW o \in Op,
         opStatus[o] \in OpFinished \cup {"rejected"}
  PROVE  /\ opStatus'[o] = opStatus[o]
         /\ \A r \in Row : OpOf(r) = o => asg'[r] = asg[r]
<1> DEFINE Kept == /\ opStatus'[o] = opStatus[o]
                   /\ \A r \in Row : OpOf(r) = o => asg'[r] = asg[r]
<1>0. \A r \in Row : OpOf(r) = o => asg[r] \notin Live
  BY LiveOperation DEF OpFinished
<1>1. ASSUME NEW q \in Op, NEW m \in Manifest, NEW ra \in BOOLEAN,
             NEW spec \in CanarySpec \cup {NoCanary},
             create_operation(q, m, ra, spec)
      PROVE  Kept
  <2>1. o # q
    BY <1>1 DEF create_operation, OpFinished
  <2> QED BY <1>1, <2>1, InsertFrame DEF create_operation, TypeOK
<1>2. ASSUME NEW q \in Op, approve_operation(q) PROVE Kept
  <2>1. o # q
    BY <1>2 DEF approve_operation, OpFinished
  <2> QED BY <1>2, <2>1, InsertFrame DEF approve_operation, TypeOK
<1>3. ASSUME NEW q \in Op, reject_operation(q) PROVE Kept
  BY <1>3 DEF reject_operation, OpFinished, TypeOK
<1>4. ASSUME NEW rows \in SUBSET Row, Claim(rows),
             \A r \in rows : asg[r] \in {"pending", "fetched"}
      PROVE  Kept
  <2>1. \A r \in rows : OpOf(r) # o
    BY <1>0, <1>4 DEF Live
  <2> QED BY <1>4, <2>1 DEF Claim
<1>5. ASSUME NEW p \in Poll, NEW a \in Agent, fetch_pending_assignments(p, a)
      PROVE  Kept
  BY <1>4, <1>5 DEF fetch_pending_assignments, Claimable
<1>6. ASSUME NEW p \in Poll, revert_assignment_claims(p) PROVE Kept
  BY <1>0, <1>6 DEF revert_assignment_claims, Live
<1>7. ASSUME NEW a \in Agent, NEW r \in Row, claim_ssh_pending(a, r) PROVE Kept
  BY <1>4, <1>7 DEF claim_ssh_pending, Claimable
<1>8. ASSUME NEW r \in Row, NEW result \in Result, complete_assignment(r, result)
      PROVE  Kept
  <2> DEFINE s1 == [asg EXCEPT ![r] = result]
             s2 == advance_phased_apply(s1, OpOf(r))
  <2>1. OpOf(r) # o
    BY <1>0, <1>8 DEF complete_assignment, RecordResult, Live
  <2>2. Moves(s1, s2, OpOf(r))
    BY AdvanceMoves DEF TypeOK, AsgStatus
  <2>3. asg' = s2
        /\ opStatus' = [opStatus EXCEPT ![OpOf(r)] = roll_up_operation(s2, OpOf(r))]
    BY <1>8 DEF complete_assignment, RecordResult
  <2> HIDE DEF s2
  <2> QED BY <2>1, <2>2, <2>3 DEF Moves, TypeOK
<1>9. ASSUME \/ \E a \in Agent : register_agent(a)
             \/ \E p \in Poll : ShipAssignments(p) \/ LoseAnswer(p)
             \/ \E r \in Row : LeaseExpires(r)
             \/ UNCHANGED vars
      PROVE  Kept
  BY <1>9 DEF register_agent, ShipAssignments, LoseAnswer, LeaseExpires, vars
<1> QED BY <1>1, <1>2, <1>3, <1>5, <1>6, <1>7, <1>8, <1>9 DEF Next

\* Late results, late reverts and late approvals never change a finished or
\* rejected operation, nor a row of it.
THEOREM FinishedForeverCorrect == Spec => FinishedForever
<1>1. TypeOK /\ FinishedIffSettled /\ [Next]_vars =>
        [\A o \in Op : opStatus[o] \in OpFinished \cup {"rejected"} =>
           /\ opStatus'[o] = opStatus[o]
           /\ \A r \in Row : OpOf(r) = o => asg'[r] = asg[r]]_vars
  BY FinishedStep
<1> QED BY <1>1, TypeCorrect, FinishedIffSettledCorrect, PTL
        DEF Spec, FinishedForever

(***************************************************************************)
(* The gates: no row is dispatched before the rows it stands on succeeded, *)
(* rows are cancelled only for a failure, and a gate never closes for      *)
(* good.                                                                   *)
(*                                                                         *)
(* The gates are not inductive by themselves. What they need besides is    *)
(* where rows may wait (pending_layer only above layer 0, pending_canary   *)
(* only in the baseline of layer 0), and that cancelling is thorough: an   *)
(* operation with a cancelled row has nothing left in pending_layer, and   *)
(* one with a cancelled row in layer 0 nothing in pending_canary.          *)
(***************************************************************************)

\* Where rows of the statuses s may wait.
WaitPlaces(s) ==
  \A r \in Row :
    /\ s[r] = "pending_layer" => LayerOf(r) > 0
    /\ s[r] = "pending_canary" => LayerOf(r) = 0 /\ batch[r] = 1

\* Cancelling leaves nothing behind that waits.
Thorough(s) ==
  \A q, r \in Row : OpOf(q) = OpOf(r) /\ s[q] = "cancelled" =>
    /\ s[r] # "pending_layer"
    /\ LayerOf(q) = 0 => s[r] # "pending_canary"

\* A row that does not exist is in no batch.
BatchOfRows == \A r \in Row : asg[r] = "absent" => batch[r] = NoBatch

GateInv ==
  /\ WaitPlaces(asg)
  /\ Thorough(asg)
  /\ BatchOfRows
  /\ LayerGate
  /\ CanaryGateLayerZero
  /\ CancelledForCause

(***************************************************************************)
(* The two gates, seen from outside                                        *)
(***************************************************************************)

\* Every non-empty set of naturals has a least element.
LEMMA LeastNatural ==
  ASSUME NEW T \in SUBSET Nat, T # {}
  PROVE  \E x \in T : \A y \in T : x <= y
<1> DEFINE I == {0..x : x \in T}
<1>1. I \subseteq FiniteSubsetsOf(Nat) /\ I # {}
  <2>1. ASSUME NEW x \in T PROVE IsFiniteSet(0..x) /\ 0..x \in SUBSET Nat
    <3>1. x \in Int /\ 0 \in Int
      OBVIOUS
    <3>2. IsFiniteSet(0..x)
      BY <3>1, FS_Interval
    <3> QED BY <3>2
  <2> QED BY <2>1 DEF FiniteSubsetsOf
<1>2. PICK i \in I : \A j \in I : ~ (<<j, i>> \in StrictSubsetOrdering(Nat))
  BY <1>1, FS_StrictSubsetOrderingWellFounded, WFMin
<1>3. PICK x \in T : i = 0..x
  BY <1>2
<1>4. ASSUME NEW y \in T, ~(x <= y) PROVE FALSE
  <2>1. y \in Nat /\ x \in Nat /\ y < x
    BY <1>4
  <2>2. 0..y \subseteq 0..x /\ x \in 0..x /\ x \notin 0..y
    BY <2>1
  <2>3. <<0..y, 0..x>> \in StrictSubsetOrdering(Nat)
    BY <2>1, <2>2 DEF StrictSubsetOrdering
  <2> QED BY <1>2, <1>3, <2>3
<1> QED BY <1>4

\* A failed canary: every row that waits is cancelled.
CanaryAborts(s, c, o) ==
  /\ \E q \in Row : OpOf(q) = o /\ s[q] \in Failure
  /\ \A r \in Row : OpOf(r) = o /\ s[r] \in Waiting => c[r] = "cancelled"
  /\ \A r \in Row : c[r] = s[r] \/ (OpOf(r) = o /\ c[r] = "cancelled"
                                               /\ s[r] \in Live)

\* No failed canary: the baseline is released if the canaries are through, and
\* waits for an unfinished canary otherwise.
CanaryPasses(s, c, o) ==
  /\ \A r \in Row :
       \/ c[r] = s[r]
       \/ /\ OpOf(r) = o /\ s[r] = "pending_canary" /\ c[r] = "pending"
          /\ \A q \in Row :
               OpOf(q) = o /\ LayerOf(q) = 0 /\ batch[q] = 0 /\ s[q] # "absent"
               => s[q] \notin {"pending", "fetched"} \cup Failure
  /\ \A r \in Row : OpOf(r) = o /\ c[r] = "pending_canary" =>
       \E q \in Row : OpOf(q) = o /\ c[q] \in {"pending", "fetched"}

\* advance_canary does one or the other.
LEMMA CanaryCases ==
  ASSUME NEW s \in [Row -> AsgStatus], NEW o, WaitPlaces(s)
  PROVE  CanaryAborts(s, advance_canary(s, o), o)
         \/ CanaryPasses(s, advance_canary(s, o), o)
<1> DEFINE c == advance_canary(s, o)
<1>1. \A l \in WaitingLayers(s, o) : l = 0
  BY DEF WaitingLayers, RowsOf, WaitPlaces
<1>2. CASE FailedCanaryLayers(s, o) # {}
  <2> DEFINE l == CHOOSE k \in FailedCanaryLayers(s, o) : TRUE
  <2>1. l \in FailedCanaryLayers(s, o) /\ l = 0
    BY <1>1, <1>2 DEF FailedCanaryLayers
  <2>2. c = [r \in Row |->
               IF OpOf(r) = o /\ s[r] \in Live /\ (LayerOf(r) # l \/ batch[r] = 1)
               THEN "cancelled" ELSE s[r]]
    BY <1>2 DEF advance_canary
  <2>3. \E q \in Row : OpOf(q) = o /\ s[q] \in Failure
    BY <2>1 DEF FailedCanaryLayers, CanaryRows, RowsOf, Failure
  <2> HIDE DEF l, c
  <2>4. ASSUME NEW r \in Row, OpOf(r) = o, s[r] \in Waiting
        PROVE  c[r] = "cancelled"
    <3>1. s[r] \in Live /\ (LayerOf(r) # l \/ batch[r] = 1)
      BY <2>1, <2>4 DEF WaitPlaces, Waiting, Live
    <3> QED BY <2>2, <2>4, <3>1
  <2>5. \A r \in Row : c[r] = s[r] \/ (OpOf(r) = o /\ c[r] = "cancelled"
                                                  /\ s[r] \in Live)
    BY <2>2
  <2> QED BY <2>3, <2>4, <2>5 DEF CanaryAborts, c
<1>3. CASE FailedCanaryLayers(s, o) = {}
  <2>1. c = [r \in Row |->
               IF /\ OpOf(r) = o
                  /\ s[r] = "pending_canary"
                  /\ LayerOf(r) \in PassedCanaryLayers(s, o)
               THEN "pending" ELSE s[r]]
    BY <1>3 DEF advance_canary
  <2> HIDE DEF c
  <2>2. ASSUME NEW r \in Row, c[r] # s[r]
        PROVE  /\ OpOf(r) = o /\ s[r] = "pending_canary" /\ c[r] = "pending"
               /\ \A q \in Row :
                    OpOf(q) = o /\ LayerOf(q) = 0 /\ batch[q] = 0 /\ s[q] # "absent"
                    => s[q] \notin {"pending", "fetched"} \cup Failure
    <3>1. /\ OpOf(r) = o /\ s[r] = "pending_canary" /\ c[r] = "pending"
          /\ LayerOf(r) \in PassedCanaryLayers(s, o)
      BY <2>1, <2>2
    <3>2. 0 \in PassedCanaryLayers(s, o) /\ 0 \in WaitingLayers(s, o)
      BY <1>1, <3>1 DEF PassedCanaryLayers
    <3>3. \A q \in Row : OpOf(q) = o /\ LayerOf(q) = 0 /\ batch[q] = 0
                           /\ s[q] # "absent" => q \in CanaryRows(s, o, 0)
      BY DEF CanaryRows, RowsOf
    <3>4. \A q \in CanaryRows(s, o, 0) : s[q] \notin {"pending", "fetched"}
      BY <3>2 DEF PassedCanaryLayers
    <3>5. \A q \in CanaryRows(s, o, 0) : s[q] \notin Failure
      BY <1>3, <3>2 DEF FailedCanaryLayers, Failure
    <3> QED BY <3>1, <3>3, <3>4, <3>5
  <2>3. ASSUME NEW r \in Row, OpOf(r) = o, c[r] = "pending_canary"
        PROVE  \E q \in Row : OpOf(q) = o /\ c[q] \in {"pending", "fetched"}
    <3>1. s[r] = "pending_canary" /\ LayerOf(r) \notin PassedCanaryLayers(s, o)
      BY <2>1, <2>3
    <3>2. LayerOf(r) \in WaitingLayers(s, o)
      <4>1. LayerOf(r) \in Layer
        BY DEF Row, LayerOf
      <4> QED BY <2>3, <3>1, <4>1 DEF WaitingLayers, RowsOf
    <3>3. PICK q \in CanaryRows(s, o, LayerOf(r)) : s[q] \in {"pending", "fetched"}
      BY <3>1, <3>2 DEF PassedCanaryLayers
    <3>4. q \in Row /\ OpOf(q) = o
      BY <3>3 DEF CanaryRows, RowsOf
    <3>5. c[q] = s[q]
      BY <2>1, <3>3, <3>4
    <3> QED BY <3>3, <3>4, <3>5
  <2> QED BY <2>2, <2>3 DEF CanaryPasses, c
<1> QED BY <1>2, <1>3

\* The layer gate stays closed, because nothing waits for it or because a row
\* other than the ones it holds back is still on its way.
GateStays(c, t, o) ==
  /\ t = c
  /\ \/ \A r \in Row : OpOf(r) = o => c[r] # "pending_layer"
     \/ \E q \in Row : OpOf(q) = o /\ c[q] \in Live \ {"pending_layer"}

\* The layer gate cancels everything it holds back.
GateAborts(c, t, o) ==
  /\ \E q \in Row : OpOf(q) = o /\ c[q] \in Failure
  /\ \A r \in Row : IF OpOf(r) = o /\ c[r] = "pending_layer"
                    THEN t[r] = "cancelled" ELSE t[r] = c[r]

\* The layer gate releases layer n.
GateOpens(c, t, o, n) ==
  /\ \E r \in Row : OpOf(r) = o /\ t[r] = "pending"
  /\ \E r \in Row : OpOf(r) = o /\ c[r] = "pending_layer"
  /\ \A r \in Row :
       \/ t[r] = c[r]
       \/ /\ OpOf(r) = o /\ c[r] = "pending_layer" /\ t[r] = "pending"
          /\ LayerOf(r) = n
  /\ \A q \in Row : OpOf(q) = o /\ LayerOf(q) = n - 1 /\ c[q] # "absent" =>
       c[q] \in {"succeeded", "cancelled"}

\* AdvanceLayers does one of the three.
LEMMA LayerCases ==
  ASSUME NEW c \in [Row -> AsgStatus], NEW o
  PROVE  \/ GateStays(c, AdvanceLayers(c, o), o)
         \/ GateAborts(c, AdvanceLayers(c, o), o)
         \/ \E n \in Layer : GateOpens(c, AdvanceLayers(c, o), o, n)
<1> DEFINE n == NextLayer(c, o)
           t == AdvanceLayers(c, o)
<1>1. \A r \in Row : r \in HeldRows(c, o) <=> OpOf(r) = o /\ c[r] = "pending_layer"
  BY DEF HeldRows, RowsOf
<1>2. \A q \in Row : q \in GateRows(c, o) <=>
        OpOf(q) = o /\ c[q] # "absent" /\ LayerOf(q) = n - 1
  BY DEF GateRows, RowsOf
<1>3. GateRows(c, o) \subseteq Row /\ HeldRows(c, o) \subseteq Row
  BY DEF GateRows, HeldRows, RowsOf
<1>4. CASE HeldRows(c, o) = {}
  <2>1. t = c
    BY <1>4 DEF AdvanceLayers
  <2>2. \A r \in Row : OpOf(r) = o => c[r] # "pending_layer"
    BY <1>1, <1>4
  <2> QED BY <2>1, <2>2 DEF GateStays
<1>5. CASE HeldRows(c, o) # {}
  <2> DEFINE L == {LayerOf(r) : r \in HeldRows(c, o)}
  <2>1. L \subseteq Layer /\ L \subseteq Nat /\ L # {}
    BY <1>3, <1>5, LayerAssumption DEF Row, LayerOf, Layer
  <2>2. \E x \in L : \A y \in L : x <= y
    BY <2>1, LeastNatural
  <2>3. \E l \in Layer : /\ \E r \in HeldRows(c, o) : LayerOf(r) = l
                         /\ \A r \in HeldRows(c, o) : l <= LayerOf(r)
    BY <2>1, <2>2
  <2>4. /\ n \in Layer
        /\ \E r \in HeldRows(c, o) : LayerOf(r) = n
        /\ \A r \in HeldRows(c, o) : n <= LayerOf(r)
    BY <2>3 DEF NextLayer
  <2> HIDE DEF n
  <2>5. CASE \E r \in GateRows(c, o) : c[r] \in Live
    <3>1. PICK q \in GateRows(c, o) : c[q] \in Live
      BY <2>5
    <3>2. q \in Row /\ OpOf(q) = o /\ LayerOf(q) = n - 1
      BY <1>2, <1>3, <3>1
    <3>3. c[q] # "pending_layer"
      <4>1. n \in Nat
        BY <2>4, LayerAssumption DEF Layer
      <4>2. q \notin HeldRows(c, o)
        BY <2>4, <3>2, <4>1
      <4> QED BY <1>1, <3>2, <4>2
    <3>4. t = c
      BY <2>5 DEF AdvanceLayers
    <3> QED BY <3>1, <3>2, <3>3, <3>4 DEF GateStays
  <2>6. CASE /\ ~ \E r \in GateRows(c, o) : c[r] \in Live
             /\ \E r \in GateRows(c, o) : c[r] \in {"failed", "partially_applied"}
    <3>1. t = [r \in Row |-> IF r \in HeldRows(c, o) THEN "cancelled" ELSE c[r]]
      BY <1>5, <2>6 DEF AdvanceLayers
    <3>2. \E q \in Row : OpOf(q) = o /\ c[q] \in Failure
      BY <1>2, <1>3, <2>6 DEF Failure
    <3> HIDE DEF t
    <3>3. \A r \in Row : IF OpOf(r) = o /\ c[r] = "pending_layer"
                         THEN t[r] = "cancelled" ELSE t[r] = c[r]
      BY <1>1, <3>1
    <3> QED BY <3>2, <3>3 DEF GateAborts, t
  <2>7. CASE /\ ~ \E r \in GateRows(c, o) : c[r] \in Live
             /\ ~ \E r \in GateRows(c, o) : c[r] \in {"failed", "partially_applied"}
    <3>1. t = [r \in Row |-> IF r \in HeldRows(c, o) /\ LayerOf(r) = n
                             THEN "pending" ELSE c[r]]
      BY <1>5, <2>7 DEF AdvanceLayers, n
    <3> HIDE DEF t
    <3>2. PICK h \in HeldRows(c, o) : LayerOf(h) = n
      BY <2>4
    <3>3. h \in Row /\ OpOf(h) = o /\ c[h] = "pending_layer" /\ t[h] = "pending"
      BY <1>1, <1>3, <3>1, <3>2
    <3>4. \A r \in Row :
            \/ t[r] = c[r]
            \/ /\ OpOf(r) = o /\ c[r] = "pending_layer" /\ t[r] = "pending"
               /\ LayerOf(r) = n
      BY <1>1, <3>1
    <3>5. \A q \in Row : OpOf(q) = o /\ LayerOf(q) = n - 1 /\ c[q] # "absent" =>
            c[q] \in {"succeeded", "cancelled"}
      BY <1>2, <2>7 DEF AsgStatus, Result
    <3>6. GateOpens(c, t, o, n)
      BY <3>3, <3>4, <3>5 DEF GateOpens
    <3> QED BY <2>4, <3>6 DEF t
  <2> QED BY <2>5, <2>6, <2>7
<1> QED BY <1>4, <1>5

(***************************************************************************)
(* A result                                                                *)
(***************************************************************************)

\* The statuses inside the transaction of a result, step by step: the row's
\* result, then the canary gate, then the layer gate.
Result1(r, result) == [asg EXCEPT ![r] = result]
Result2(r, result) == advance_canary(Result1(r, result), OpOf(r))
Result3(r, result) == AdvanceLayers(Result2(r, result), OpOf(r))

\* What the three steps have in common.
LEMMA ResultSteps ==
  ASSUME TypeOK, GateInv, NEW r \in Row, NEW result \in Result,
         complete_assignment(r, result)
  PROVE  /\ asg' = Result3(r, result)
         /\ batch' = batch
         /\ Result1(r, result) \in [Row -> AsgStatus]
         /\ Moves(Result1(r, result), Result2(r, result), OpOf(r))
         /\ Moves(Result2(r, result), Result3(r, result), OpOf(r))
         /\ WaitPlaces(Result1(r, result))
         /\ WaitPlaces(Result2(r, result))
         /\ Thorough(Result1(r, result))
         /\ Result1(r, result)[r] = result
         /\ \A x \in Row : x # r => Result1(r, result)[x] = asg[x]
<1> DEFINE s == Result1(r, result)
           c == Result2(r, result)
           t == Result3(r, result)
<1>1. asg' = t /\ batch' = batch
  BY DEF complete_assignment, RecordResult, advance_phased_apply, Result1, Result2, Result3
<1>2. s \in [Row -> AsgStatus]
  BY DEF TypeOK, AsgStatus, Result1
<1>3. Moves(s, c, OpOf(r))
  BY <1>2, CanaryMoves DEF Result2
<1>4. Moves(c, t, OpOf(r))
  BY <1>3, LayersMove DEF Moves, Result3
<1>5. s[r] = result /\ \A x \in Row : x # r => s[x] = asg[x]
  BY DEF TypeOK, Result1
<1> HIDE DEF s, c, t
<1>6. WaitPlaces(s)
  BY <1>5 DEF GateInv, WaitPlaces, Result
<1>7. WaitPlaces(c)
  BY <1>3, <1>6 DEF Moves, WaitPlaces
<1>8. Thorough(s)
  BY <1>5 DEF GateInv, Thorough, Result
<1> QED BY <1>1, <1>2, <1>3, <1>4, <1>5, <1>6, <1>7, <1>8 DEF s, c, t

\* After the canary gate, cancelling is thorough.
LEMMA ThoroughCanary ==
  ASSUME NEW s \in [Row -> AsgStatus], NEW o, WaitPlaces(s), Thorough(s)
  PROVE  Thorough(advance_canary(s, o))
<1> DEFINE c == advance_canary(s, o)
<1>1. CanaryAborts(s, c, o) \/ CanaryPasses(s, c, o)
  BY CanaryCases
<1>2. Moves(s, c, o)
  BY CanaryMoves
<1> HIDE DEF c
<1> SUFFICES ASSUME NEW q \in Row, NEW y \in Row, OpOf(q) = OpOf(y),
                    c[q] = "cancelled", c[y] \in Waiting
             PROVE  s[q] = "cancelled" /\ s[y] = c[y]
  BY DEF Thorough, Waiting, c
<1>3. s[y] = c[y]
  BY <1>2 DEF Moves, Waiting
<1>4. CASE CanaryAborts(s, c, o)
  BY <1>3, <1>4 DEF CanaryAborts, Waiting
<1>5. CASE CanaryPasses(s, c, o)
  BY <1>3, <1>5 DEF CanaryPasses
<1> QED BY <1>1, <1>3, <1>4, <1>5

\* After the layer gate too.
LEMMA ThoroughLayers ==
  ASSUME NEW c \in [Row -> AsgStatus], NEW o, WaitPlaces(c), Thorough(c)
  PROVE  Thorough(AdvanceLayers(c, o))
<1> DEFINE t == AdvanceLayers(c, o)
<1>1. \/ GateStays(c, t, o) \/ GateAborts(c, t, o)
      \/ \E n \in Layer : GateOpens(c, t, o, n)
  BY LayerCases
<1>2. Moves(c, t, o)
  BY LayersMove
<1> HIDE DEF t
<1> SUFFICES ASSUME NEW q \in Row, NEW y \in Row, OpOf(q) = OpOf(y),
                    t[q] = "cancelled", t[y] \in Waiting
             PROVE  t[y] = "pending_canary" /\ LayerOf(q) # 0
  BY DEF Thorough, Waiting, t
<1>3. c[y] = t[y]
  BY <1>2 DEF Moves, Waiting
<1>4. CASE t[q] = c[q]
  BY <1>3, <1>4 DEF Thorough, Waiting
<1>5. CASE t[q] # c[q]
  <2>1. GateAborts(c, t, o)
    BY <1>1, <1>5 DEF GateStays, GateOpens
  <2>2. OpOf(q) = o /\ c[q] = "pending_layer"
    BY <1>5, <2>1 DEF GateAborts
  <2>3. c[y] # "pending_layer"
    BY <1>3, <2>1, <2>2 DEF GateAborts
  <2> QED BY <1>3, <2>2, <2>3 DEF WaitPlaces, Waiting
<1> QED BY <1>4, <1>5

\* Neither a gate nor a claim makes a row or takes one away.
LEMMA SameRows ==
  ASSUME \A x \in Row : asg'[x] = "absent" <=> asg[x] = "absent", NEW o
  PROVE  Rows(o)' = Rows(o) /\ Contiguous(o)' = Contiguous(o)
BY DEF Rows, RowsOf, Contiguous

\* A row that is dispatched by a result was released by a gate, unless it was
\* dispatched before.
LEMMA ResultLayerGate ==
  ASSUME TypeOK, GateInv, NEW r \in Row, NEW result \in Result,
         complete_assignment(r, result)
  PROVE  LayerGate'
<1> DEFINE o == OpOf(r)
           s == Result1(r, result)
           c == Result2(r, result)
           t == Result3(r, result)
<1>1. /\ asg' = t /\ batch' = batch
      /\ s \in [Row -> AsgStatus]
      /\ Moves(s, c, o) /\ Moves(c, t, o)
      /\ WaitPlaces(s) /\ WaitPlaces(c) /\ Thorough(s)
      /\ s[r] = result
      /\ \A x \in Row : x # r => s[x] = asg[x]
  BY ResultSteps
<1>2. asg[r] \in {"pending", "fetched"}
  BY DEF complete_assignment, RecordResult
<1>3. CanaryAborts(s, c, o) \/ CanaryPasses(s, c, o)
  BY <1>1, CanaryCases DEF Result2
<1>4. \/ GateStays(c, t, o) \/ GateAborts(c, t, o)
      \/ \E n \in Layer : GateOpens(c, t, o, n)
  BY <1>1, LayerCases DEF Moves, Result3
<1>5. Thorough(c)
  BY <1>1, ThoroughCanary DEF Result2
<1> HIDE DEF s, c, t
<1>6. \A x \in Row : asg'[x] = "absent" <=> asg[x] = "absent"
  BY <1>1, <1>2 DEF Moves, Live, Waiting, Result
<1> SUFFICES ASSUME NEW p \in Op, Contiguous(p)', NEW q \in Rows(p)',
                    NEW y \in Rows(p)', LayerOf(q) < LayerOf(y), Dispatched(y)'
             PROVE  t[q] = "succeeded"
  BY <1>1 DEF LayerGate
<1>7. /\ Contiguous(p) /\ q \in Rows(p) /\ y \in Rows(p)
      /\ q \in Row /\ y \in Row /\ OpOf(q) = p /\ OpOf(y) = p
  BY <1>6, SameRows DEF Rows, RowsOf
<1>8. ASSUME NEW x \in Rows(p), asg[x] = "succeeded"
      PROVE  s[x] = "succeeded" /\ c[x] = "succeeded" /\ t[x] = "succeeded"
  <2>1. x \in Row /\ x # r
    BY <1>2, <1>8 DEF Rows, RowsOf
  <2> QED BY <1>1, <1>8, <2>1 DEF Moves, Live, Waiting
<1>9. CASE Dispatched(y)
  <2>1. asg[q] = "succeeded"
    BY <1>7, <1>9 DEF GateInv, LayerGate
  <2> QED BY <1>7, <1>8, <2>1
<1>10. CASE ~Dispatched(y)
  <2>1. y # r /\ s[y] = asg[y]
    BY <1>1, <1>2, <1>7, <1>10 DEF Dispatched
  <2>2. t[y] # s[y]
    BY <1>1, <1>10, <2>1 DEF Dispatched
  <2>3. c[y] = s[y]
    <3>1. LayerOf(y) > 0
      BY <1>7 DEF Row, LayerOf, Layer
    <3>2. s[y] # "pending_canary"
      BY <1>1, <1>7, <3>1 DEF WaitPlaces
    <3>3. CASE CanaryPasses(s, c, o)
      BY <1>7, <3>2, <3>3 DEF CanaryPasses
    <3>4. CASE CanaryAborts(s, c, o)
      <4>1. SUFFICES ASSUME c[y] # s[y] PROVE FALSE
        OBVIOUS
      <4>2. c[y] = "cancelled"
        BY <1>7, <3>4, <4>1 DEF CanaryAborts
      <4>3. t[y] = "cancelled"
        BY <1>1, <1>7, <4>2 DEF Moves, Live, Waiting
      <4> QED BY <1>1, <4>3 DEF Dispatched, Result
    <3> QED BY <1>3, <3>3, <3>4
  <2>4. PICK n \in Layer : GateOpens(c, t, o, n)
    <3>1. ~GateStays(c, t, o)
      BY <2>2, <2>3 DEF GateStays
    <3>2. ~GateAborts(c, t, o)
      BY <1>1, <1>7, <2>2, <2>3 DEF GateAborts, Dispatched, Result
    <3> QED BY <1>4, <3>1, <3>2
  <2>5. p = o /\ c[y] = "pending_layer" /\ LayerOf(y) = n
    BY <1>7, <2>2, <2>3, <2>4 DEF GateOpens
  <2>6. n \in Nat /\ n > 0 /\ LayerOf(q) \in Nat
    BY <1>1, <1>7, <2>5, LayerAssumption DEF WaitPlaces, Layer, Row, LayerOf
  <2>7. ASSUME NEW x \in Rows(p), LayerOf(x) = n - 1
        PROVE  c[x] = "succeeded" /\ t[x] = "succeeded" /\ s[x] = "succeeded"
    <3>1. x \in Row /\ OpOf(x) = o /\ asg[x] # "absent"
      BY <2>5 DEF Rows, RowsOf
    <3>2. c[x] # "absent"
      BY <1>1, <1>2, <3>1 DEF Moves, Live, Waiting, Result
    <3>3. c[x] \in {"succeeded", "cancelled"}
      BY <2>4, <2>7, <3>1, <3>2 DEF GateOpens
    <3>4. c[x] # "cancelled"
      BY <1>5, <1>7, <2>5, <3>1 DEF Thorough
    <3> QED BY <1>1, <3>1, <3>3, <3>4 DEF Moves, Live, Waiting
  <2>8. CASE LayerOf(q) = n - 1
    BY <1>7, <2>7, <2>8
  <2>9. CASE LayerOf(q) < n - 1
    <3>1. PICK g \in Rows(p) : LayerOf(g) = n - 1
      BY <1>7, <2>5, <2>6 DEF Contiguous
    <3>2. s[g] = "succeeded"
      BY <2>7, <3>1
    <3>3. Dispatched(g)
      <4>1. g \in Row
        BY DEF Rows, RowsOf
      <4> QED BY <1>1, <1>2, <3>2, <4>1 DEF Dispatched, Result
    <3>4. asg[q] = "succeeded"
      BY <1>7, <2>9, <3>1, <3>3 DEF GateInv, LayerGate
    <3> QED BY <1>7, <1>8, <3>4
  <2> QED BY <2>5, <2>6, <2>8, <2>9
<1> QED BY <1>9, <1>10

\* A baseline row of layer 0 that is dispatched by a result was released by
\* advance_canary, unless it was dispatched before.
LEMMA ResultCanaryGate ==
  ASSUME TypeOK, GateInv, NEW r \in Row, NEW result \in Result,
         complete_assignment(r, result)
  PROVE  CanaryGateLayerZero'
<1> DEFINE o == OpOf(r)
           s == Result1(r, result)
           c == Result2(r, result)
           t == Result3(r, result)
<1>1. /\ asg' = t /\ batch' = batch
      /\ s \in [Row -> AsgStatus]
      /\ Moves(s, c, o) /\ Moves(c, t, o)
      /\ WaitPlaces(s) /\ WaitPlaces(c) /\ Thorough(s)
      /\ s[r] = result
      /\ \A x \in Row : x # r => s[x] = asg[x]
  BY ResultSteps
<1>2. asg[r] \in {"pending", "fetched"}
  BY DEF complete_assignment, RecordResult
<1>3. CanaryAborts(s, c, o) \/ CanaryPasses(s, c, o)
  BY <1>1, CanaryCases DEF Result2
<1>4. \/ GateStays(c, t, o) \/ GateAborts(c, t, o)
      \/ \E n \in Layer : GateOpens(c, t, o, n)
  BY <1>1, LayerCases DEF Moves, Result3
<1> HIDE DEF s, c, t
<1> SUFFICES ASSUME NEW q \in Row, NEW y \in Row, OpOf(q) = OpOf(y),
                    LayerOf(q) = 0, LayerOf(y) = 0, batch[q] = 0, batch[y] = 1,
                    Dispatched(y)'
             PROVE  t[q] = "succeeded"
  BY <1>1 DEF CanaryGateLayerZero
<1>5. asg[q] # "absent" /\ asg[q] \in AsgStatus
  BY DEF GateInv, BatchOfRows, NoBatch, TypeOK
<1>6. CASE Dispatched(y)
  <2>1. asg[q] = "succeeded" /\ q # r
    BY <1>2, <1>6 DEF GateInv, CanaryGateLayerZero
  <2> QED BY <1>1, <2>1 DEF Moves, Live, Waiting
<1>7. CASE ~Dispatched(y)
  <2>1. y # r /\ s[y] = asg[y] /\ t[y] # s[y]
    BY <1>1, <1>2, <1>7 DEF Dispatched
  <2>2. c[y] # "pending_layer"
    BY <1>1 DEF WaitPlaces
  <2>3. t[y] = c[y]
    <3>1. CASE \E n \in Layer : GateOpens(c, t, o, n)
      BY <2>2, <3>1 DEF GateOpens
    <3>2. CASE GateAborts(c, t, o)
      BY <2>2, <3>2 DEF GateAborts
    <3>3. CASE GateStays(c, t, o)
      BY <3>3 DEF GateStays
    <3> QED BY <1>4, <3>1, <3>2, <3>3
  <2>4. CanaryPasses(s, c, o)
    BY <1>1, <1>3, <2>1, <2>3 DEF CanaryAborts, Dispatched, Result
  <2>5. /\ OpOf(y) = o /\ s[y] = "pending_canary"
        /\ \A x \in Row :
             OpOf(x) = o /\ LayerOf(x) = 0 /\ batch[x] = 0 /\ s[x] # "absent"
             => s[x] \notin {"pending", "fetched"} \cup Failure
    BY <2>1, <2>3, <2>4 DEF CanaryPasses
  <2>6. s[q] # "absent"
    BY <1>1, <1>5 DEF Result
  <2>7. s[q] \notin {"pending", "fetched"} \cup Failure
    BY <2>5, <2>6
  <2>8. s[q] # "pending_layer" /\ s[q] # "pending_canary"
    BY <1>1 DEF WaitPlaces
  <2>9. s[q] # "cancelled"
    BY <1>1, <2>5 DEF Thorough
  <2>10. s[q] \in AsgStatus
    BY <1>1
  <2>11. s[q] = "succeeded"
    BY <2>6, <2>7, <2>8, <2>9, <2>10
       DEF AsgStatus, Live, Waiting, Result, Failure
  <2> QED BY <1>1, <2>11 DEF Moves, Live, Waiting
<1> QED BY <1>6, <1>7

\* A result cancels rows only after a failure.
LEMMA ResultCause ==
  ASSUME TypeOK, GateInv, NEW r \in Row, NEW result \in Result,
         complete_assignment(r, result)
  PROVE  CancelledForCause'
<1> DEFINE o == OpOf(r)
           s == Result1(r, result)
           c == Result2(r, result)
           t == Result3(r, result)
<1>1. /\ asg' = t
      /\ s \in [Row -> AsgStatus]
      /\ Moves(s, c, o) /\ Moves(c, t, o)
      /\ WaitPlaces(s)
      /\ s[r] = result
      /\ \A x \in Row : x # r => s[x] = asg[x]
  BY ResultSteps
<1>2. asg[r] \in {"pending", "fetched"}
  BY DEF complete_assignment, RecordResult
<1>3. CanaryAborts(s, c, o) \/ CanaryPasses(s, c, o)
  BY <1>1, CanaryCases DEF Result2
<1>4. \/ GateStays(c, t, o) \/ GateAborts(c, t, o)
      \/ \E n \in Layer : GateOpens(c, t, o, n)
  BY <1>1, LayerCases DEF Moves, Result3
<1> HIDE DEF s, c, t
<1>5. ASSUME NEW q \in Row, c[q] \in Failure PROVE t[q] \in Failure
  BY <1>1, <1>5 DEF Moves, Live, Waiting, Failure
<1>6. ASSUME NEW q \in Row, s[q] \in Failure PROVE t[q] \in Failure
  <2>1. c[q] \in Failure
    BY <1>1, <1>6 DEF Moves, Live, Waiting, Failure
  <2> QED BY <1>5, <2>1
<1> SUFFICES ASSUME NEW y \in Row, t[y] = "cancelled"
             PROVE  \E q \in Row : OpOf(q) = OpOf(y) /\ t[q] \in Failure
  BY <1>1 DEF CancelledForCause, Rows, RowsOf, Failure
<1>7. CASE s[y] = "cancelled"
  <2>1. asg[y] = "cancelled"
    BY <1>1, <1>7 DEF Result
  <2>2. PICK q \in Row : OpOf(q) = OpOf(y) /\ asg[q] \in Failure
    BY <2>1 DEF GateInv, CancelledForCause, Rows, RowsOf
  <2>3. s[q] \in Failure
    BY <1>1, <1>2, <2>2 DEF Failure
  <2> QED BY <1>6, <2>2, <2>3
<1>8. CASE s[y] # "cancelled" /\ c[y] = "cancelled"
  <2>1. CanaryAborts(s, c, o) /\ OpOf(y) = o
    BY <1>3, <1>8 DEF CanaryAborts, CanaryPasses
  <2> QED BY <1>6, <2>1 DEF CanaryAborts
<1>9. CASE c[y] # "cancelled"
  <2>1. GateAborts(c, t, o) /\ OpOf(y) = o
    BY <1>4, <1>9 DEF GateStays, GateAborts, GateOpens
  <2> QED BY <1>5, <2>1 DEF GateAborts
<1> QED BY <1>7, <1>8, <1>9

(***************************************************************************)
(* The other steps                                                         *)
(***************************************************************************)

\* Claims and reverts only move rows between pending and fetched.
Handover ==
  /\ batch' = batch
  /\ \A x \in Row : \/ asg'[x] = asg[x]
                    \/ /\ asg[x] \in {"pending", "fetched"}
                       /\ asg'[x] \in {"pending", "fetched"}

\* No gate notices a claim or a revert.
LEMMA HandoverGates ==
  ASSUME GateInv, Handover
  PROVE  GateInv'
<1>1. \A x \in Row : asg'[x] = "absent" <=> asg[x] = "absent"
  BY DEF Handover
<1>2. \A x \in Row : Dispatched(x)' <=> Dispatched(x)
  BY DEF Handover, Dispatched, Result
<1>3. \A x \in Row : asg[x] = "succeeded" => asg'[x] = "succeeded"
  BY DEF Handover
<1>4. WaitPlaces(asg)' /\ Thorough(asg)' /\ BatchOfRows'
  BY <1>1 DEF GateInv, Handover, WaitPlaces, Thorough, BatchOfRows
<1>5. LayerGate'
  <2>1. \A o \in Op : Rows(o)' = Rows(o) /\ Contiguous(o)' = Contiguous(o)
    BY <1>1, SameRows
  <2>2. \A o \in Op : Rows(o) \subseteq Row
    BY DEF Rows, RowsOf
  <2> QED BY <1>2, <1>3, <2>1, <2>2 DEF GateInv, LayerGate
<1>6. CanaryGateLayerZero'
  BY <1>2, <1>3 DEF GateInv, CanaryGateLayerZero, Handover
<1>7. CancelledForCause'
  BY DEF GateInv, CancelledForCause, Handover, Rows, RowsOf, Failure
<1> QED BY <1>4, <1>5, <1>6, <1>7 DEF GateInv

\* New rows wait where they should: all but layer 0 behind the layer gate, the
\* baseline of layer 0 behind the canary gate.
LEMMA InsertGates ==
  ASSUME TypeOK, TypeOK', GateInv, NEW o \in Op, Rows(o) = {},
         NEW buckets, NEW split, InsertAssignments(o, buckets, split)
  PROVE  GateInv'
<1>1. \A x \in Row : OpOf(x) # o => asg'[x] = asg[x] /\ batch'[x] = batch[x]
  BY InsertFrame
<1>2. \A x \in Row : OpOf(x) = o => asg[x] = "absent"
  BY DEF Rows, RowsOf
<1>3. \A x \in Row : OpOf(x) = o =>
        \/ asg'[x] = "absent" /\ batch'[x] = NoBatch
        \/ asg'[x] = InitialStatus(LayerOf(x), batch'[x])
  BY <1>2 DEF InsertAssignments, GateInv, BatchOfRows
<1>4. \A x \in Row : LayerOf(x) \in Nat
  BY LayerAssumption DEF Row, LayerOf, Layer
<1>5. \A x \in Row : OpOf(x) = o =>
        /\ asg'[x] \in {"absent", "pending", "pending_layer", "pending_canary"}
        /\ asg'[x] = "absent" => batch'[x] = NoBatch
        /\ asg'[x] = "pending" => LayerOf(x) = 0 /\ batch'[x] # 1
        /\ asg'[x] = "pending_layer" => LayerOf(x) > 0
        /\ asg'[x] = "pending_canary" => LayerOf(x) = 0 /\ batch'[x] = 1
  BY <1>3, <1>4 DEF InitialStatus
<1>6. WaitPlaces(asg)'
  BY <1>1, <1>5 DEF GateInv, WaitPlaces
<1>7. Thorough(asg)'
  BY <1>1, <1>5 DEF GateInv, Thorough
<1>8. BatchOfRows'
  BY <1>1, <1>5 DEF GateInv, BatchOfRows
<1>9. LayerGate'
  <2> SUFFICES ASSUME NEW p \in Op, Contiguous(p)', NEW q \in Rows(p)',
                      NEW y \in Rows(p)', LayerOf(q) < LayerOf(y), Dispatched(y)'
               PROVE  asg'[q] = "succeeded"
    BY DEF LayerGate
  <2>1. q \in Row /\ y \in Row /\ OpOf(q) = p /\ OpOf(y) = p
    BY DEF Rows, RowsOf
  <2>2. CASE p = o
    BY <1>4, <1>5, <2>1, <2>2 DEF Dispatched, Result
  <2>3. CASE p # o
    <3>1. Rows(p)' = Rows(p) /\ Contiguous(p)' = Contiguous(p)
      BY <1>1, <2>3 DEF Rows, RowsOf, Contiguous
    <3> QED BY <1>1, <2>1, <2>3, <3>1 DEF GateInv, LayerGate, Dispatched
  <2> QED BY <2>2, <2>3
<1>10. CanaryGateLayerZero'
  <2> SUFFICES ASSUME NEW q \in Row, NEW y \in Row, OpOf(q) = OpOf(y),
                      LayerOf(q) = 0, LayerOf(y) = 0, batch'[q] = 0, batch'[y] = 1,
                      Dispatched(y)'
               PROVE  asg'[q] = "succeeded"
    BY DEF CanaryGateLayerZero
  <2>1. CASE OpOf(y) = o
    BY <1>5, <2>1 DEF Dispatched, Result
  <2>2. CASE OpOf(y) # o
    BY <1>1, <2>2 DEF GateInv, CanaryGateLayerZero, Dispatched
  <2> QED BY <2>1, <2>2
<1>11. CancelledForCause'
  <2> SUFFICES ASSUME NEW y \in Row, asg'[y] = "cancelled"
               PROVE  \E q \in Row : OpOf(q) = OpOf(y) /\ asg'[q] \in Failure
    BY DEF CancelledForCause, Rows, RowsOf, Failure
  <2>1. OpOf(y) # o /\ asg[y] = "cancelled"
    BY <1>1, <1>5
  <2> QED BY <1>1, <2>1 DEF GateInv, CancelledForCause, Rows, RowsOf
<1> QED BY <1>6, <1>7, <1>8, <1>9, <1>10, <1>11 DEF GateInv

LEMMA ResultGates ==
  ASSUME TypeOK, GateInv, NEW r \in Row, NEW result \in Result,
         complete_assignment(r, result)
  PROVE  GateInv'
<1> DEFINE s == Result1(r, result)
           c == Result2(r, result)
           t == Result3(r, result)
<1>1. /\ asg' = t /\ batch' = batch
      /\ s \in [Row -> AsgStatus]
      /\ Moves(s, c, OpOf(r)) /\ Moves(c, t, OpOf(r))
      /\ WaitPlaces(s) /\ WaitPlaces(c) /\ Thorough(s)
      /\ \A x \in Row : x # r => s[x] = asg[x]
  BY ResultSteps
<1>2. Thorough(t)
  <2>1. Thorough(c)
    BY <1>1, ThoroughCanary DEF Result2
  <2> QED BY <1>1, <2>1, ThoroughLayers DEF Result3, Moves
<1>3. asg[r] \in {"pending", "fetched"}
  BY DEF complete_assignment, RecordResult
<1> HIDE DEF s, c, t
<1>4. WaitPlaces(t)
  BY <1>1 DEF Moves, WaitPlaces
<1>5. \A x \in Row : t[x] = "absent" => asg[x] = "absent"
  BY <1>1, <1>3, ResultSteps DEF Moves, Result, s
<1>6. WaitPlaces(asg)' /\ Thorough(asg)' /\ BatchOfRows'
  BY <1>1, <1>2, <1>4, <1>5 DEF GateInv, WaitPlaces, Thorough, BatchOfRows
<1> QED BY <1>6, ResultLayerGate, ResultCanaryGate, ResultCause DEF GateInv

\* The steps that leave assignments alone, hand them over, insert new ones or
\* take a result: every step is one of these.
LEMMA StepKinds ==
  ASSUME TypeOK, FinishedIffSettled, [Next]_vars
  PROVE  \/ Handover /\ \A o \in Op : opStatus'[o] \in {"pending", "running"}
                                        => opStatus[o] \in {"pending", "running"}
         \/ \E o \in Op, m \in Manifest, spec \in CanarySpec \cup {NoCanary} :
              create_operation(o, m, FALSE, spec)
         \/ \E o \in Op : approve_operation(o)
         \/ \E r \in Row, result \in Result : complete_assignment(r, result)
<1> DEFINE Kept == Handover /\ \A o \in Op : opStatus'[o] \in {"pending", "running"}
                                       => opStatus[o] \in {"pending", "running"}
<1>1. ASSUME NEW o \in Op, NEW m \in Manifest, NEW ra \in BOOLEAN,
             NEW spec \in CanarySpec \cup {NoCanary},
             create_operation(o, m, ra, spec), ra # FALSE
      PROVE  Kept
  BY <1>1 DEF create_operation, Handover, TypeOK
<1>2. ASSUME NEW o \in Op, reject_operation(o) PROVE Kept
  BY <1>2 DEF reject_operation, Handover, TypeOK
<1>3. ASSUME NEW rows \in SUBSET Row, Claim(rows), batch' = batch,
             \A r \in rows : asg[r] \in {"pending", "fetched"}
      PROVE  Kept
  BY <1>3 DEF Claim, Handover
<1>4. ASSUME NEW p \in Poll, NEW a \in Agent, fetch_pending_assignments(p, a)
      PROVE  Kept
  BY <1>3, <1>4 DEF fetch_pending_assignments, Claimable
<1>5. ASSUME NEW p \in Poll, revert_assignment_claims(p) PROVE Kept
  BY <1>5 DEF revert_assignment_claims, Handover
<1>6. ASSUME NEW a \in Agent, NEW r \in Row, claim_ssh_pending(a, r) PROVE Kept
  BY <1>3, <1>6 DEF claim_ssh_pending, Claimable
<1>7. ASSUME \/ \E a \in Agent : register_agent(a)
             \/ \E p \in Poll : ShipAssignments(p) \/ LoseAnswer(p)
             \/ \E r \in Row : LeaseExpires(r)
             \/ UNCHANGED vars
      PROVE  Kept
  BY <1>7 DEF register_agent, ShipAssignments, LoseAnswer, LeaseExpires, vars,
              Handover
<1> QED BY <1>1, <1>2, <1>4, <1>5, <1>6, <1>7 DEF Next

LEMMA GateStep ==
  TypeOK /\ TypeOK' /\ FinishedIffSettled /\ GateInv /\ [Next]_vars => GateInv'
<1> SUFFICES ASSUME TypeOK, TypeOK', FinishedIffSettled, GateInv, [Next]_vars
             PROVE  GateInv'
  OBVIOUS
<1>1. ASSUME NEW o \in Op, NEW m \in Manifest,
             NEW spec \in CanarySpec \cup {NoCanary},
             create_operation(o, m, FALSE, spec)
      PROVE  GateInv'
  BY <1>1, InsertGates DEF create_operation, FinishedIffSettled
<1>2. ASSUME NEW o \in Op, approve_operation(o) PROVE GateInv'
  BY <1>2, InsertGates DEF approve_operation, FinishedIffSettled
<1> QED BY <1>1, <1>2, StepKinds, HandoverGates, ResultGates

LEMMA GateInit == Init => GateInv
BY DEF Init, GateInv, WaitPlaces, Thorough, BatchOfRows, LayerGate,
       CanaryGateLayerZero, CancelledForCause, Rows, RowsOf, Dispatched, Result

LEMMA GateInvCorrect == Spec => []GateInv
BY GateInit, GateStep, TypeCorrect, FinishedIffSettledCorrect, PTL DEF Spec

\* advance_phased_apply: in an operation without holes a row is dispatched only
\* when every row of every lower layer has succeeded.
THEOREM LayerGateCorrect == Spec => []LayerGate
<1>1. GateInv => LayerGate
  BY DEF GateInv
<1> QED BY <1>1, GateInvCorrect, PTL

\* advance_canary: the baseline of layer 0 is released only when every canary
\* of layer 0 has succeeded.
THEOREM CanaryGateCorrect == Spec => []CanaryGateLayerZero
<1>1. GateInv => CanaryGateLayerZero
  BY DEF GateInv
<1> QED BY <1>1, GateInvCorrect, PTL

\* Rows are cancelled only in operations of which a row has failed.
THEOREM CancelledForCauseCorrect == Spec => []CancelledForCause
<1>1. GateInv => CancelledForCause
  BY DEF GateInv
<1> QED BY <1>1, GateInvCorrect, PTL

(***************************************************************************)
(* No gate closes for good                                                 *)
(***************************************************************************)

\* The smaller and the larger of a few numbers exist.
LEMMA MaxOfThree ==
  ASSUME NEW a \in Int, NEW b \in Int, NEW d \in Int
  PROVE  Max({a, b, d}) \in Int /\ Max({a, b, d}) >= d
<1> DEFINE S == {a, b, d}
<1>1. \E x \in S : \A y \in S : x >= y
  OBVIOUS
<1>2. Max(S) \in S /\ \A y \in S : Max(S) >= y
  BY <1>1 DEF Max
<1> HIDE DEF S
<1>3. Max(S) \in Int /\ Max(S) >= d
  BY <1>2 DEF S
<1> QED BY <1>3 DEF S

LEMMA MaxOfTwo ==
  ASSUME NEW a \in Int, NEW b \in Int
  PROVE  Max({a, b}) \in Int
<1> DEFINE S == {a, b}
<1>1. \E x \in S : \A y \in S : x >= y
  OBVIOUS
<1>2. Max(S) \in S
  BY <1>1 DEF Max
<1> QED BY <1>2

LEMMA MinOfTwo ==
  ASSUME NEW a \in Int, NEW b \in Int
  PROVE  Min({a, b}) \in {a, b}
<1> DEFINE S == {a, b}
<1>1. \E x \in S : \A y \in S : x =< y
  OBVIOUS
<1>2. Min(S) \in S
  BY <1>1 DEF Min
<1> QED BY <1>2

\* A layer with two agents or more has a canary.
LEMMA CanaryCountPositive ==
  ASSUME NEW n \in Nat, n > 1, NEW spec \in CanarySpec
  PROVE  CanaryCount(n, spec) \in Int /\ CanaryCount(n, spec) >= 1
<1> DEFINE pct  == Max({1, Min({99, spec.pct})})
           frac == (n * pct + 99) \div 100
           want == Max({frac, spec.min_count, 1})
<1>1. spec.pct \in Nat /\ spec.min_count \in Nat
  BY CanaryAssumption
<1>2. Min({99, spec.pct}) \in Int
  BY <1>1, MinOfTwo
<1>3. pct \in Int
  BY <1>2, MaxOfTwo
<1> HIDE DEF pct
<1>4. frac \in Int
  <2>1. n * pct + 99 \in Int
    BY <1>3
  <2> HIDE DEF pct
  <2> QED BY <2>1
<1> HIDE DEF frac
<1>5. want \in Int /\ want >= 1
  BY <1>1, <1>4, MaxOfThree
<1> HIDE DEF want
<1>6. Min({want, n - 1}) \in {want, n - 1}
  BY <1>5, MinOfTwo
<1>7. CanaryCount(n, spec) = Min({want, n - 1})
  BY DEF CanaryCount, want, frac, pct
<1> QED BY <1>5, <1>6, <1>7

\* Every layer that has buckets has one outside the baseline.
LEMMA SplitHasFirstBatch ==
  ASSUME NEW buckets \in SUBSET (Agent \X Layer), NEW l \in Layer,
         NEW spec \in CanarySpec \cup {NoCanary}, AgentsAt(buckets, l) # {}
  PROVE  \E a \in Agent : /\ <<a, l>> \in buckets
                          /\ compute_canary_split(buckets, spec)[<<a, l>>] # 1
<1> DEFINE A == AgentsAt(buckets, l)
           split == compute_canary_split(buckets, spec)
<1>1. A \subseteq Agent /\ \A a \in A : <<a, l>> \in buckets
  BY DEF AgentsAt
<1>2. A \subseteq Nat
  BY <1>1, AgentAssumption
<1>3. PICK a \in A : \A b \in A : a <= b
  BY <1>2, LeastNatural
<1>4. {b \in A : b < a} = {}
  BY <1>2, <1>3
<1>5. Cardinality({b \in A : b < a}) = 0
  BY <1>4, FS_EmptySet
<1>6. Cardinality(A) \in Nat
  BY <1>1, AgentAssumption, FS_Subset, FS_CardinalityType
<1>7. split[<<a, l>>] =
        IF spec = NoCanary \/ Cardinality(A) <= 1 THEN NoBatch
        ELSE IF Cardinality({b \in A : b < a}) < CanaryCount(Cardinality(A), spec)
        THEN 0 ELSE 1
  BY <1>1 DEF compute_canary_split
<1>8. split[<<a, l>>] # 1
  <2>1. CASE spec = NoCanary \/ Cardinality(A) <= 1
    BY <1>7, <2>1 DEF NoBatch
  <2>2. CASE spec # NoCanary /\ Cardinality(A) > 1
    <3>1. CanaryCount(Cardinality(A), spec) \in Int
          /\ CanaryCount(Cardinality(A), spec) >= 1
      BY <1>6, <2>2, CanaryCountPositive
    <3> HIDE DEF A, split
    <3> QED BY <1>5, <1>6, <1>7, <2>2, <3>1
  <2> QED BY <1>6, <2>1, <2>2
<1> QED BY <1>1, <1>3, <1>8

\* A row that an agent can fetch or report.
Moving(o) == \E r \in Rows(o) : asg[r] \in {"pending", "fetched"}

\* Dispatching an operation without holes gives an agent something to fetch.
LEMMA InsertMoving ==
  ASSUME NEW o \in Op, Rows(o) = {}, NEW buckets \in SUBSET (Agent \X Layer),
         buckets # {}, NEW split, InsertAssignments(o, buckets, split),
         \A l \in Layer : AgentsAt(buckets, l) # {} =>
           \E a \in Agent : <<a, l>> \in buckets /\ split[<<a, l>>] # 1,
         Contiguous(o)'
  PROVE  Moving(o)'
<1>1. ASSUME NEW a \in Agent, NEW l \in Layer, <<a, l>> \in buckets
      PROVE  /\ <<o, a, l>> \in Row
             /\ asg'[<<o, a, l>>] = InitialStatus(l, split[<<a, l>>])
             /\ asg'[<<o, a, l>>] # "absent"
             /\ <<o, a, l>> \in Rows(o)'
  <2>1. <<o, a, l>> \in Row
    BY DEF Row
  <2>2. asg'[<<o, a, l>>] = InitialStatus(l, split[<<a, l>>])
    BY <1>1, <2>1 DEF InsertAssignments, OpOf, AgentOf, LayerOf
  <2>3. asg'[<<o, a, l>>] # "absent"
    BY <2>2 DEF InitialStatus
  <2> QED BY <2>1, <2>2, <2>3 DEF Rows, RowsOf, OpOf
<1>2. Rows(o)' # {}
  <2>1. PICK a \in Agent, l \in Layer : <<a, l>> \in buckets
    OBVIOUS
  <2> QED BY <1>1, <2>1
<1>3. \E r \in Rows(o)' : LayerOf(r) = 0
  <2> DEFINE L == {LayerOf(r) : r \in Rows(o)'}
  <2>1. L \subseteq Nat /\ L # {}
    BY <1>2, LayerAssumption DEF Rows, RowsOf, Row, LayerOf, Layer
  <2>2. PICK x \in L : \A y \in L : x <= y
    BY <2>1, LeastNatural
  <2>3. PICK r \in Rows(o)' : LayerOf(r) = x
    BY <2>2
  <2>4. ASSUME x > 0 PROVE FALSE
    <3>1. x - 1 \in L
      BY <2>3, <2>4 DEF Contiguous
    <3> QED BY <2>1, <2>2, <3>1
  <2> QED BY <2>1, <2>3, <2>4
<1>4. PICK r \in Row : OpOf(r) = o /\ LayerOf(r) = 0 /\ asg'[r] # "absent"
  BY <1>3 DEF Rows, RowsOf
<1>5. asg[r] = "absent"
  BY <1>4 DEF Rows, RowsOf
<1>6. <<AgentOf(r), LayerOf(r)>> \in buckets
  BY <1>4, <1>5 DEF InsertAssignments
<1>7. 0 \in Layer /\ AgentsAt(buckets, 0) # {}
  BY <1>4, <1>6, LayerAssumption DEF AgentsAt, Layer
<1>8. PICK a \in Agent : <<a, 0>> \in buckets /\ split[<<a, 0>>] # 1
  BY <1>7
<1>9. asg'[<<o, a, 0>>] = "pending"
  BY <1>1, <1>7, <1>8 DEF InitialStatus
<1> QED BY <1>1, <1>7, <1>8, <1>9 DEF Moving

\* After a result, an operation that is not finished has a row on its way.
LEMMA ResultMoving ==
  ASSUME TypeOK, FinishedIffSettled', GateInv, NEW r \in Row,
         NEW result \in Result, complete_assignment(r, result), OpOf(r) \in Op,
         opStatus'[OpOf(r)] \in {"pending", "running"}
  PROVE  Moving(OpOf(r))'
<1> DEFINE o == OpOf(r)
           s == Result1(r, result)
           c == Result2(r, result)
           t == Result3(r, result)
<1>1. /\ asg' = t
      /\ s \in [Row -> AsgStatus]
      /\ Moves(s, c, o) /\ Moves(c, t, o)
      /\ WaitPlaces(s)
  BY ResultSteps
<1>2. CanaryAborts(s, c, o) \/ CanaryPasses(s, c, o)
  BY <1>1, CanaryCases DEF Result2
<1>3. \/ GateStays(c, t, o) \/ GateAborts(c, t, o)
      \/ \E n \in Layer : GateOpens(c, t, o, n)
  BY <1>1, LayerCases DEF Moves, Result3
<1> HIDE DEF s, c, t
<1>4. PICK y \in Row : OpOf(y) = o /\ t[y] \in Live
  BY <1>1 DEF FinishedIffSettled, Rows, RowsOf
<1> SUFFICES \E q \in Row : OpOf(q) = o /\ t[q] \in {"pending", "fetched"}
  BY <1>1 DEF Moving, Rows, RowsOf
<1>5. ASSUME NEW q \in Row, OpOf(q) = o, c[q] \in {"pending", "fetched"}
      PROVE  t[q] \in {"pending", "fetched"}
  BY <1>3, <1>5 DEF GateStays, GateAborts, GateOpens
<1>6. ASSUME NEW x \in Row, OpOf(x) = o, c[x] = "pending_canary"
      PROVE  \E q \in Row : OpOf(q) = o /\ t[q] \in {"pending", "fetched"}
  <2>1. CanaryPasses(s, c, o)
    <3>1. s[x] = "pending_canary"
      BY <1>1, <1>6 DEF Moves
    <3> QED BY <1>2, <1>6, <3>1 DEF CanaryAborts, Waiting
  <2> QED BY <1>5, <1>6, <2>1 DEF CanaryPasses
<1>7. CASE t[y] = "pending_canary"
  BY <1>1, <1>4, <1>6, <1>7 DEF Moves
<1>8. CASE t[y] = "pending_layer"
  <2>1. c[y] = "pending_layer"
    BY <1>1, <1>4, <1>8 DEF Moves
  <2>2. CASE GateStays(c, t, o)
    <3>1. PICK q \in Row : OpOf(q) = o /\ c[q] \in Live \ {"pending_layer"}
      BY <1>4, <2>1, <2>2 DEF GateStays
    <3> QED BY <1>5, <1>6, <3>1 DEF Live, Waiting
  <2>3. CASE GateAborts(c, t, o)
    BY <1>4, <1>8, <2>1, <2>3 DEF GateAborts
  <2>4. CASE \E n \in Layer : GateOpens(c, t, o, n)
    BY <2>4 DEF GateOpens
  <2> QED BY <1>3, <2>2, <2>3, <2>4
<1> QED BY <1>4, <1>7, <1>8 DEF Live, Waiting

LEMMA StrandedStep ==
  ASSUME TypeOK, TypeOK', FinishedIffSettled, FinishedIffSettled', GateInv,
         NoStrandedRows, [Next]_vars
  PROVE  NoStrandedRows'
<1> SUFFICES ASSUME NEW o \in Op, opStatus'[o] \in {"pending", "running"},
                    Contiguous(o)'
             PROVE  Moving(o)'
  BY DEF NoStrandedRows, Moving
\* An operation whose status and rows do not change keeps its moving row.
<1>1. ASSUME opStatus'[o] = opStatus[o],
             \A x \in Row : OpOf(x) = o => asg'[x] = asg[x]
      PROVE  Moving(o)'
  <2>1. Rows(o)' = Rows(o) /\ Contiguous(o)' = Contiguous(o)
    BY <1>1 DEF Rows, RowsOf, Contiguous
  <2>2. Moving(o)
    BY <1>1, <2>1 DEF NoStrandedRows, Moving
  <2> QED BY <1>1, <2>1, <2>2 DEF Moving, Rows, RowsOf
<1>2. CASE Handover /\ \A p \in Op : opStatus'[p] \in {"pending", "running"}
                                       => opStatus[p] \in {"pending", "running"}
  <2>1. Rows(o)' = Rows(o) /\ Contiguous(o)' = Contiguous(o)
    BY <1>2, SameRows DEF Handover
  <2>2. Moving(o)
    BY <1>2, <2>1 DEF NoStrandedRows, Moving
  <2> QED BY <1>2, <2>1, <2>2 DEF Moving, Handover, Rows, RowsOf
<1>3. ASSUME NEW p \in Op, NEW m \in Manifest,
             NEW spec \in CanarySpec \cup {NoCanary},
             create_operation(p, m, FALSE, spec)
      PROVE  Moving(o)'
  <2> DEFINE buckets == Buckets(m, registered)
             split == compute_canary_split(buckets, spec)
  <2>1. /\ opStatus[p] = "none"
        /\ opStatus' = [opStatus EXCEPT ![p] =
                          IF buckets = {} THEN "succeeded" ELSE "pending"]
        /\ InsertAssignments(p, buckets, split)
    BY <1>3 DEF create_operation
  <2>2. CASE o # p
    BY <1>1, <2>1, <2>2, InsertFrame DEF TypeOK
  <2>3. CASE o = p
    <3>1. buckets # {} /\ Rows(o) = {}
      BY <2>1, <2>3 DEF TypeOK, FinishedIffSettled
    <3>2. buckets \in SUBSET (Agent \X Layer)
      BY BucketsType
    <3>3. \A l \in Layer : AgentsAt(buckets, l) # {} =>
            \E a \in Agent : <<a, l>> \in buckets /\ split[<<a, l>>] # 1
      BY <3>2, SplitHasFirstBatch
    <3>4. InsertAssignments(o, buckets, split)
      BY <2>1, <2>3
    <3> HIDE DEF buckets, split
    <3> QED BY <3>1, <3>2, <3>3, <3>4, InsertMoving
  <2> QED BY <2>2, <2>3
<1>4. ASSUME NEW p \in Op, approve_operation(p) PROVE Moving(o)'
  <2> DEFINE buckets == Buckets(desired[p], registered)
             split == [b \in buckets |-> NoBatch]
  <2>1. /\ opStatus[p] = "pending_approval"
        /\ opStatus' = [opStatus EXCEPT ![p] =
                          IF buckets = {} THEN "succeeded" ELSE "pending"]
        /\ InsertAssignments(p, buckets, split)
    BY <1>4 DEF approve_operation
  <2>2. CASE o # p
    BY <1>1, <2>1, <2>2, InsertFrame DEF TypeOK
  <2>3. CASE o = p
    <3>1. buckets # {} /\ Rows(o) = {}
      BY <2>1, <2>3 DEF TypeOK, FinishedIffSettled
    <3>2. buckets \in SUBSET (Agent \X Layer)
      BY BucketsType
    <3>3. \A l \in Layer : AgentsAt(buckets, l) # {} =>
            \E a \in Agent : <<a, l>> \in buckets /\ split[<<a, l>>] # 1
      BY <3>2 DEF AgentsAt, NoBatch
    <3>4. InsertAssignments(o, buckets, split)
      BY <2>1, <2>3
    <3> HIDE DEF buckets, split
    <3> QED BY <3>1, <3>2, <3>3, <3>4, InsertMoving
  <2> QED BY <2>2, <2>3
<1>5. ASSUME NEW r \in Row, NEW result \in Result, complete_assignment(r, result)
      PROVE  Moving(o)'
  <2>1. OpOf(r) \in Op
    BY DEF Row, OpOf
  <2>2. CASE o = OpOf(r)
    BY <1>5, <2>1, <2>2, ResultMoving
  <2>3. CASE o # OpOf(r)
    <3>1. opStatus'[o] = opStatus[o]
      BY <1>5, <2>1, <2>3 DEF complete_assignment, RecordResult, TypeOK
    <3> DEFINE s == Result1(r, result)
               c == Result2(r, result)
    <3>2. /\ Moves(s, c, OpOf(r)) /\ Moves(c, asg', OpOf(r))
          /\ \A x \in Row : x # r => s[x] = asg[x]
      BY <1>5, ResultSteps
    <3> HIDE DEF s, c
    <3>3. \A x \in Row : OpOf(x) = o => asg'[x] = asg[x]
      BY <2>3, <3>2 DEF Moves
    <3> QED BY <1>1, <3>1, <3>3
  <2> QED BY <2>2, <2>3
<1> QED BY <1>2, <1>3, <1>4, <1>5, StepKinds

\* advance_phased_apply: a dispatched operation without holes that is not
\* finished always has a row an agent can fetch or report.
THEOREM NoStrandedRowsCorrect == Spec => []NoStrandedRows
<1>1. Init => NoStrandedRows
  BY DEF Init, NoStrandedRows
<1>2. /\ TypeOK /\ TypeOK' /\ FinishedIffSettled /\ FinishedIffSettled'
      /\ GateInv /\ NoStrandedRows /\ [Next]_vars
      => NoStrandedRows'
  BY StrandedStep
<1> QED BY <1>1, <1>2, TypeCorrect, FinishedIffSettledCorrect, GateInvCorrect, PTL
        DEF Spec

(***************************************************************************)
(* What was handed out is not cancelled                                    *)
(***************************************************************************)

\* A row that a poll claimed or an agent was handed.
Handed(r) == r \in shipped \/ \E p \in Poll : r \in polls[p].rows

\* It exists, and in an operation without holes it is dispatched or done.
HandedInv ==
  \A r \in Row : Handed(r) =>
    asg[r] # "absent" /\ (Contiguous(OpOf(r)) => Dispatched(r))

\* advance_canary cancels a dispatched row only on behalf of a failed canary
\* of layer 0, above layer 0 or in the baseline.
LEMMA CanaryCancels ==
  ASSUME NEW s \in [Row -> AsgStatus], NEW o, WaitPlaces(s), NEW x \in Row,
         advance_canary(s, o)[x] = "cancelled", s[x] # "cancelled"
  PROVE  /\ OpOf(x) = o /\ (LayerOf(x) # 0 \/ batch[x] = 1)
         /\ \E q \in Row : /\ OpOf(q) = o /\ LayerOf(q) = 0 /\ batch[q] = 0
                          /\ s[q] \in Failure
<1>1. \A l \in WaitingLayers(s, o) : l = 0
  BY DEF WaitingLayers, RowsOf, WaitPlaces
<1>2. FailedCanaryLayers(s, o) # {}
  BY DEF advance_canary
<1> DEFINE l == CHOOSE k \in FailedCanaryLayers(s, o) : TRUE
<1>3. l \in FailedCanaryLayers(s, o) /\ l = 0
  BY <1>1, <1>2 DEF FailedCanaryLayers
<1>4. advance_canary(s, o) =
        [r \in Row |->
           IF OpOf(r) = o /\ s[r] \in Live /\ (LayerOf(r) # l \/ batch[r] = 1)
           THEN "cancelled" ELSE s[r]]
  BY <1>2 DEF advance_canary
<1> HIDE DEF l
<1>5. OpOf(x) = o /\ (LayerOf(x) # 0 \/ batch[x] = 1)
  BY <1>3, <1>4
<1>6. \E q \in Row : OpOf(q) = o /\ LayerOf(q) = 0 /\ batch[q] = 0
                     /\ s[q] \in Failure
  BY <1>3 DEF FailedCanaryLayers, CanaryRows, RowsOf, Failure
<1> QED BY <1>5, <1>6

\* A result takes no dispatched row away.
LEMMA ResultSpares ==
  ASSUME TypeOK, GateInv, NEW r \in Row, NEW result \in Result,
         complete_assignment(r, result), NEW x \in Row, Dispatched(x),
         Contiguous(OpOf(x))
  PROVE  Dispatched(x)'
<1> DEFINE o == OpOf(r)
           s == Result1(r, result)
           c == Result2(r, result)
           t == Result3(r, result)
<1>1. /\ asg' = t
      /\ s \in [Row -> AsgStatus]
      /\ Moves(s, c, o) /\ Moves(c, t, o)
      /\ WaitPlaces(s)
      /\ s[r] = result
      /\ \A y \in Row : y # r => s[y] = asg[y]
  BY ResultSteps
<1>2. asg[r] \in {"pending", "fetched"}
  BY DEF complete_assignment, RecordResult
<1>3. \/ GateStays(c, t, o) \/ GateAborts(c, t, o)
      \/ \E n \in Layer : GateOpens(c, t, o, n)
  BY <1>1, LayerCases DEF Moves, Result3
<1>4. ASSUME c[x] = "cancelled", s[x] # "cancelled" PROVE FALSE
  <2>1. /\ OpOf(x) = o /\ (LayerOf(x) # 0 \/ batch[x] = 1)
        /\ \E q \in Row : /\ OpOf(q) = o /\ LayerOf(q) = 0 /\ batch[q] = 0
                         /\ s[q] \in Failure
    BY <1>1, <1>4, CanaryCancels DEF Result2
  <2> HIDE DEF s, c, t
  <2>2. PICK q \in Row : /\ OpOf(q) = o /\ LayerOf(q) = 0 /\ batch[q] = 0
                         /\ s[q] \in Failure
    BY <2>1
  <2>3. asg[q] \notin {"absent", "succeeded"}
    BY <1>1, <1>2, <2>2 DEF Failure
  <2>4. o \in Op /\ LayerOf(x) \in Nat
    BY LayerAssumption DEF Row, OpOf, LayerOf, Layer
  <2>5. CASE LayerOf(x) # 0
    <3>1. x \in Rows(o) /\ q \in Rows(o) /\ LayerOf(q) < LayerOf(x)
      BY <2>1, <2>2, <2>3, <2>4, <2>5 DEF Rows, RowsOf, Dispatched, Result
    <3> QED BY <2>1, <2>3, <2>4, <3>1 DEF GateInv, LayerGate
  <2>6. CASE LayerOf(x) = 0
    BY <2>1, <2>2, <2>3, <2>6 DEF GateInv, CanaryGateLayerZero
  <2> QED BY <2>5, <2>6
<1> HIDE DEF s, c, t
<1>5. s[x] \in {"pending", "fetched"} \cup Result
  BY <1>1 DEF Dispatched
<1>6. c[x] \in {"pending", "fetched"} \cup Result
  BY <1>1, <1>4, <1>5 DEF Moves, Result
<1>7. t[x] = c[x]
  BY <1>3, <1>6 DEF GateStays, GateAborts, GateOpens, Result
<1> QED BY <1>1, <1>6, <1>7 DEF Dispatched

\* Steps of the other kinds keep what was handed out and add only rows that are
\* dispatched.
LEMMA HandedRows ==
  ASSUME TypeOK, [Next]_vars, NEW r \in Row, Handed(r)'
  PROVE  Handed(r) \/ asg'[r] = "fetched"
<1>1. ASSUME NEW p \in Poll, NEW a \in Agent, fetch_pending_assignments(p, a)
      PROVE  Handed(r) \/ asg'[r] = "fetched"
  BY <1>1 DEF fetch_pending_assignments, Claim, Claimable, Handed, TypeOK
<1>2. ASSUME NEW p \in Poll,
             ShipAssignments(p) \/ revert_assignment_claims(p) \/ LoseAnswer(p)
      PROVE  Handed(r)
  BY <1>2 DEF ShipAssignments, revert_assignment_claims, LoseAnswer, Handed,
              TypeOK, Idle
<1>3. ASSUME NEW a \in Agent, NEW q \in Row, claim_ssh_pending(a, q)
      PROVE  Handed(r) \/ asg'[r] = "fetched"
  BY <1>3 DEF claim_ssh_pending, Claim, Handed, TypeOK
<1>4. ASSUME shipped' = shipped, polls' = polls
      PROVE  Handed(r)
  BY <1>4 DEF Handed
<1> QED BY <1>1, <1>2, <1>3, <1>4
        DEF Next, vars, register_agent, create_operation, approve_operation,
            reject_operation, LeaseExpires, complete_assignment, RecordResult

\* Rows that exist are never inserted again.
LEMMA InsertedWereAbsent ==
  ASSUME NEW o \in Op, NEW buckets, NEW split, Rows(o) = {},
         InsertAssignments(o, buckets, split), NEW r \in Row, asg[r] # "absent"
  PROVE  asg'[r] = asg[r] /\ OpOf(r) # o
<1>1. OpOf(r) # o
  BY DEF Rows, RowsOf
<1> QED BY <1>1 DEF InsertAssignments

\* The same for what becomes of a row that was handed out.
LEMMA HandedStay ==
  ASSUME TypeOK, FinishedIffSettled, GateInv, [Next]_vars, NEW r \in Row,
         asg[r] # "absent"
  PROVE  /\ asg'[r] # "absent"
         /\ Contiguous(OpOf(r))' = Contiguous(OpOf(r))
         /\ Dispatched(r) /\ Contiguous(OpOf(r)) => Dispatched(r)'
<1>1. CASE Handover
  <2>1. \A x \in Row : asg'[x] = "absent" <=> asg[x] = "absent"
    BY <1>1 DEF Handover
  <2> QED BY <1>1, <2>1, SameRows DEF Handover, Dispatched
<1>2. ASSUME NEW o \in Op, NEW buckets, NEW split, Rows(o) = {},
             InsertAssignments(o, buckets, split)
      PROVE  /\ asg'[r] # "absent"
             /\ Contiguous(OpOf(r))' = Contiguous(OpOf(r))
             /\ Dispatched(r) => Dispatched(r)'
  <2>1. asg'[r] = asg[r] /\ OpOf(r) # o
    BY <1>2, InsertedWereAbsent
  <2>2. \A x \in Row : OpOf(x) # o => asg'[x] = asg[x]
    BY <1>2 DEF InsertAssignments
  <2>3. Rows(OpOf(r))' = Rows(OpOf(r))
    BY <2>1, <2>2 DEF Rows, RowsOf
  <2> QED BY <2>1, <2>3 DEF Contiguous, Dispatched
<1>3. ASSUME NEW o \in Op, NEW m \in Manifest,
             NEW spec \in CanarySpec \cup {NoCanary},
             create_operation(o, m, FALSE, spec)
      PROVE  \E buckets, split : Rows(o) = {} /\ InsertAssignments(o, buckets, split)
  BY <1>3 DEF create_operation, FinishedIffSettled
<1>4. ASSUME NEW o \in Op, approve_operation(o)
      PROVE  \E buckets, split : Rows(o) = {} /\ InsertAssignments(o, buckets, split)
  BY <1>4 DEF approve_operation, FinishedIffSettled
<1>5. ASSUME NEW q \in Row, NEW result \in Result, complete_assignment(q, result)
      PROVE  /\ asg'[r] # "absent"
             /\ Contiguous(OpOf(r))' = Contiguous(OpOf(r))
             /\ Dispatched(r) /\ Contiguous(OpOf(r)) => Dispatched(r)'
  <2> DEFINE s == Result1(q, result)
             c == Result2(q, result)
             t == Result3(q, result)
  <2>1. /\ asg' = t /\ Moves(s, c, OpOf(q)) /\ Moves(c, t, OpOf(q))
        /\ s[q] = result /\ \A x \in Row : x # q => s[x] = asg[x]
    BY <1>5, ResultSteps
  <2>2. asg[q] \in {"pending", "fetched"}
    BY <1>5 DEF complete_assignment, RecordResult
  <2> HIDE DEF s, c, t
  <2>3. \A x \in Row : asg'[x] = "absent" <=> asg[x] = "absent"
    BY <2>1, <2>2 DEF Moves, Live, Waiting, Result
  <2> QED BY <1>5, <2>3, SameRows, ResultSpares
<1> QED BY <1>1, <1>2, <1>3, <1>4, <1>5, StepKinds

LEMMA HandedStep ==
  TypeOK /\ TypeOK' /\ FinishedIffSettled /\ GateInv /\ HandedInv /\ [Next]_vars
  => HandedInv'
<1> SUFFICES ASSUME TypeOK, FinishedIffSettled, GateInv, HandedInv, [Next]_vars,
                    NEW r \in Row, Handed(r)'
             PROVE  asg'[r] # "absent" /\ (Contiguous(OpOf(r))' => Dispatched(r)')
  BY DEF HandedInv
<1>1. CASE asg'[r] = "fetched"
  BY <1>1 DEF Dispatched
<1>2. CASE Handed(r)
  BY <1>2, HandedStay DEF HandedInv
<1> QED BY <1>1, <1>2, HandedRows

LEMMA HandedInvCorrect == Spec => []HandedInv
<1>1. Init => HandedInv
  BY DEF Init, HandedInv, Handed, Idle
<1> QED BY <1>1, HandedStep, TypeCorrect, FinishedIffSettledCorrect,
           GateInvCorrect, PTL DEF Spec

\* roll_up_operation: no agent was ever handed a row that is cancelled, in an
\* operation without holes.
THEOREM CancelledNeverRanCorrect == Spec => []CancelledNeverRan
<1>1. HandedInv => CancelledNeverRan
  BY DEF HandedInv, Handed, CancelledNeverRan, Dispatched, Result
<1> QED BY <1>1, HandedInvCorrect, PTL

(***************************************************************************)
(* RolloutTx: reports that arrive at the same time, on SQLite              *)
(***************************************************************************)

\* What an UPDATE makes of the statuses s.
Updated(u, s) == [r \in Row |-> IF r \in u.where /\ s[r] \in u.from THEN u.to ELSE s[r]]

\* The statuses with the result of t alone.
Recorded(t) == [asg EXCEPT ![tx[t].row] = tx[t].result]

Written(t) == tx[t].pc \in {"canary", "write_canary", "layers", "write_layers", "rollup"}

TxRecord ==
  [pc : {"none", "update", "canary", "write_canary", "layers", "write_layers", "rollup"},
   row : Row \cup {<<>>}, result : Result \cup {"absent"},
   mine : UNION {[R -> AsgStatus] : R \in SUBSET Row},
   todo : [where : SUBSET Row, from : SUBSET AsgStatus, to : AsgStatus], stale : BOOLEAN]

TxTypeOK == TypeOK /\ tx \in [Tx -> TxRecord]

\* What t sees at each of its statements: the atomic step as far as it has come.
SeesStep(t) ==
  LET o == OpOf(tx[t].row)
      c == advance_canary(Recorded(t), o)
  IN /\ tx[t].pc \in {"canary", "write_canary"} => View(t) = Recorded(t)
     /\ tx[t].pc = "write_canary" => Updated(tx[t].todo, View(t)) = c
     /\ tx[t].pc \in {"layers", "write_layers"} => View(t) = c
     /\ tx[t].pc = "write_layers" => Updated(tx[t].todo, View(t)) = AdvanceLayers(c, o)
     /\ tx[t].pc = "rollup" => View(t) = advance_phased_apply(Recorded(t), o)

\* What a transaction may rely on: the read before its first write, as long as
\* nobody has committed since, and after that its own rows.
Own(t) ==
  /\ Running(t) => /\ tx[t].row \in shipped /\ tx[t].result \in Result
                   /\ ~tx[t].stale => asg[tx[t].row] \in {"pending", "fetched"}
  /\ tx[t].pc \in {"none", "update"} => Locked(t) = {}
  /\ Written(t) => tx[t].row \in Locked(t) /\ ~tx[t].stale /\ SeesStep(t)

\* There is one writer.
RaceInv ==
  /\ TxTypeOK
  /\ \A t \in Tx : Own(t)
  /\ \A t, u \in Tx : t # u /\ Written(t) => ~Written(u)

\* The UPDATE of advance_canary does what the operator says.
LEMMA CanaryUpdate ==
  ASSUME NEW s \in [Row -> AsgStatus], NEW o, NEW l,
         l = CHOOSE k \in FailedCanaryLayers(s, o) : TRUE
  PROVE  Updated(IF FailedCanaryLayers(s, o) # {}
                 THEN Update({r \in OfOp(o) : LayerOf(r) # l \/ batch[r] = 1}, Live, "cancelled")
                 ELSE Update({r \in OfOp(o) : LayerOf(r) \in PassedCanaryLayers(s, o)},
                             {"pending_canary"}, "pending"), s)
           = advance_canary(s, o)
<1>1. CASE FailedCanaryLayers(s, o) # {}
  BY <1>1 DEF advance_canary, Updated, Update, OfOp
<1>2. CASE FailedCanaryLayers(s, o) = {}
  <2> DEFINE P == PassedCanaryLayers(s, o)
  <2>1. advance_canary(s, o) =
          [r \in Row |-> IF OpOf(r) = o /\ s[r] = "pending_canary" /\ LayerOf(r) \in P
                         THEN "pending" ELSE s[r]]
    BY <1>2 DEF advance_canary
  <2> HIDE DEF P
  <2>2. Updated(Update({r \in OfOp(o) : LayerOf(r) \in P}, {"pending_canary"}, "pending"), s) =
          [r \in Row |-> IF OpOf(r) = o /\ s[r] = "pending_canary" /\ LayerOf(r) \in P
                         THEN "pending" ELSE s[r]]
    BY DEF Updated, Update, OfOp
  <2> QED BY <1>2, <2>1, <2>2 DEF P
<1> QED BY <1>1, <1>2

\* The UPDATE of the layer gate does what the operator says.
LEMMA LayersUpdate ==
  ASSUME NEW s \in [Row -> AsgStatus], NEW o
  PROVE  Updated(IF HeldRows(s, o) = {} \/ \E r \in GateRows(s, o) : s[r] \in Live
                 THEN Nothing
                 ELSE IF \E r \in GateRows(s, o) : s[r] \in Failure
                 THEN Update(OfOp(o), {"pending_layer"}, "cancelled")
                 ELSE Update({r \in OfOp(o) : LayerOf(r) = NextLayer(s, o)},
                             {"pending_layer"}, "pending"), s)
           = AdvanceLayers(s, o)
<1> DEFINE n == NextLayer(s, o)
           none == HeldRows(s, o) = {} \/ \E r \in GateRows(s, o) : s[r] \in Live
           bad == \E r \in GateRows(s, o) : s[r] \in Failure
<1>1. \A r \in Row : r \in HeldRows(s, o) <=> OpOf(r) = o /\ s[r] = "pending_layer"
  BY DEF HeldRows, RowsOf
<1>2. AdvanceLayers(s, o) =
        IF none THEN s
        ELSE IF bad THEN [r \in Row |-> IF r \in HeldRows(s, o) THEN "cancelled" ELSE s[r]]
        ELSE [r \in Row |-> IF r \in HeldRows(s, o) /\ LayerOf(r) = n THEN "pending" ELSE s[r]]
  BY DEF AdvanceLayers, Failure
<1> HIDE DEF n, none, bad
<1>3. Updated(Nothing, s) = s
  BY DEF Updated, Nothing, Update
<1>4. Updated(Update(OfOp(o), {"pending_layer"}, "cancelled"), s) =
        [r \in Row |-> IF r \in HeldRows(s, o) THEN "cancelled" ELSE s[r]]
  BY <1>1 DEF Updated, Update, OfOp
<1>5. Updated(Update({r \in OfOp(o) : LayerOf(r) = n}, {"pending_layer"}, "pending"), s) =
        [r \in Row |-> IF r \in HeldRows(s, o) /\ LayerOf(r) = n THEN "pending" ELSE s[r]]
  BY <1>1 DEF Updated, Update, OfOp
<1> QED BY <1>2, <1>3, <1>4, <1>5 DEF n, none, bad

\* A row that was handed out is a row, and its operation an operation.
LEMMA RunningRow ==
  ASSUME RaceInv, NEW t \in Tx, Running(t)
  PROVE  /\ tx[t].row \in Row /\ OpOf(tx[t].row) \in Op
         /\ Recorded(t) \in [Row -> AsgStatus]
         /\ View(t) \in [Row -> AsgStatus]
         /\ Locked(t) \subseteq Row
<1>1. tx[t].row \in Row /\ tx[t].result \in Result
  BY DEF RaceInv, Own, TxTypeOK, TypeOK
<1>2. asg \in [Row -> AsgStatus]
  BY DEF RaceInv, TxTypeOK, TypeOK
<1>3. PICK R \in SUBSET Row : tx[t].mine \in [R -> AsgStatus]
  <2>1. tx[t] \in TxRecord
    BY DEF RaceInv, TxTypeOK
  <2>2. tx[t].mine \in UNION {[R -> AsgStatus] : R \in SUBSET Row}
    BY <2>1 DEF TxRecord
  <2> QED BY <2>2
<1>4. View(t) \in [Row -> AsgStatus] /\ Locked(t) \subseteq Row
  BY <1>2, <1>3 DEF View, Locked
<1>5. Recorded(t) \in [Row -> AsgStatus]
  BY <1>1, <1>2 DEF Recorded, Result, AsgStatus
<1>6. OpOf(tx[t].row) \in Op
  BY <1>1 DEF Row, OpOf
<1> QED BY <1>1, <1>4, <1>5, <1>6

LEMMA NoTxType ==
  /\ NoTx \in TxRecord /\ DOMAIN NoTx.mine = {} /\ <<>> \in UNION {[R -> AsgStatus] : R \in SUBSET Row}
  /\ Nothing \in [where : SUBSET Row, from : SUBSET AsgStatus, to : AsgStatus]
  /\ NoTx.pc = "none" /\ NoTx.stale = FALSE
<1>1. DOMAIN <<>> = {}
  OBVIOUS
<1>2. <<>> = [x \in {} |-> "absent"]
  OBVIOUS
<1>3. <<>> \in [{} -> AsgStatus]
  BY <1>2
<1>4. <<>> \in UNION {[R -> AsgStatus] : R \in SUBSET Row}
  BY <1>3
<1>5. Nothing \in [where : SUBSET Row, from : SUBSET AsgStatus, to : AsgStatus]
  BY DEF Nothing, Update, AsgStatus
<1>6. NoTx \in TxRecord
  BY <1>4, <1>5 DEF NoTx, TxRecord
<1> QED BY <1>1, <1>4, <1>5, <1>6 DEF NoTx

\* The transactions that an action of t leaves alone are as they were.
LEMMA SameView ==
  ASSUME asg' = asg, batch' = batch, NEW u \in Tx, tx'[u] = tx[u]
  PROVE  /\ View(u)' = View(u) /\ Recorded(u)' = Recorded(u) /\ Locked(u)' = Locked(u)
         /\ SeesStep(u)' <=> SeesStep(u)
<1>1. View(u)' = View(u) /\ Recorded(u)' = Recorded(u) /\ Locked(u)' = Locked(u)
  BY DEF View, Recorded, Locked
<1> DEFINE o == OpOf(tx[u].row)
           c == advance_canary(Recorded(u), o)
<1>2. \A s : FailedCanaryLayers(s, o)' = FailedCanaryLayers(s, o)
  BY DEF FailedCanaryLayers, WaitingLayers, CanaryRows, RowsOf
<1>3. \A s : PassedCanaryLayers(s, o)' = PassedCanaryLayers(s, o)
  BY DEF PassedCanaryLayers, WaitingLayers, CanaryRows, RowsOf
<1>4. c' = c
  BY <1>1, <1>2, <1>3 DEF advance_canary
<1>5. AdvanceLayers(c, o)' = AdvanceLayers(c, o)
  BY <1>4 DEF AdvanceLayers, HeldRows, GateRows, NextLayer, RowsOf
<1>6. Updated(tx[u].todo, View(u))' = Updated(tx[u].todo, View(u))
  BY <1>1 DEF Updated
<1> QED BY <1>1, <1>4, <1>5, <1>6 DEF SeesStep, advance_phased_apply

\* A statement that changes no table changes one transaction.
LEMMA StatementFrame ==
  ASSUME RaceInv, UNCHANGED vars, NEW t \in Tx, NEW x \in TxRecord,
         tx' = [tx EXCEPT ![t] = x], Own(t)',
         Written(t)' => \A u \in Tx \ {t} : ~Written(u)
  PROVE  RaceInv'
<1>1. tx'[t] = x /\ \A u \in Tx \ {t} : tx'[u] = tx[u]
  BY DEF RaceInv, TxTypeOK
<1>2. tx' \in [Tx -> TxRecord]
  BY DEF RaceInv, TxTypeOK
<1>3. TypeOK'
  BY TypeStep DEF RaceInv, TxTypeOK
<1>4. asg' = asg /\ batch' = batch /\ shipped' = shipped
  BY DEF vars
<1>5. ASSUME NEW u \in Tx \ {t} PROVE Own(u)'
  <2>1. tx'[u] = tx[u]
    BY <1>1
  <2>2. View(u)' = View(u) /\ Locked(u)' = Locked(u) /\ (SeesStep(u)' <=> SeesStep(u))
    BY <1>4, <2>1, SameView
  <2>3. Own(u)
    BY DEF RaceInv
  <2> QED BY <1>4, <2>1, <2>2, <2>3 DEF Own, Running, Written
<1>6. \A u \in Tx \ {t} : Written(u)' <=> Written(u)
  BY <1>1 DEF Written
<1>7. \A u, v \in Tx : u # v /\ Written(u)' => ~Written(v)'
  BY <1>6 DEF RaceInv
<1> QED BY <1>2, <1>3, <1>5, <1>7 DEF RaceInv, TxTypeOK

LEMMA BeginStep ==
  ASSUME RaceInv, NEW t \in Tx, NEW r \in Row, NEW result \in Result, Begin(t, r, result)
  PROVE  RaceInv'
<1> DEFINE x == [pc |-> "update", row |-> r, result |-> result,
                 mine |-> <<>>, todo |-> Nothing, stale |-> FALSE]
<1>1. x \in TxRecord
  BY NoTxType DEF TxRecord
<1>2. DOMAIN x.mine = {}
  OBVIOUS
<1> HIDE DEF x
<1>3. tx' = [tx EXCEPT ![t] = x] /\ UNCHANGED vars
  BY DEF Begin, x
<1>4. tx'[t] = x
  BY <1>3 DEF RaceInv, TxTypeOK
<1>5. x.pc = "update" /\ x.row = r /\ x.result = result
  BY DEF x
<1>6. Own(t)'
  BY <1>2, <1>3, <1>4, <1>5 DEF Own, Begin, Written, Locked, vars
<1>7. ~Written(t)'
  BY <1>4, <1>5 DEF Written
<1> QED BY <1>1, <1>3, <1>6, <1>7, StatementFrame

LEMMA BusyStep ==
  ASSUME RaceInv, NEW t \in Tx, Busy(t)
  PROVE  RaceInv'
<1>1. tx' = [tx EXCEPT ![t] = NoTx] /\ UNCHANGED vars
  BY DEF Busy
<1>2. tx'[t] = NoTx
  BY <1>1 DEF RaceInv, TxTypeOK
<1>3. ~Written(t)'
  BY <1>2, NoTxType DEF Written
<1>4. Own(t)'
  BY <1>2, <1>3, NoTxType DEF Own, Locked, Running
<1> QED BY <1>1, <1>3, <1>4, NoTxType, StatementFrame

\* The first write: nobody else has written, and nobody has committed since the read.
LEMMA WriteResultStep ==
  ASSUME RaceInv, Dialect = "sqlite", NEW t \in Tx, WriteResult(t)
  PROVE  RaceInv'
<1> DEFINE r == tx[t].row
           m == [y \in {r} |-> tx[t].result]
           x == [tx[t] EXCEPT !.mine = m, !.pc = "canary"]
<1>1. tx[t] \in TxRecord /\ tx \in [Tx -> TxRecord] /\ asg \in [Row -> AsgStatus]
  BY DEF RaceInv, TxTypeOK, TypeOK
<1>2. r \in Row /\ tx[t].result \in Result /\ ~tx[t].stale /\ asg[r] \in {"pending", "fetched"} /\ r \in shipped
  <2>1. Running(t)
    BY DEF WriteResult, Running
  <2>2. r \in Row
    BY <2>1, RunningRow
  <2> QED BY <2>1, <2>2 DEF RaceInv, Own, WriteResult, MayWrite
<1>3. m \in UNION {[R -> AsgStatus] : R \in SUBSET Row} /\ DOMAIN m = {r}
  <2>1. m \in [{r} -> AsgStatus]
    BY <1>2 DEF Result, AsgStatus
  <2> QED BY <1>2, <2>1
<1>4. x \in TxRecord
  BY <1>1, <1>3 DEF TxRecord
<1>5. tx' = [tx EXCEPT ![t] = x] /\ UNCHANGED vars
  BY <1>1 DEF WriteResult
<1>6. tx'[t] = x
  BY <1>1, <1>5
<1>7. x.mine = m /\ x.pc = "canary" /\ x.row = r /\ x.result = tx[t].result /\ x.stale = tx[t].stale
  BY <1>1 DEF TxRecord
<1> HIDE DEF x
<1>8. View(t)' = Recorded(t)'
  BY <1>1, <1>2, <1>5, <1>6, <1>7 DEF View, Recorded, Locked, vars
<1>9. SeesStep(t)'
  BY <1>6, <1>7, <1>8 DEF SeesStep
<1>10. Own(t)'
  BY <1>2, <1>3, <1>5, <1>6, <1>7, <1>9 DEF Own, Locked, Written, Running, vars
<1>11. \A u \in Tx \ {t} : ~Written(u)
  BY DEF RaceInv, Own, WriteResult, MayWrite
<1> QED BY <1>4, <1>5, <1>10, <1>11, StatementFrame

\* d is what the gate before p decides.
Decides(t, d, p) ==
  LET o == OpOf(tx[t].row)
      c == advance_canary(Recorded(t), o)
  IN /\ p = "write_canary" => View(t) = Recorded(t) /\ Updated(d, View(t)) = c
     /\ p = "write_layers" => View(t) = c /\ Updated(d, View(t)) = AdvanceLayers(c, o)

\* A query of a gate keeps what it decides in todo.
LEMMA ReadFrame ==
  ASSUME RaceInv, NEW t \in Tx, Written(t), UNCHANGED vars,
         NEW d \in [where : SUBSET Row, from : SUBSET AsgStatus, to : AsgStatus],
         NEW p \in {"write_canary", "write_layers"},
         tx' = [tx EXCEPT ![t].todo = d, ![t].pc = p],
         Decides(t, d, p)
  PROVE  RaceInv'
<1> DEFINE x == [tx[t] EXCEPT !.todo = d, !.pc = p]
           r == tx[t].row
           o == OpOf(r)
           c == advance_canary(Recorded(t), o)
<1>1. tx[t] \in TxRecord /\ tx \in [Tx -> TxRecord]
  BY DEF RaceInv, TxTypeOK
<1>2. x \in TxRecord
  BY <1>1 DEF TxRecord
<1>3. tx' = [tx EXCEPT ![t] = x]
  BY <1>1
<1>4. tx'[t] = x
  BY <1>1, <1>3
<1>5. x.mine = tx[t].mine /\ x.pc = p /\ x.row = r /\ x.result = tx[t].result /\ x.stale = tx[t].stale /\ x.todo = d
  BY <1>1 DEF TxRecord
<1> HIDE DEF x
<1>6. asg' = asg /\ batch' = batch /\ shipped' = shipped
  BY DEF vars
<1>7. View(t)' = View(t) /\ Recorded(t)' = Recorded(t) /\ Locked(t)' = Locked(t)
  <2>1. tx'[t].mine = tx[t].mine /\ tx'[t].row = r /\ tx'[t].result = tx[t].result
    BY <1>4, <1>5
  <2>2. Locked(t)' = Locked(t)
    BY <2>1 DEF Locked
  <2>3. View(t)' = View(t)
    BY <1>6, <2>1, <2>2 DEF View
  <2>4. Recorded(t)' = Recorded(t)
    BY <1>6, <2>1 DEF Recorded
  <2> QED BY <2>2, <2>3, <2>4
<1>8. \A s : FailedCanaryLayers(s, o)' = FailedCanaryLayers(s, o)
  BY <1>4, <1>5, <1>6 DEF FailedCanaryLayers, WaitingLayers, CanaryRows, RowsOf
<1>9. \A s : PassedCanaryLayers(s, o)' = PassedCanaryLayers(s, o)
  BY <1>4, <1>5, <1>6 DEF PassedCanaryLayers, WaitingLayers, CanaryRows, RowsOf
<1> DEFINE row == tx[t].row
<1>20. row' = row
  BY <1>4, <1>5
<1>10. c' = c
  BY <1>6, <1>7, <1>8, <1>9, <1>20 DEF advance_canary
<1>11. AdvanceLayers(c, o)' = AdvanceLayers(c, o)
  <2>1. o' = o
    BY <1>20
  <2> HIDE DEF c, o
  <2> QED BY <1>10, <2>1 DEF AdvanceLayers, HeldRows, GateRows, NextLayer, RowsOf
<1>12. Updated(tx[t].todo, View(t))' = Updated(d, View(t))
  BY <1>4, <1>5, <1>7 DEF Updated
<1>13. tx'[t].pc = p
  BY <1>4, <1>5
<1>14. SeesStep(t)'
  BY <1>7, <1>10, <1>11, <1>12, <1>13 DEF SeesStep, Decides
<1>15. Own(t)'
  BY <1>4, <1>5, <1>6, <1>7, <1>14 DEF RaceInv, Own, Running, Written
<1> QED BY <1>2, <1>3, <1>15, StatementFrame DEF RaceInv

LEMMA ReadCanaryStep ==
  ASSUME RaceInv, NEW t \in Tx, ReadCanary(t)
  PROVE  RaceInv'
<1> DEFINE o == OpOf(tx[t].row)
           s == View(t)
           l == CHOOSE k \in FailedCanaryLayers(s, o) : TRUE
           d == IF FailedCanaryLayers(s, o) # {}
                THEN Update({r \in OfOp(o) : LayerOf(r) # l \/ batch[r] = 1}, Live, "cancelled")
                ELSE Update({r \in OfOp(o) : LayerOf(r) \in PassedCanaryLayers(s, o)},
                            {"pending_canary"}, "pending")
<1>1. tx[t].pc = "canary" /\ UNCHANGED vars /\ tx' = [tx EXCEPT ![t].todo = d, ![t].pc = "write_canary"]
  BY DEF ReadCanary
<1>2. Written(t) /\ Running(t)
  BY <1>1 DEF Written, Running
<1>3. s \in [Row -> AsgStatus]
  BY <1>2, RunningRow
<1>4. View(t) = Recorded(t)
  BY <1>1, <1>2 DEF RaceInv, Own, SeesStep
<1>5. d \in [where : SUBSET Row, from : SUBSET AsgStatus, to : AsgStatus]
  BY DEF Update, OfOp, Live, Waiting, AsgStatus
<1>6. Updated(d, s) = advance_canary(s, o)
  BY <1>3, CanaryUpdate
<1> HIDE DEF d
<1> QED BY <1>1, <1>2, <1>4, <1>5, <1>6, ReadFrame DEF Decides

LEMMA ReadLayersStep ==
  ASSUME RaceInv, NEW t \in Tx, ReadLayers(t)
  PROVE  RaceInv'
<1> DEFINE o == OpOf(tx[t].row)
           s == View(t)
           d == IF HeldRows(s, o) = {} \/ \E r \in GateRows(s, o) : s[r] \in Live
                THEN Nothing
                ELSE IF \E r \in GateRows(s, o) : s[r] \in Failure
                THEN Update(OfOp(o), {"pending_layer"}, "cancelled")
                ELSE Update({r \in OfOp(o) : LayerOf(r) = NextLayer(s, o)},
                            {"pending_layer"}, "pending")
<1>1. tx[t].pc = "layers" /\ UNCHANGED vars /\ tx' = [tx EXCEPT ![t].todo = d, ![t].pc = "write_layers"]
  BY DEF ReadLayers
<1>2. Written(t) /\ Running(t)
  BY <1>1 DEF Written, Running
<1>3. s \in [Row -> AsgStatus]
  BY <1>2, RunningRow
<1>4. View(t) = advance_canary(Recorded(t), o)
  BY <1>1, <1>2 DEF RaceInv, Own, SeesStep
<1>5. d \in [where : SUBSET Row, from : SUBSET AsgStatus, to : AsgStatus]
  BY NoTxType DEF Update, OfOp, Live, Waiting, AsgStatus
<1>6. Updated(d, s) = AdvanceLayers(s, o)
  BY <1>3, LayersUpdate
<1> HIDE DEF d
<1> QED BY <1>1, <1>2, <1>4, <1>5, <1>6, ReadFrame DEF Decides

\* The UPDATE of a gate: the view becomes what it makes of it.
LEMMA WriteGateStep ==
  ASSUME RaceInv, NEW t \in Tx, NEW from, NEW to,
         \/ from = "write_canary" /\ to = "layers"
         \/ from = "write_layers" /\ to = "rollup",
         WriteGate(t, from, to)
  PROVE  RaceInv'
<1> DEFINE u == tx[t].todo
           s == View(t)
           rows == {r \in u.where : s[r] \in u.from}
           m == [r \in Locked(t) \cup rows |-> IF r \in rows THEN u.to ELSE tx[t].mine[r]]
           x == [tx[t] EXCEPT !.mine = m, !.todo = Nothing, !.pc = to]
           r0 == tx[t].row
           o == OpOf(r0)
           c == advance_canary(Recorded(t), o)
<1>1. tx[t].pc = from /\ UNCHANGED vars
  BY DEF WriteGate
<1>2. tx[t] \in TxRecord /\ tx \in [Tx -> TxRecord]
  BY DEF RaceInv, TxTypeOK
<1>3. Written(t) /\ Running(t)
  BY <1>1 DEF Written, Running
<1>4. s \in [Row -> AsgStatus] /\ Locked(t) \subseteq Row
  BY <1>3, RunningRow
<1>5. PICK R \in SUBSET Row : tx[t].mine \in [R -> AsgStatus]
  <2>1. tx[t].mine \in UNION {[R -> AsgStatus] : R \in SUBSET Row}
    BY <1>2 DEF TxRecord
  <2> QED BY <2>1
<1>6. Locked(t) = R
  BY <1>5 DEF Locked
<1>7. u.where \subseteq Row /\ u.to \in AsgStatus
  BY <1>2 DEF TxRecord
<1>8. rows \subseteq Row
  BY <1>7
<1>9. m \in [R \cup rows -> AsgStatus] /\ DOMAIN m = Locked(t) \cup rows
  BY <1>5, <1>6, <1>7
<1>10. m \in UNION {[Q -> AsgStatus] : Q \in SUBSET Row}
  BY <1>8, <1>9
<1>11. x \in TxRecord
  BY <1>2, <1>3, <1>10, NoTxType DEF TxRecord
<1>12. tx' = [tx EXCEPT ![t] = x]
  <2>1. tx' = [tx EXCEPT ![t].mine = m, ![t].todo = Nothing, ![t].pc = to]
    BY DEF WriteGate
  <2> HIDE DEF m
  <2> QED BY <1>2, <2>1
<1>13. tx'[t] = x
  BY <1>2, <1>12
<1>14. x.mine = m /\ x.pc = to /\ x.row = r0 /\ x.result = tx[t].result /\ x.stale = tx[t].stale
  BY <1>2 DEF TxRecord
<1> HIDE DEF x
<1>15. asg' = asg /\ batch' = batch /\ shipped' = shipped
  BY <1>1 DEF vars
<1>16. View(t)' = Updated(u, s)
  <2>1. Locked(t)' = Locked(t) \cup rows
    BY <1>9, <1>13, <1>14 DEF Locked
  <2>2. View(t)' = [r \in Row |-> IF r \in Locked(t) \cup rows THEN m[r] ELSE asg[r]]
    BY <1>13, <1>14, <1>15, <2>1 DEF View
  <2>3. \A r \in Row : (IF r \in Locked(t) \cup rows THEN m[r] ELSE asg[r])
                         = IF r \in rows THEN u.to ELSE s[r]
    BY DEF View
  <2>4. \A r \in Row : r \in rows <=> r \in u.where /\ s[r] \in u.from
    OBVIOUS
  <2> HIDE DEF m, rows, s, u
  <2>5. View(t)' = [r \in Row |-> IF r \in rows THEN u.to ELSE s[r]]
    BY <2>2, <2>3
  <2> QED BY <2>4, <2>5 DEF Updated
<1>17. Recorded(t)' = Recorded(t)
  BY <1>13, <1>14, <1>15 DEF Recorded
<1>18. \A q : FailedCanaryLayers(q, o)' = FailedCanaryLayers(q, o)
  BY <1>13, <1>14, <1>15 DEF FailedCanaryLayers, WaitingLayers, CanaryRows, RowsOf
<1>19. \A q : PassedCanaryLayers(q, o)' = PassedCanaryLayers(q, o)
  BY <1>13, <1>14, <1>15 DEF PassedCanaryLayers, WaitingLayers, CanaryRows, RowsOf
<1>26. r0' = r0
  BY <1>13, <1>14
<1>20. c' = c
  BY <1>15, <1>17, <1>18, <1>19, <1>26 DEF advance_canary
<1>21. advance_phased_apply(Recorded(t), o)' = AdvanceLayers(c, o)
  BY <1>20, <1>26 DEF advance_phased_apply, AdvanceLayers, HeldRows, GateRows, NextLayer, RowsOf
<1>22. SeesStep(t)
  BY <1>3 DEF RaceInv, Own
<1>23. SeesStep(t)'
  <2>1. CASE from = "write_canary"
    BY <1>1, <1>13, <1>14, <1>16, <1>20, <1>22, <2>1 DEF SeesStep
  <2>2. CASE from = "write_layers"
    BY <1>1, <1>13, <1>14, <1>16, <1>20, <1>21, <1>22, <2>2 DEF SeesStep
  <2> QED BY <2>1, <2>2
<1>24. Own(t)'
  <2>1. Own(t)
    BY DEF RaceInv
  <2>2. r0 \in Locked(t)'
    BY <1>3, <1>9, <1>13, <1>14, <2>1 DEF Own, Locked
  <2>3. tx'[t].pc \in {"layers", "rollup"}
    BY <1>13, <1>14
  <2> QED BY <1>3, <1>13, <1>14, <1>15, <1>23, <2>1, <2>2, <2>3 DEF Own, Running, Written
<1>25. \A v \in Tx \ {t} : ~Written(v)
  BY <1>3 DEF RaceInv
<1> QED BY <1>1, <1>11, <1>12, <1>24, <1>25, StatementFrame

\* A commit publishes the atomic step, and the reads of the others are out of date.
LEMMA CommitStep ==
  ASSUME RaceInv, NEW t \in Tx, Commit(t)
  PROVE  Next /\ RaceInv'
<1> DEFINE r == tx[t].row
           o == OpOf(r)
           s2 == advance_phased_apply(Recorded(t), o)
<1>1. tx[t].pc = "rollup"
  BY DEF Commit
<1>2. Written(t) /\ Running(t)
  BY <1>1 DEF Written, Running
<1>3. Own(t)
  BY DEF RaceInv
<1>4. View(t) = s2
  BY <1>1, <1>2, <1>3 DEF Own, SeesStep
<1>5. r \in Row /\ tx[t].result \in Result /\ r \in shipped /\ asg[r] \in {"pending", "fetched"}
  BY <1>2, <1>3, RunningRow DEF Own
<1>6. RecordResult(r, tx[t].result)
  <2> HIDE DEF s2
  <2>1. /\ asg' = s2
        /\ opStatus' = [opStatus EXCEPT ![o] = roll_up_operation(s2, o)]
        /\ expired' = {x \in expired : s2[x] = "fetched"}
        /\ UNCHANGED <<registered, desired, batch, polls, shipped>>
    BY <1>4 DEF Commit
  <2>2. s2 = advance_phased_apply([asg EXCEPT ![r] = tx[t].result], o)
    BY DEF s2, Recorded
  <2> QED BY <1>5, <2>1, <2>2 DEF RecordResult
<1>7. Next
  BY <1>5, <1>6 DEF complete_assignment, Next
<1>8. TypeOK'
  BY <1>7, TypeStep DEF RaceInv, TxTypeOK
<1>9. tx' = [u \in Tx |-> IF u = t THEN NoTx ELSE [tx[u] EXCEPT !.stale = Running(u)]]
  BY DEF Commit
<1>10. tx \in [Tx -> TxRecord]
  BY DEF RaceInv, TxTypeOK
<1>11. \A u \in Tx : Running(u) \in BOOLEAN
  BY DEF Running
<1>12. ASSUME NEW u \in Tx \ {t}
       PROVE  tx'[u] \in TxRecord /\ Own(u)' /\ ~Written(u)'
  <2>1. tx[u] \in TxRecord
    BY <1>10
  <2>2. tx'[u] = [tx[u] EXCEPT !.stale = Running(u)]
    BY <1>9
  <2>3. /\ tx'[u].pc = tx[u].pc /\ tx'[u].row = tx[u].row /\ tx'[u].result = tx[u].result
        /\ tx'[u].mine = tx[u].mine /\ tx'[u].stale = Running(u)
    BY <2>1, <2>2 DEF TxRecord
  <2>4. tx'[u] \in TxRecord
    BY <1>11, <2>1, <2>2 DEF TxRecord
  <2>5. ~Written(u)
    BY <1>2 DEF RaceInv
  <2>6. ~Written(u)'
    BY <2>3, <2>5 DEF Written
  <2>7. Own(u)
    BY DEF RaceInv
  <2>8. shipped' = shipped
    BY DEF Commit
  <2>9. Running(u)' <=> Running(u)
    BY <2>3 DEF Running
  <2>10. Locked(u)' = Locked(u)
    BY <2>3 DEF Locked
  <2> QED BY <2>3, <2>4, <2>6, <2>7, <2>8, <2>9, <2>10 DEF Own
<1>13. tx'[t] = NoTx
  BY <1>9
<1>14. tx'[t] \in TxRecord /\ Own(t)' /\ ~Written(t)'
  BY <1>13, NoTxType DEF Own, Locked, Running, Written
<1>15. tx' \in [Tx -> TxRecord]
  <2>1. \A u \in Tx : tx'[u] \in TxRecord
    BY <1>12, <1>14
  <2>2. tx' = [u \in Tx |-> tx'[u]]
    BY <1>9
  <2> QED BY <2>1, <2>2
<1>16. \A u \in Tx : Own(u)' /\ ~Written(u)'
  BY <1>12, <1>14
<1> QED BY <1>7, <1>8, <1>15, <1>16 DEF RaceInv, TxTypeOK

\* Another operation on SQLite changes no assignment and no status while
\* somebody writes.
LEMMA OtherOperations ==
  ASSUME RaceInv, Dialect = "sqlite", OtherStep
  PROVE  Next /\ RaceInv'
<1>1. Next
  BY DEF OtherStep, Next
<1>2. TypeOK'
  BY <1>1, TypeStep DEF RaceInv, TxTypeOK
<1> DEFINE changed == <<asg, opStatus>>' # <<asg, opStatus>>
<1>3. changed => \A t \in Tx : Locked(t) = {}
  BY DEF OtherStep
<1>4. tx' = [t \in Tx |-> [tx[t] EXCEPT !.stale = @ \/ (Running(t) /\ changed)]]
  BY DEF OtherStep
<1>5. shipped \subseteq shipped'
  BY DEF OtherStep, register_agent, create_operation, approve_operation, reject_operation,
         fetch_pending_assignments, ShipAssignments, revert_assignment_claims, LoseAnswer,
         claim_ssh_pending, LeaseExpires
<1>6. ~changed => batch' = batch
  <2>1. opStatus \in [Op -> OpStatus]
    BY DEF RaceInv, TxTypeOK, TypeOK
  <2>2. ASSUME NEW o \in Op, NEW m \in Manifest, NEW ra \in BOOLEAN, NEW spec, create_operation(o, m, ra, spec)
        PROVE  changed
    <3>1. opStatus[o] = "none" /\ opStatus'[o] # "none"
      BY <2>1, <2>2 DEF create_operation
    <3> QED BY <3>1
  <2>3. ASSUME NEW o \in Op, approve_operation(o) PROVE changed
    <3>1. opStatus[o] = "pending_approval" /\ opStatus'[o] # "pending_approval"
      BY <2>1, <2>3 DEF approve_operation
    <3> QED BY <3>1
  <2> HIDE DEF changed
  <2> QED BY <2>2, <2>3
       DEF OtherStep, register_agent, reject_operation,
           fetch_pending_assignments, ShipAssignments, revert_assignment_claims, LoseAnswer,
           claim_ssh_pending, LeaseExpires
<1>7. changed \in BOOLEAN /\ (~changed => asg' = asg)
  OBVIOUS
<1>8. tx \in [Tx -> TxRecord]
  BY DEF RaceInv, TxTypeOK
<1> HIDE DEF changed
<1>9. ASSUME NEW u \in Tx
      PROVE  tx'[u] \in TxRecord /\ Own(u)' /\ (Written(u)' <=> Written(u))
  <2>1. tx[u] \in TxRecord
    BY <1>8
  <2>2. tx'[u] = [tx[u] EXCEPT !.stale = @ \/ (Running(u) /\ changed)]
    BY <1>4
  <2>3. /\ tx'[u].pc = tx[u].pc /\ tx'[u].row = tx[u].row /\ tx'[u].result = tx[u].result
        /\ tx'[u].mine = tx[u].mine /\ tx'[u].stale = (tx[u].stale \/ (Running(u) /\ changed))
    BY <2>1, <2>2 DEF TxRecord
  <2>4. tx'[u] \in TxRecord
    BY <1>7, <2>1, <2>2 DEF TxRecord, Running
  <2>5. Own(u) /\ (Running(u)' <=> Running(u)) /\ (Written(u)' <=> Written(u)) /\ Locked(u)' = Locked(u)
    BY <2>3 DEF RaceInv, Running, Written, Locked
  <2>6. CASE changed
    <3>1. Locked(u) = {} /\ ~Written(u)
      BY <1>3, <2>5, <2>6 DEF Own
    <3> QED BY <1>5, <2>3, <2>4, <2>5, <2>6, <3>1 DEF Own
  <2>7. CASE ~changed
    <3>1. tx'[u].stale = tx[u].stale
      BY <2>1, <2>3, <2>7 DEF TxRecord
    <3>2. tx'[u] = tx[u]
      BY <2>1, <2>2, <2>7 DEF TxRecord
    <3>3. SeesStep(u)' <=> SeesStep(u)
      BY <1>6, <1>7, <2>7, <3>2, SameView
    <3> QED BY <1>5, <1>7, <2>3, <2>4, <2>5, <2>7, <3>1, <3>3 DEF Own
  <2> QED BY <2>6, <2>7
<1>10. tx' \in [Tx -> TxRecord]
  <2>1. tx' = [u \in Tx |-> tx'[u]]
    BY <1>4
  <2> QED BY <1>9, <2>1
<1> QED BY <1>1, <1>2, <1>9, <1>10 DEF RaceInv, TxTypeOK

LEMMA RaceStep ==
  ASSUME RaceInv, Dialect = "sqlite", [TxNext]_txVars
  PROVE  [Next]_vars /\ RaceInv'
<1>1. CASE OtherStep
  BY <1>1, OtherOperations
<1>2. ASSUME NEW t \in Tx, NEW r \in Row, NEW result \in Result, Begin(t, r, result)
      PROVE  UNCHANGED vars /\ RaceInv'
  <2>1. UNCHANGED vars
    BY <1>2 DEF Begin
  <2> QED BY <1>2, <2>1, BeginStep
<1>3. ASSUME NEW t \in Tx, TxStep(t)
      PROVE  [Next]_vars /\ RaceInv'
  <2>1. CASE WriteResult(t)
    BY <2>1, WriteResultStep DEF WriteResult
  <2>2. CASE Busy(t)
    BY <2>2, BusyStep DEF Busy
  <2>3. CASE ReadCanary(t)
    BY <2>3, ReadCanaryStep DEF ReadCanary
  <2>4. CASE WriteGate(t, "write_canary", "layers")
    BY <2>4, WriteGateStep DEF WriteGate
  <2>5. CASE ReadLayers(t)
    BY <2>5, ReadLayersStep DEF ReadLayers
  <2>6. CASE WriteGate(t, "write_layers", "rollup")
    BY <2>6, WriteGateStep DEF WriteGate
  <2>7. CASE Commit(t)
    BY <2>7, CommitStep
  <2> QED BY <1>3, <2>1, <2>2, <2>3, <2>4, <2>5, <2>6, <2>7 DEF TxStep
<1>4. CASE UNCHANGED txVars
  <2>1. UNCHANGED vars /\ tx' = tx
    BY <1>4 DEF txVars
  <2>2. asg' = asg /\ batch' = batch /\ shipped' = shipped
    BY <2>1 DEF vars
  <2>3. TypeOK'
    BY <2>1, TypeStep DEF RaceInv, TxTypeOK
  <2>4. ASSUME NEW u \in Tx PROVE Own(u)' /\ (Written(u)' <=> Written(u))
    <3>1. SeesStep(u)' <=> SeesStep(u)
      BY <2>1, <2>2, SameView
    <3> QED BY <2>1, <2>2, <3>1 DEF RaceInv, Own, Running, Written, Locked
  <2> QED BY <2>1, <2>3, <2>4 DEF RaceInv, TxTypeOK
<1> QED BY <1>1, <1>2, <1>3, <1>4 DEF TxNext

LEMMA RaceInit == TxInit => RaceInv
<1> SUFFICES ASSUME TxInit PROVE RaceInv
  OBVIOUS
<1>1. TypeOK
  BY TypeInit DEF TxInit
<1>2. \A t \in Tx : tx[t] = NoTx
  BY DEF TxInit
<1>3. tx \in [Tx -> TxRecord]
  BY NoTxType DEF TxInit
<1>4. \A t \in Tx : Own(t) /\ ~Written(t)
  BY <1>2, NoTxType DEF Own, Running, Written, Locked
<1> QED BY <1>1, <1>3, <1>4 DEF RaceInv, TxTypeOK

\* complete_assignment on SQLite: reports whose transactions overlap, statement
\* by statement, with each other and with every other operation, have the effect
\* of the single step of Rollout or none.
THEOREM RacingIsOneStepCorrect ==
  ASSUME Dialect = "sqlite"
  PROVE  TxSpec => RacingIsOneStep
<1>1. RaceInv /\ [TxNext]_txVars => [Next]_vars /\ RaceInv'
  BY RaceStep
<1> QED BY <1>1, RaceInit, PTL DEF TxSpec, RacingIsOneStep

\* So complete_assignment in statements implements the state machine of Rollout on
\* SQLite, whose promises hold of it.
THEOREM TxImplementsRollout ==
  ASSUME Dialect = "sqlite"
  PROVE  TxSpec => Spec
<1>1. TxInit => Init
  BY DEF TxInit
<1> QED BY <1>1, RacingIsOneStepCorrect, PTL DEF TxSpec, Spec, RacingIsOneStep

\* advance_phased_apply, "Safe to call from multiple completions racing against
\* each other": true on SQLite.
THEOREM RacingIsSafeOnSqlite ==
  ASSUME Dialect = "sqlite"
  PROVE  TxSpec => [](RacingCompletionsAreSafe /\ LayerGate /\ FinishedIffSettled)
<1>1. NoStrandedRows => RacingCompletionsAreSafe
  BY DEF NoStrandedRows, RacingCompletionsAreSafe
<1> QED BY <1>1, TxImplementsRollout, NoStrandedRowsCorrect, LayerGateCorrect,
           FinishedIffSettledCorrect, PTL

(***************************************************************************)
(* Fleet.  The fleet implements the dispatch state machine, so that its    *)
(* gates hold with real agents, and the promises of the agents' replay     *)
(* table follow, for every number of agents, crashes and faults.           *)
(*                                                                         *)
(* The inductive invariant follows an envelope through the agent: what is  *)
(* queued, in hand or reported was handed out by the server; what is       *)
(* reported is an outcome of an execution; and an execution is remembered  *)
(* by the table, by the agent's hands, or by a fault.                      *)
(***************************************************************************)

\* Polls carry rows of the agent they answer, and agents wait for their own.
PollsOwned ==
  /\ \A p \in Poll : \A r \in polls[p].rows : AgentOf(r) = polls[p].agent
  /\ \A a \in Agent : waiting[a] # NoPoll => polls[waiting[a]].agent = a

\* What is queued was handed out, to this agent.
QueueInv ==
  \A a \in Agent : \A r \in queue[a] : AgentOf(r) = a /\ r \in shipped

\* The envelope in hand.
WorkInv ==
  \A a \in Agent :
    LET w == work[a] IN
    /\ w.step = "none" <=> w.row = NoRow
    /\ w.step # "none" => w.row \in Row /\ AgentOf(w.row) = a /\ w.row \in shipped
    /\ w.step \in {"executed", "reporting"} =>
         w.status \in Result /\ w.status \in outcomes[w.row]
    /\ dbFaults = 0 /\ w.step \in {"executing", "executed"} =>
         processed[w.row] = NoResult
    /\ dbFaults = 0 /\ w.step = "reporting" => processed[w.row] = w.status

\* Reports in flight and the table.
ReportInv ==
  /\ \A m \in net :
       /\ m[1] \in shipped /\ m[2] \in outcomes[m[1]]
       /\ dbFaults = 0 => processed[m[1]] = m[2]
  /\ \A r \in Row : processed[r] # NoResult => processed[r] \in outcomes[r]

\* An execution is remembered by the table or is in hand.
Remembered(r) ==
  \/ processed[r] # NoResult
  \/ work[AgentOf(r)].row = r /\ work[AgentOf(r)].step \in {"executing", "executed"}

AppliedInv ==
  \A r \in Row :
    /\ applied[r] <= crashes + dbFaults + (IF Remembered(r) THEN 1 ELSE 0)
    /\ applied[r] > 0 => r \in shipped

AgentInv == PollsOwned /\ QueueInv /\ WorkInv /\ ReportInv

LEMMA RowParts ==
  ASSUME NEW r \in Row
  PROVE  AgentOf(r) \in Agent
BY DEF Row, AgentOf

(***************************************************************************)
(* Refinement                                                              *)
(***************************************************************************)

LEMMA FleetStepIsRolloutStep ==
  ASSUME FleetTypeOK, ReportInv, [FleetNext]_fleetVars
  PROVE  [Next]_vars
<1>1. ASSUME ServerStep PROVE Next
  BY <1>1 DEF ServerStep, Next
<1>2. ASSUME NEW p \in Poll, EndPoll(p) PROVE Next
  BY <1>2 DEF EndPoll, Next
<1>3. ASSUME NEW a \in Agent, NEW p \in Poll, PollServer(a, p) PROVE Next
  BY <1>3 DEF PollServer, Next
<1>4. ASSUME NEW a \in Agent, TakeBatch(a) \/ RefuseBatch(a) PROVE Next
  <2>1. waiting[a] \in Poll
    BY <1>4 DEF TakeBatch, RefuseBatch, FleetTypeOK
  <2> QED BY <1>4, <2>1 DEF TakeBatch, RefuseBatch, Next
<1>5. ASSUME NEW m \in Row \X Result, DeliverReport(m) PROVE Next \/ UNCHANGED vars
  <2>1. CASE RecordResult(m[1], m[2])
    <3>1. m[1] \in Row /\ m[2] \in Result /\ m[1] \in shipped
      BY <1>5 DEF DeliverReport, ReportInv
    <3>2. complete_assignment(m[1], m[2])
      BY <2>1, <3>1 DEF complete_assignment
    <3> QED BY <3>1, <3>2 DEF Next
  <2> QED BY <1>5, <2>1 DEF DeliverReport
<1>6. ASSUME NEW a \in Agent,
             \/ PollTimesOut(a)
             \/ \E r \in Row : ReplayKnown(a, r) \/ Execute(a, r)
             \/ \E result \in Result : Executed(a, result)
             \/ mark_assignment_processed(a) \/ report_assignment(a)
             \/ CrashAgent(a)
      PROVE  UNCHANGED vars
  BY <1>6 DEF PollTimesOut, ReplayKnown, Execute, Executed,
              mark_assignment_processed, report_assignment, CrashAgent
<1>7. ASSUME \/ \E m \in Row \X Result : LoseReport(m)
             \/ \E r \in Row : EnvelopeAges(r)
             \/ UNCHANGED fleetVars
      PROVE  UNCHANGED vars
  BY <1>7 DEF LoseReport, EnvelopeAges, fleetVars
<1> QED BY <1>1, <1>2, <1>3, <1>4, <1>5, <1>6, <1>7 DEF FleetNext

(***************************************************************************)
(* The invariant is inductive                                              *)
(***************************************************************************)

AgentTypeOK ==
  /\ waiting \in [Agent -> Poll \cup {NoPoll}]
  /\ queue \in [Agent -> SUBSET Row]
  /\ work \in [Agent -> [row : Row \cup {NoRow}, step : Step,
                         status : Result \cup {NoResult}]]
  /\ processed \in [Row -> Result \cup {NoResult}]
  /\ net \subseteq Row \X Result
  /\ stale \subseteq Row
  /\ applied \in [Row -> Nat]
  /\ outcomes \in [Row -> SUBSET Result]
  /\ crashes \in 0..MaxCrash
  /\ dbFaults \in 0..MaxDbFault

\* The agents' side of the type invariant.
LEMMA AgentTypeStep ==
  ASSUME TypeOK, AgentTypeOK, WorkInv, [FleetNext]_fleetVars
  PROVE  AgentTypeOK'
<1>1. ASSUME ServerStep
      PROVE  AgentTypeOK'
  BY <1>1, FleetAssumption DEF ServerStep, agentVars, AgentTypeOK, TypeOK,
     WorkInv, NoWork, InHand, Step
<1>2. ASSUME NEW p \in Poll, EndPoll(p)
      PROVE  AgentTypeOK'
  BY <1>2, FleetAssumption DEF EndPoll, AgentTypeOK, TypeOK, WorkInv, NoWork,
     InHand, Step
<1>3. ASSUME NEW a \in Agent, NEW p \in Poll, PollServer(a, p)
      PROVE  AgentTypeOK'
  BY <1>3, FleetAssumption DEF PollServer, AgentTypeOK, TypeOK, WorkInv,
     NoWork, InHand, Step
<1>4. ASSUME NEW a \in Agent, PollTimesOut(a)
      PROVE  AgentTypeOK'
  BY <1>4, FleetAssumption DEF PollTimesOut, AgentTypeOK, TypeOK, WorkInv,
     NoWork, InHand, Step
<1>5. ASSUME NEW a \in Agent, TakeBatch(a)
      PROVE  AgentTypeOK'
  BY <1>5, FleetAssumption DEF TakeBatch, AgentTypeOK, TypeOK, WorkInv,
     NoWork, InHand, Step
<1>6. ASSUME NEW a \in Agent, RefuseBatch(a)
      PROVE  AgentTypeOK'
  BY <1>6, FleetAssumption DEF RefuseBatch, AgentTypeOK, TypeOK, WorkInv,
     NoWork, InHand, Step
<1>7. ASSUME NEW a \in Agent, NEW r \in Row, ReplayKnown(a, r)
      PROVE  AgentTypeOK'
  BY <1>7, FleetAssumption DEF ReplayKnown, Next1, AgentTypeOK, TypeOK,
     WorkInv, NoWork, InHand, Step
<1>8. ASSUME NEW a \in Agent, NEW r \in Row, Execute(a, r)
      PROVE  AgentTypeOK'
  BY <1>8, FleetAssumption DEF Execute, Next1, AgentTypeOK, TypeOK, WorkInv,
     NoWork, InHand, Step
<1>9. ASSUME NEW a \in Agent, NEW result \in Result, Executed(a, result)
      PROVE  AgentTypeOK'
  BY <1>9, FleetAssumption DEF Executed, AgentTypeOK, TypeOK, WorkInv, NoWork,
     InHand, Step
<1>10. ASSUME NEW a \in Agent, mark_assignment_processed(a)
      PROVE  AgentTypeOK'
  BY <1>10, FleetAssumption DEF mark_assignment_processed, AgentTypeOK,
     TypeOK, WorkInv, NoWork, InHand, Step
<1>11. ASSUME NEW a \in Agent, report_assignment(a)
      PROVE  AgentTypeOK'
  BY <1>11, FleetAssumption DEF report_assignment, AgentTypeOK, TypeOK,
     WorkInv, NoWork, InHand, Step
<1>12. ASSUME NEW a \in Agent, CrashAgent(a)
      PROVE  AgentTypeOK'
  BY <1>12, FleetAssumption DEF CrashAgent, AgentTypeOK, TypeOK, WorkInv,
     NoWork, InHand, Step
<1>13. ASSUME NEW m \in Row \X Result, DeliverReport(m)
      PROVE  AgentTypeOK'
  BY <1>13, FleetAssumption DEF DeliverReport, AgentTypeOK, TypeOK, WorkInv,
     NoWork, InHand, Step
<1>14. ASSUME NEW m \in Row \X Result, LoseReport(m)
      PROVE  AgentTypeOK'
  BY <1>14, FleetAssumption DEF LoseReport, AgentTypeOK, TypeOK, WorkInv,
     NoWork, InHand, Step
<1>15. ASSUME NEW r \in Row, EnvelopeAges(r)
      PROVE  AgentTypeOK'
  BY <1>15, FleetAssumption DEF EnvelopeAges, AgentTypeOK, TypeOK, WorkInv,
     NoWork, InHand, Step
<1>16. ASSUME UNCHANGED fleetVars
      PROVE  AgentTypeOK'
  BY <1>16, FleetAssumption DEF fleetVars, vars, agentVars, AgentTypeOK,
     TypeOK, WorkInv, NoWork, InHand, Step
<1> QED BY <1>1, <1>2, <1>3, <1>4, <1>5, <1>6, <1>7, <1>8, <1>9, <1>10, <1>11,
           <1>12, <1>13, <1>14, <1>15, <1>16 DEF FleetNext

\* What is shipped stays shipped; a batch goes to the agent that waits for it.
LEMMA QueueStep ==
  ASSUME TypeOK, AgentTypeOK, PollsOwned, QueueInv, [FleetNext]_fleetVars
  PROVE  QueueInv'
<1>1. ASSUME ServerStep
      PROVE  QueueInv'
  BY <1>1 DEF ServerStep, agentVars, AgentTypeOK, QueueInv, PollsOwned,
     register_agent, create_operation, approve_operation, reject_operation,
     LeaseExpires
<1>2. ASSUME NEW p \in Poll, EndPoll(p)
      PROVE  QueueInv'
  BY <1>2 DEF EndPoll, AgentTypeOK, QueueInv, PollsOwned,
     revert_assignment_claims, LoseAnswer
<1>3. ASSUME NEW a \in Agent, NEW p \in Poll, PollServer(a, p)
      PROVE  QueueInv'
  BY <1>3 DEF PollServer, AgentTypeOK, QueueInv, PollsOwned,
     fetch_pending_assignments, Claimable
<1>4. ASSUME NEW a \in Agent, PollTimesOut(a)
      PROVE  QueueInv'
  BY <1>4 DEF PollTimesOut, AgentTypeOK, QueueInv, PollsOwned, vars
<1>5. ASSUME NEW a \in Agent, TakeBatch(a)
      PROVE  QueueInv'
  BY <1>5 DEF TakeBatch, AgentTypeOK, QueueInv, PollsOwned, ShipAssignments
<1>6. ASSUME NEW a \in Agent, RefuseBatch(a)
      PROVE  QueueInv'
  BY <1>6 DEF RefuseBatch, AgentTypeOK, QueueInv, PollsOwned, LoseAnswer
<1>7. ASSUME NEW a \in Agent, NEW r \in Row, ReplayKnown(a, r)
      PROVE  QueueInv'
  BY <1>7 DEF ReplayKnown, Next1, AgentTypeOK, QueueInv, PollsOwned, vars
<1>8. ASSUME NEW a \in Agent, NEW r \in Row, Execute(a, r)
      PROVE  QueueInv'
  BY <1>8 DEF Execute, Next1, AgentTypeOK, QueueInv, PollsOwned, vars
<1>9. ASSUME NEW a \in Agent, NEW result \in Result, Executed(a, result)
      PROVE  QueueInv'
  BY <1>9 DEF Executed, AgentTypeOK, QueueInv, PollsOwned, vars
<1>10. ASSUME NEW a \in Agent, mark_assignment_processed(a)
      PROVE  QueueInv'
  BY <1>10 DEF mark_assignment_processed, AgentTypeOK, QueueInv, PollsOwned,
     vars
<1>11. ASSUME NEW a \in Agent, report_assignment(a)
      PROVE  QueueInv'
  BY <1>11 DEF report_assignment, AgentTypeOK, QueueInv, PollsOwned, vars
<1>12. ASSUME NEW a \in Agent, CrashAgent(a)
      PROVE  QueueInv'
  BY <1>12 DEF CrashAgent, AgentTypeOK, QueueInv, PollsOwned, vars
<1>13. ASSUME NEW m \in Row \X Result, DeliverReport(m)
      PROVE  QueueInv'
  BY <1>13 DEF DeliverReport, AgentTypeOK, QueueInv, PollsOwned, RecordResult,
     vars
<1>14. ASSUME NEW m \in Row \X Result, LoseReport(m)
      PROVE  QueueInv'
  BY <1>14 DEF LoseReport, AgentTypeOK, QueueInv, PollsOwned, vars
<1>15. ASSUME NEW r \in Row, EnvelopeAges(r)
      PROVE  QueueInv'
  BY <1>15 DEF EnvelopeAges, AgentTypeOK, QueueInv, PollsOwned, vars
<1>16. ASSUME UNCHANGED fleetVars
      PROVE  QueueInv'
  BY <1>16 DEF fleetVars, vars, agentVars, AgentTypeOK, QueueInv, PollsOwned
<1> QED BY <1>1, <1>2, <1>3, <1>4, <1>5, <1>6, <1>7, <1>8, <1>9, <1>10, <1>11,
           <1>12, <1>13, <1>14, <1>15, <1>16 DEF FleetNext

\* Nothing that was handed out is taken back.
LEMMA ShippedGrows ==
  ASSUME TypeOK, [Next]_vars
  PROVE  shipped \subseteq shipped'
BY DEF Next, vars, register_agent, create_operation, approve_operation,
       reject_operation, fetch_pending_assignments, ShipAssignments,
       revert_assignment_claims, LoseAnswer, claim_ssh_pending, LeaseExpires,
       complete_assignment, RecordResult

\* A busy poll is not taken over, and an idle one has nobody waiting for it.
LEMMA PollsStep ==
  ASSUME TypeOK, AgentTypeOK, PollsOwned, [FleetNext]_fleetVars
  PROVE  PollsOwned'
<1>1. ASSUME ServerStep
      PROVE  PollsOwned'
  BY <1>1, FleetAssumption, AgentAssumption DEF ServerStep, agentVars,
     AgentTypeOK, TypeOK, PollsOwned, Idle, register_agent, create_operation,
     approve_operation, reject_operation, LeaseExpires
<1>2. ASSUME NEW p \in Poll, EndPoll(p)
      PROVE  PollsOwned'
  <2>1. polls' = [polls EXCEPT ![p] = Idle]
    BY <1>2 DEF EndPoll, revert_assignment_claims, LoseAnswer
  <2>2. \A q \in Poll : \A r \in polls'[q].rows : AgentOf(r) = polls'[q].agent
    BY <2>1 DEF TypeOK, PollsOwned, Idle
  <2>3. ASSUME NEW a \in Agent, waiting'[a] # NoPoll
        PROVE  polls'[waiting'[a]].agent = a
    BY <1>2, <2>1, <2>3 DEF EndPoll, AgentTypeOK, TypeOK, PollsOwned
  <2> QED BY <2>2, <2>3 DEF PollsOwned
<1>3. ASSUME NEW a \in Agent, NEW p \in Poll, PollServer(a, p)
      PROVE  PollsOwned'
  BY <1>3, FleetAssumption, AgentAssumption DEF PollServer, AgentTypeOK,
     TypeOK, PollsOwned, Idle, fetch_pending_assignments, Claimable
<1>4. ASSUME NEW a \in Agent, PollTimesOut(a)
      PROVE  PollsOwned'
  BY <1>4, FleetAssumption, AgentAssumption DEF PollTimesOut, AgentTypeOK,
     TypeOK, PollsOwned, Idle, vars
<1>5. ASSUME NEW a \in Agent, TakeBatch(a)
      PROVE  PollsOwned'
  BY <1>5, FleetAssumption, AgentAssumption DEF TakeBatch, AgentTypeOK,
     TypeOK, PollsOwned, Idle, ShipAssignments
<1>6. ASSUME NEW a \in Agent, RefuseBatch(a)
      PROVE  PollsOwned'
  BY <1>6, FleetAssumption, AgentAssumption DEF RefuseBatch, AgentTypeOK,
     TypeOK, PollsOwned, Idle, LoseAnswer
<1>7. ASSUME NEW a \in Agent, NEW r \in Row, ReplayKnown(a, r)
      PROVE  PollsOwned'
  BY <1>7, FleetAssumption, AgentAssumption DEF ReplayKnown, Next1,
     AgentTypeOK, TypeOK, PollsOwned, Idle, vars
<1>8. ASSUME NEW a \in Agent, NEW r \in Row, Execute(a, r)
      PROVE  PollsOwned'
  BY <1>8, FleetAssumption, AgentAssumption DEF Execute, Next1, AgentTypeOK,
     TypeOK, PollsOwned, Idle, vars
<1>9. ASSUME NEW a \in Agent, NEW result \in Result, Executed(a, result)
      PROVE  PollsOwned'
  BY <1>9, FleetAssumption, AgentAssumption DEF Executed, AgentTypeOK, TypeOK,
     PollsOwned, Idle, vars
<1>10. ASSUME NEW a \in Agent, mark_assignment_processed(a)
      PROVE  PollsOwned'
  BY <1>10, FleetAssumption, AgentAssumption DEF mark_assignment_processed,
     AgentTypeOK, TypeOK, PollsOwned, Idle, vars
<1>11. ASSUME NEW a \in Agent, report_assignment(a)
      PROVE  PollsOwned'
  BY <1>11, FleetAssumption, AgentAssumption DEF report_assignment,
     AgentTypeOK, TypeOK, PollsOwned, Idle, vars
<1>12. ASSUME NEW a \in Agent, CrashAgent(a)
      PROVE  PollsOwned'
  BY <1>12, FleetAssumption, AgentAssumption DEF CrashAgent, AgentTypeOK,
     TypeOK, PollsOwned, Idle, vars
<1>13. ASSUME NEW m \in Row \X Result, DeliverReport(m)
      PROVE  PollsOwned'
  BY <1>13, FleetAssumption, AgentAssumption DEF DeliverReport, AgentTypeOK,
     TypeOK, PollsOwned, Idle, RecordResult, vars
<1>14. ASSUME NEW m \in Row \X Result, LoseReport(m)
      PROVE  PollsOwned'
  BY <1>14, FleetAssumption, AgentAssumption DEF LoseReport, AgentTypeOK,
     TypeOK, PollsOwned, Idle, vars
<1>15. ASSUME NEW r \in Row, EnvelopeAges(r)
      PROVE  PollsOwned'
  BY <1>15, FleetAssumption, AgentAssumption DEF EnvelopeAges, AgentTypeOK,
     TypeOK, PollsOwned, Idle, vars
<1>16. ASSUME UNCHANGED fleetVars
      PROVE  PollsOwned'
  BY <1>16, FleetAssumption, AgentAssumption DEF fleetVars, vars, agentVars,
     AgentTypeOK, TypeOK, PollsOwned, Idle
<1> QED BY <1>1, <1>2, <1>3, <1>4, <1>5, <1>6, <1>7, <1>8, <1>9, <1>10, <1>11,
           <1>12, <1>13, <1>14, <1>15, <1>16 DEF FleetNext

\* The envelope in hand.
LEMMA WorkStep ==
  ASSUME TypeOK, AgentTypeOK, QueueInv, WorkInv, ReportInv, [FleetNext]_fleetVars
  PROVE  WorkInv'
<1>0. shipped \subseteq shipped'
  BY FleetStepIsRolloutStep, ShippedGrows DEF FleetTypeOK, AgentTypeOK
<1>1. ASSUME ServerStep
      PROVE  WorkInv'
  BY <1>1, <1>0, FleetAssumption, RowParts DEF ServerStep, agentVars,
     AgentTypeOK, WorkInv, NoWork, InHand, vars, QueueInv, ReportInv
<1>2. ASSUME NEW p \in Poll, EndPoll(p)
      PROVE  WorkInv'
  BY <1>2, <1>0, FleetAssumption, RowParts DEF EndPoll, AgentTypeOK, WorkInv,
     NoWork, InHand, vars, QueueInv, ReportInv
<1>3. ASSUME NEW a \in Agent, NEW p \in Poll, PollServer(a, p)
      PROVE  WorkInv'
  BY <1>3, <1>0, FleetAssumption, RowParts DEF PollServer, AgentTypeOK,
     WorkInv, NoWork, InHand, vars, QueueInv, ReportInv
<1>4. ASSUME NEW a \in Agent, PollTimesOut(a)
      PROVE  WorkInv'
  BY <1>4, <1>0, FleetAssumption, RowParts DEF PollTimesOut, AgentTypeOK,
     WorkInv, NoWork, InHand, vars, QueueInv, ReportInv
<1>5. ASSUME NEW a \in Agent, TakeBatch(a)
      PROVE  WorkInv'
  BY <1>5, <1>0, FleetAssumption, RowParts DEF TakeBatch, AgentTypeOK,
     WorkInv, NoWork, InHand, vars, QueueInv, ReportInv
<1>6. ASSUME NEW a \in Agent, RefuseBatch(a)
      PROVE  WorkInv'
  BY <1>6, <1>0, FleetAssumption, RowParts DEF RefuseBatch, AgentTypeOK,
     WorkInv, NoWork, InHand, vars, QueueInv, ReportInv
<1>7. ASSUME NEW a \in Agent, NEW r \in Row, ReplayKnown(a, r)
      PROVE  WorkInv'
  BY <1>7, <1>0, FleetAssumption, RowParts DEF ReplayKnown, Next1,
     AgentTypeOK, WorkInv, NoWork, InHand, vars, QueueInv, ReportInv
<1>8. ASSUME NEW a \in Agent, NEW r \in Row, Execute(a, r)
      PROVE  WorkInv'
  BY <1>8, <1>0, FleetAssumption, RowParts DEF Execute, Next1, AgentTypeOK,
     WorkInv, NoWork, InHand, vars, QueueInv, ReportInv
<1>9. ASSUME NEW a \in Agent, NEW result \in Result, Executed(a, result)
      PROVE  WorkInv'
  BY <1>9, <1>0, FleetAssumption, RowParts DEF Executed, AgentTypeOK, WorkInv,
     NoWork, InHand, vars, QueueInv, ReportInv
<1>10. ASSUME NEW a \in Agent, mark_assignment_processed(a)
      PROVE  WorkInv'
  BY <1>10, <1>0, FleetAssumption, RowParts DEF mark_assignment_processed,
     AgentTypeOK, WorkInv, NoWork, InHand, vars, QueueInv, ReportInv
<1>11. ASSUME NEW a \in Agent, report_assignment(a)
      PROVE  WorkInv'
  BY <1>11, <1>0, FleetAssumption, RowParts DEF report_assignment,
     AgentTypeOK, WorkInv, NoWork, InHand, vars, QueueInv, ReportInv
<1>12. ASSUME NEW a \in Agent, CrashAgent(a)
      PROVE  WorkInv'
  BY <1>12, <1>0, FleetAssumption, RowParts DEF CrashAgent, AgentTypeOK,
     WorkInv, NoWork, InHand, vars, QueueInv, ReportInv
<1>13. ASSUME NEW m \in Row \X Result, DeliverReport(m)
      PROVE  WorkInv'
  BY <1>13, <1>0, FleetAssumption, RowParts DEF DeliverReport, AgentTypeOK,
     WorkInv, NoWork, InHand, vars, QueueInv, ReportInv
<1>14. ASSUME NEW m \in Row \X Result, LoseReport(m)
      PROVE  WorkInv'
  BY <1>14, <1>0, FleetAssumption, RowParts DEF LoseReport, AgentTypeOK,
     WorkInv, NoWork, InHand, vars, QueueInv, ReportInv
<1>15. ASSUME NEW r \in Row, EnvelopeAges(r)
      PROVE  WorkInv'
  BY <1>15, <1>0, FleetAssumption, RowParts DEF EnvelopeAges, AgentTypeOK,
     WorkInv, NoWork, InHand, vars, QueueInv, ReportInv
<1>16. ASSUME UNCHANGED fleetVars
      PROVE  WorkInv'
  BY <1>16, <1>0, FleetAssumption, RowParts DEF fleetVars, vars, agentVars,
     AgentTypeOK, WorkInv, NoWork, InHand, vars, QueueInv, ReportInv
<1> QED BY <1>1, <1>2, <1>3, <1>4, <1>5, <1>6, <1>7, <1>8, <1>9, <1>10, <1>11,
           <1>12, <1>13, <1>14, <1>15, <1>16 DEF FleetNext

\* Reports in flight.
LEMMA ReportStep ==
  ASSUME TypeOK, AgentTypeOK, WorkInv, ReportInv, [FleetNext]_fleetVars
  PROVE  ReportInv'
<1>0. shipped \subseteq shipped'
  BY FleetStepIsRolloutStep, ShippedGrows DEF FleetTypeOK, AgentTypeOK
<1>1. ASSUME ServerStep
      PROVE  ReportInv'
  BY <1>1, <1>0, FleetAssumption, RowParts DEF ServerStep, agentVars,
     AgentTypeOK, WorkInv, ReportInv, vars, InHand
<1>2. ASSUME NEW p \in Poll, EndPoll(p)
      PROVE  ReportInv'
  BY <1>2, <1>0, FleetAssumption, RowParts DEF EndPoll, AgentTypeOK, WorkInv,
     ReportInv, vars, InHand
<1>3. ASSUME NEW a \in Agent, NEW p \in Poll, PollServer(a, p)
      PROVE  ReportInv'
  BY <1>3, <1>0, FleetAssumption, RowParts DEF PollServer, AgentTypeOK,
     WorkInv, ReportInv, vars, InHand
<1>4. ASSUME NEW a \in Agent, PollTimesOut(a)
      PROVE  ReportInv'
  BY <1>4, <1>0, FleetAssumption, RowParts DEF PollTimesOut, AgentTypeOK,
     WorkInv, ReportInv, vars, InHand
<1>5. ASSUME NEW a \in Agent, TakeBatch(a)
      PROVE  ReportInv'
  BY <1>5, <1>0, FleetAssumption, RowParts DEF TakeBatch, AgentTypeOK,
     WorkInv, ReportInv, vars, InHand
<1>6. ASSUME NEW a \in Agent, RefuseBatch(a)
      PROVE  ReportInv'
  BY <1>6, <1>0, FleetAssumption, RowParts DEF RefuseBatch, AgentTypeOK,
     WorkInv, ReportInv, vars, InHand
<1>7. ASSUME NEW a \in Agent, NEW r \in Row, ReplayKnown(a, r)
      PROVE  ReportInv'
  BY <1>7, <1>0, FleetAssumption, RowParts DEF ReplayKnown, Next1,
     AgentTypeOK, WorkInv, ReportInv, vars, InHand
<1>8. ASSUME NEW a \in Agent, NEW r \in Row, Execute(a, r)
      PROVE  ReportInv'
  BY <1>8, <1>0, FleetAssumption, RowParts DEF Execute, Next1, AgentTypeOK,
     WorkInv, ReportInv, vars, InHand
<1>9. ASSUME NEW a \in Agent, NEW result \in Result, Executed(a, result)
      PROVE  ReportInv'
  BY <1>9, <1>0, FleetAssumption, RowParts DEF Executed, AgentTypeOK, WorkInv,
     ReportInv, vars, InHand
<1>10. ASSUME NEW a \in Agent, mark_assignment_processed(a)
      PROVE  ReportInv'
  BY <1>10, <1>0, FleetAssumption, RowParts DEF mark_assignment_processed,
     AgentTypeOK, WorkInv, ReportInv, vars, InHand
<1>11. ASSUME NEW a \in Agent, report_assignment(a)
      PROVE  ReportInv'
  BY <1>11, <1>0, FleetAssumption, RowParts DEF report_assignment,
     AgentTypeOK, WorkInv, ReportInv, vars, InHand
<1>12. ASSUME NEW a \in Agent, CrashAgent(a)
      PROVE  ReportInv'
  BY <1>12, <1>0, FleetAssumption, RowParts DEF CrashAgent, AgentTypeOK,
     WorkInv, ReportInv, vars, InHand
<1>13. ASSUME NEW m \in Row \X Result, DeliverReport(m)
      PROVE  ReportInv'
  BY <1>13, <1>0, FleetAssumption, RowParts DEF DeliverReport, AgentTypeOK,
     WorkInv, ReportInv, vars, InHand
<1>14. ASSUME NEW m \in Row \X Result, LoseReport(m)
      PROVE  ReportInv'
  BY <1>14, <1>0, FleetAssumption, RowParts DEF LoseReport, AgentTypeOK,
     WorkInv, ReportInv, vars, InHand
<1>15. ASSUME NEW r \in Row, EnvelopeAges(r)
      PROVE  ReportInv'
  BY <1>15, <1>0, FleetAssumption, RowParts DEF EnvelopeAges, AgentTypeOK,
     WorkInv, ReportInv, vars, InHand
<1>16. ASSUME UNCHANGED fleetVars
      PROVE  ReportInv'
  BY <1>16, <1>0, FleetAssumption, RowParts DEF fleetVars, vars, agentVars,
     AgentTypeOK, WorkInv, ReportInv, vars, InHand
<1> QED BY <1>1, <1>2, <1>3, <1>4, <1>5, <1>6, <1>7, <1>8, <1>9, <1>10, <1>11,
           <1>12, <1>13, <1>14, <1>15, <1>16 DEF FleetNext

\* Executions.
LEMMA AppliedStep ==
  ASSUME TypeOK, AgentTypeOK, QueueInv, WorkInv, ReportInv, AppliedInv, [FleetNext]_fleetVars
  PROVE  AppliedInv'
<1>0. shipped \subseteq shipped'
  BY FleetStepIsRolloutStep, ShippedGrows DEF FleetTypeOK, AgentTypeOK
<1>1. ASSUME ServerStep
      PROVE  AppliedInv'
  BY <1>1, <1>0, FleetAssumption, RowParts DEF ServerStep, agentVars,
     AgentTypeOK, WorkInv, QueueInv, AppliedInv, Remembered, vars, InHand,
     NoWork
<1>2. ASSUME NEW p \in Poll, EndPoll(p)
      PROVE  AppliedInv'
  BY <1>2, <1>0, FleetAssumption, RowParts DEF EndPoll, AgentTypeOK, WorkInv,
     QueueInv, AppliedInv, Remembered, vars, InHand, NoWork
<1>3. ASSUME NEW a \in Agent, NEW p \in Poll, PollServer(a, p)
      PROVE  AppliedInv'
  BY <1>3, <1>0, FleetAssumption, RowParts DEF PollServer, AgentTypeOK,
     WorkInv, QueueInv, AppliedInv, Remembered, vars, InHand, NoWork
<1>4. ASSUME NEW a \in Agent, PollTimesOut(a)
      PROVE  AppliedInv'
  BY <1>4, <1>0, FleetAssumption, RowParts DEF PollTimesOut, AgentTypeOK,
     WorkInv, QueueInv, AppliedInv, Remembered, vars, InHand, NoWork
<1>5. ASSUME NEW a \in Agent, TakeBatch(a)
      PROVE  AppliedInv'
  BY <1>5, <1>0, FleetAssumption, RowParts DEF TakeBatch, AgentTypeOK,
     WorkInv, QueueInv, AppliedInv, Remembered, vars, InHand, NoWork
<1>6. ASSUME NEW a \in Agent, RefuseBatch(a)
      PROVE  AppliedInv'
  BY <1>6, <1>0, FleetAssumption, RowParts DEF RefuseBatch, AgentTypeOK,
     WorkInv, QueueInv, AppliedInv, Remembered, vars, InHand, NoWork
<1>7. ASSUME NEW a \in Agent, NEW r \in Row, ReplayKnown(a, r)
      PROVE  AppliedInv'
  BY <1>7, <1>0, FleetAssumption, RowParts DEF ReplayKnown, Next1,
     AgentTypeOK, WorkInv, QueueInv, AppliedInv, Remembered, vars, InHand,
     NoWork
<1>8. ASSUME NEW a \in Agent, NEW r \in Row, Execute(a, r)
      PROVE  AppliedInv'
  BY <1>8, <1>0, FleetAssumption, RowParts DEF Execute, Next1, AgentTypeOK,
     WorkInv, QueueInv, AppliedInv, Remembered, vars, InHand, NoWork
<1>9. ASSUME NEW a \in Agent, NEW result \in Result, Executed(a, result)
      PROVE  AppliedInv'
  BY <1>9, <1>0, FleetAssumption, RowParts DEF Executed, AgentTypeOK, WorkInv,
     QueueInv, AppliedInv, Remembered, vars, InHand, NoWork
<1>10. ASSUME NEW a \in Agent, mark_assignment_processed(a)
      PROVE  AppliedInv'
  BY <1>10, <1>0, FleetAssumption, RowParts DEF mark_assignment_processed,
     AgentTypeOK, WorkInv, QueueInv, AppliedInv, Remembered, vars, InHand,
     NoWork
<1>11. ASSUME NEW a \in Agent, report_assignment(a)
      PROVE  AppliedInv'
  BY <1>11, <1>0, FleetAssumption, RowParts DEF report_assignment,
     AgentTypeOK, WorkInv, QueueInv, AppliedInv, Remembered, vars, InHand,
     NoWork
<1>12. ASSUME NEW a \in Agent, CrashAgent(a)
      PROVE  AppliedInv'
  BY <1>12, <1>0, FleetAssumption, RowParts DEF CrashAgent, AgentTypeOK,
     WorkInv, QueueInv, AppliedInv, Remembered, vars, InHand, NoWork
<1>13. ASSUME NEW m \in Row \X Result, DeliverReport(m)
      PROVE  AppliedInv'
  BY <1>13, <1>0, FleetAssumption, RowParts DEF DeliverReport, AgentTypeOK,
     WorkInv, QueueInv, AppliedInv, Remembered, vars, InHand, NoWork
<1>14. ASSUME NEW m \in Row \X Result, LoseReport(m)
      PROVE  AppliedInv'
  BY <1>14, <1>0, FleetAssumption, RowParts DEF LoseReport, AgentTypeOK,
     WorkInv, QueueInv, AppliedInv, Remembered, vars, InHand, NoWork
<1>15. ASSUME NEW r \in Row, EnvelopeAges(r)
      PROVE  AppliedInv'
  BY <1>15, <1>0, FleetAssumption, RowParts DEF EnvelopeAges, AgentTypeOK,
     WorkInv, QueueInv, AppliedInv, Remembered, vars, InHand, NoWork
<1>16. ASSUME UNCHANGED fleetVars
      PROVE  AppliedInv'
  BY <1>16, <1>0, FleetAssumption, RowParts DEF fleetVars, vars, agentVars,
     AgentTypeOK, WorkInv, QueueInv, AppliedInv, Remembered, vars, InHand,
     NoWork
<1> QED BY <1>1, <1>2, <1>3, <1>4, <1>5, <1>6, <1>7, <1>8, <1>9, <1>10, <1>11,
           <1>12, <1>13, <1>14, <1>15, <1>16 DEF FleetNext

(***************************************************************************)
(* The theorems                                                            *)
(***************************************************************************)

FleetInv == FleetTypeOK /\ AgentInv /\ AppliedInv

LEMMA FleetTypeParts == FleetTypeOK <=> TypeOK /\ AgentTypeOK
BY DEF FleetTypeOK, AgentTypeOK

LEMMA FleetInvInit == FleetInit => FleetInv
<1> SUFFICES ASSUME FleetInit PROVE FleetInv
  OBVIOUS
<1>1. FleetTypeOK
  BY TypeInit, FleetAssumption DEF FleetInit, FleetTypeOK, NoWork, InHand, Step
<1>2. AgentInv
  BY DEF FleetInit, Init, AgentInv, PollsOwned, QueueInv, WorkInv, ReportInv,
         NoWork, InHand, Idle
<1>3. AppliedInv
  BY DEF FleetInit, AppliedInv, Remembered, NoWork, InHand
<1> QED BY <1>1, <1>2, <1>3 DEF FleetInv

LEMMA FleetInvStep == FleetInv /\ [FleetNext]_fleetVars => FleetInv' /\ [Next]_vars
<1> SUFFICES ASSUME FleetInv, [FleetNext]_fleetVars PROVE FleetInv' /\ [Next]_vars
  OBVIOUS
<1>1. [Next]_vars
  BY FleetStepIsRolloutStep DEF FleetInv, AgentInv
<1>2. FleetTypeOK'
  BY <1>1, TypeStep, AgentTypeStep, FleetTypeParts DEF FleetInv, AgentInv,
     FleetTypeOK, AgentTypeOK
<1>3. AgentInv'
  BY QueueStep, PollsStep, WorkStep, ReportStep, FleetTypeParts DEF FleetInv,
     AgentInv
<1>4. AppliedInv'
  BY AppliedStep, FleetTypeParts DEF FleetInv, AgentInv
<1> QED BY <1>1, <1>2, <1>3, <1>4 DEF FleetInv

LEMMA FleetInvCorrect == FleetSpec => []FleetInv
BY FleetInvInit, FleetInvStep, PTL DEF FleetSpec

\* drain_assignments against list_assignments and assignment_result: the fleet
\* implements the dispatch state machine.
THEOREM FleetImplementsRollout == FleetSpec => ImplementsRollout
<1>1. FleetInit => Init
  BY DEF FleetInit
<1> QED BY <1>1, FleetInvCorrect, FleetInvStep, PTL
        DEF FleetSpec, Spec, ImplementsRollout

\* drain_assignments: the fleet's variables keep their types.
THEOREM FleetTypeCorrect == FleetSpec => []FleetTypeOK
<1>1. FleetInv => FleetTypeOK
  BY DEF FleetInv
<1> QED BY <1>1, FleetInvCorrect, PTL

\* assignment_already_processed, mark_assignment_processed: a row is executed
\* once, and once more for every crash or failure of the table at most.
THEOREM AppliedOncePerFaultCorrect == FleetSpec => []AppliedOncePerFault
<1>1. FleetInv => AppliedOncePerFault
  <2> SUFFICES ASSUME FleetInv, NEW r \in Row
               PROVE  applied[r] <= 1 + crashes + dbFaults
    BY DEF AppliedOncePerFault
  <2>1. applied[r] \in Nat /\ crashes \in Nat /\ dbFaults \in Nat
    BY FleetAssumption DEF FleetInv, FleetTypeOK
  <2>2. applied[r] <= crashes + dbFaults + (IF Remembered(r) THEN 1 ELSE 0)
    BY DEF FleetInv, AppliedInv
  <2>3. CASE Remembered(r)
    BY <2>1, <2>2, <2>3
  <2>4. CASE ~Remembered(r)
    BY <2>1, <2>2, <2>4
  <2> QED BY <2>3, <2>4
<1> QED BY <1>1, FleetInvCorrect, PTL

\* A row gets a result by a report of that result and in no other way.
LEMMA ResultsStep ==
  ASSUME FleetInv, GateInv, FinishedIffSettled, ResultsAreReal,
         [FleetNext]_fleetVars, FleetInv'
  PROVE  ResultsAreReal'
<1>1. /\ outcomes \in [Row -> SUBSET Result]
      /\ \A r \in Row : outcomes[r] \subseteq outcomes'[r]
  BY DEF FleetNext, fleetVars, agentVars, ServerStep, EndPoll, PollServer,
         PollTimesOut, TakeBatch, RefuseBatch, ReplayKnown, Execute, Executed,
         mark_assignment_processed, report_assignment, CrashAgent,
         DeliverReport, LoseReport, EnvelopeAges, FleetInv, FleetTypeOK
<1>2. /\ dbFaults' = 0 => dbFaults = 0
      /\ \A r \in Row : processed[r] # NoResult => processed'[r] = processed[r]
  <2>1. dbFaults \in Nat /\ processed \in [Row -> Result \cup {NoResult}]
    BY FleetAssumption DEF FleetInv, FleetTypeOK
  <2> QED BY <2>1
       DEF FleetNext, fleetVars, agentVars, ServerStep, EndPoll, PollServer,
           PollTimesOut, TakeBatch, RefuseBatch, ReplayKnown, Execute, Executed,
           mark_assignment_processed, report_assignment, CrashAgent,
           DeliverReport, LoseReport, EnvelopeAges
<1>3. ASSUME NEW r \in Row, asg'[r] = asg[r], asg[r] \in Result
      PROVE  /\ asg'[r] \in outcomes'[r]
             /\ dbFaults' = 0 => asg'[r] = processed'[r]
  BY <1>1, <1>2, <1>3, FleetAssumption DEF ResultsAreReal
<1>4. TypeOK
  BY FleetTypeParts DEF FleetInv
<1>5. ASSUME NEW m \in Row \X Result, DeliverReport(m), RecordResult(m[1], m[2])
      PROVE  ResultsAreReal'
  <2> DEFINE q == m[1]
             result == m[2]
             s == Result1(q, result)
             c == Result2(q, result)
             t == Result3(q, result)
  <2>1. /\ q \in Row /\ result \in Result /\ q \in shipped
        /\ result \in outcomes[q] /\ (dbFaults = 0 => processed[q] = result)
    BY <1>5 DEF DeliverReport, FleetInv, AgentInv, ReportInv
  <2>2. complete_assignment(q, result)
    BY <1>5, <2>1 DEF complete_assignment
  <2>3. /\ asg' = t /\ Moves(s, c, OpOf(q)) /\ Moves(c, t, OpOf(q))
        /\ s[q] = result /\ \A x \in Row : x # q => s[x] = asg[x]
    BY <1>4, <2>1, <2>2, ResultSteps
  <2> HIDE DEF q, result, s, c, t
  <2>4. \A x \in Row : x # q /\ asg'[x] \in Result => asg'[x] = asg[x]
    BY <2>3 DEF Moves, Live, Waiting, Result
  <2>5. asg'[q] = result
    BY <2>1, <2>3 DEF Moves, Live, Waiting, Result
  <2>6. outcomes' = outcomes /\ processed' = processed /\ dbFaults' = dbFaults
    BY <1>5 DEF DeliverReport
  <2> QED BY <1>3, <2>1, <2>4, <2>5, <2>6 DEF ResultsAreReal
<1>6. ASSUME \A r \in Row : asg'[r] \in Result => asg'[r] = asg[r]
      PROVE  ResultsAreReal'
  BY <1>3, <1>6 DEF ResultsAreReal
<1>7. ASSUME ServerStep PROVE ResultsAreReal'
  <2>1. ASSUME NEW o, NEW buckets, NEW split, InsertAssignments(o, buckets, split)
        PROVE  ResultsAreReal'
    <3>1. \A l, b : InitialStatus(l, b) \notin Result
      BY DEF InitialStatus, Result
    <3> QED BY <1>6, <2>1, <3>1 DEF InsertAssignments
  <2>2. CASE asg' = asg
    BY <1>6, <2>2
  <2> QED BY <1>7, <2>1, <2>2
         DEF ServerStep, register_agent, create_operation, approve_operation,
             reject_operation, LeaseExpires
<1>8. ASSUME \/ \E p \in Poll : EndPoll(p)
             \/ \E a \in Agent, p \in Poll : PollServer(a, p)
      PROVE  ResultsAreReal'
  BY <1>4, <1>6, <1>8 DEF EndPoll, PollServer, TypeOK, Result, Claim,
     revert_assignment_claims, LoseAnswer, fetch_pending_assignments
<1>9. ASSUME asg' = asg PROVE ResultsAreReal'
  BY <1>6, <1>9
<1> QED BY <1>5, <1>7, <1>8, <1>9
       DEF FleetNext, fleetVars, vars, PollTimesOut, TakeBatch, RefuseBatch,
           ShipAssignments, LoseAnswer, ReplayKnown, Execute, Executed,
           mark_assignment_processed, report_assignment, CrashAgent,
           DeliverReport, LoseReport, EnvelopeAges

\* report_assignment: the result the server keeps is one an execution had, and
\* the one the agent recorded while its table works.
THEOREM ResultsAreRealCorrect == FleetSpec => []ResultsAreReal
<1>1. FleetInit => ResultsAreReal
  BY DEF FleetInit, Init, ResultsAreReal, Result
<1>2. Spec => []GateInv /\ []FinishedIffSettled
  BY GateInvCorrect, FinishedIffSettledCorrect, PTL
<1> QED BY <1>1, <1>2, ResultsStep, FleetInvCorrect, FleetImplementsRollout,
           PTL
        DEF FleetSpec, ImplementsRollout

\* Phased apply on the hosts: a host touches a row only when every row below has
\* been executed with success and is not being executed again.
THEOREM LayersOnHostsCorrect == FleetSpec => []LayersOnHosts
<1>1. FleetInv /\ ResultsAreReal /\ HandedInv /\ LayerGate => LayersOnHosts
  <2> SUFFICES ASSUME FleetInv, ResultsAreReal, HandedInv, LayerGate,
                      NEW o \in Op, Contiguous(o), NEW q \in Rows(o),
                      NEW r \in Rows(o), LayerOf(q) < LayerOf(r), applied[r] > 0
               PROVE  /\ "succeeded" \in outcomes[q]
                      /\ dbFaults = 0 => \A a \in Agent :
                           work[a].row = q => work[a].step # "executing"
    BY DEF LayersOnHosts
  <2>1. q \in Row /\ r \in Row /\ OpOf(r) = o
    BY DEF Rows, RowsOf
  <2>2. r \in shipped
    BY <2>1 DEF FleetInv, AppliedInv
  <2>3. Dispatched(r)
    BY <2>1, <2>2 DEF HandedInv, Handed
  <2>4. asg[q] = "succeeded"
    BY <2>3 DEF LayerGate
  <2>5. "succeeded" \in outcomes[q] /\ (dbFaults = 0 => processed[q] = "succeeded")
    BY <2>1, <2>4 DEF ResultsAreReal, Result
  <2>6. ASSUME dbFaults = 0, NEW a \in Agent, work[a].row = q,
               work[a].step = "executing"
        PROVE  FALSE
    BY <2>5, <2>6, FleetAssumption DEF FleetInv, AgentInv, WorkInv, Result
  <2> QED BY <2>5, <2>6
<1> QED BY <1>1, FleetInvCorrect, ResultsAreRealCorrect,
           FleetImplementsRollout,
           HandedInvCorrect, LayerGateCorrect, PTL DEF ImplementsRollout

=============================================================================
