---------------------------- MODULE RunningProofs ---------------------------
(***************************************************************************)
(* Theorems about what runs by itself: pushes to an SSH target (SshPush),  *)
(* drift reports (Drift) and the agent's allowlist (Daemon).               *)
(***************************************************************************)
EXTENDS Drift, SshPush, Daemon, FiniteSetTheorems, WellFoundedInduction, TLAPS

(***************************************************************************)
(* Pushes.                                                                 *)
(*                                                                         *)
(* A start on the host is paid for in advance: a row that a claim may take *)
(* at some time without anybody losing it first (Loose), and a worker that *)
(* has claimed and not pushed yet, each stand for one start to come.       *)
(* Accounted bounds the starts that were and the starts to come together.  *)
(***************************************************************************)
WorkerAt == {"free", "claimed", "pushing", "report"}

Claims(j) == {k \in Pusher : worker[k].at = "claimed" /\ worker[k].job = j}

Held(j) == \E k \in Pusher : worker[k].job = j

Loose(j) == job[j] = "pending" \/ (job[j] = "fetched" /\ (j \in lapsed \/ ~Held(j)))

PushTypes ==
  /\ job \in [Job -> {"pending", "fetched"} \union Verdict]
  /\ worker \in [Pusher -> [at : WorkerAt, job : Nat, answer : {"none"} \union Verdict]]
  /\ ran \in [Job -> Nat] /\ cuts \in [Job -> Nat] /\ ended \in [Job -> SUBSET Verdict]

WorkersInv ==
  \A k \in Pusher :
    /\ worker[k].at = "free" => worker[k].job = 0
    /\ worker[k].at # "free" => worker[k].job \in Job /\ job[worker[k].job] # "pending"
    /\ worker[k].at = "pushing" => worker[k].job \notin Barred
    /\ worker[k].at = "report" =>
         /\ worker[k].answer \in Verdict
         /\ worker[k].answer = "succeeded" => "succeeded" \in ended[worker[k].job]

Accounted ==
  \A j \in Job : ran[j] + Cardinality(Claims(j)) + (IF Loose(j) THEN 1 ELSE 0) <= 1 + cuts[j]

Recorded ==
  \A j \in Job : /\ j \in Barred => ran[j] = 0
                 /\ job[j] = "succeeded" => "succeeded" \in ended[j]

PushInv == PushTypes /\ WorkersInv /\ Accounted /\ Recorded

\* The oldest of the rows a claim may take is one of them.
LEMMA OldestIsClaimable == Claimable # {} => Min(Claimable) \in Claimable
<1> SUFFICES ASSUME Claimable # {} PROVE Min(Claimable) \in Claimable
  OBVIOUS
<1>1. PICK S : S = Claimable
  OBVIOUS
<1>2. S \subseteq Nat /\ S # {}
  BY <1>1, SshPushAssumption DEF Claimable
<1>3. \E R : IsWellFoundedOn(R, Nat) /\ \A x, y \in Nat : x < y => <<x, y>> \in R
  <2>1. \A x, y \in Nat : x < y => <<x, y>> \in OpToRel(<, Nat)
    BY DEF OpToRel
  <2> QED
    BY <2>1, NatLessThanWellFounded, Zenon
<1>4. PICK R : IsWellFoundedOn(R, Nat) /\ \A x, y \in Nat : x < y => <<x, y>> \in R
  BY <1>3
<1>5. \E m \in S : \A x \in S : ~(<<x, m>> \in R)
  <2>1. \A Q, U, T : IsWellFoundedOn(Q, U) /\ T \subseteq U /\ T # {}
                       => \E x \in T : \A y \in T : ~(<<y, x>> \in Q)
    BY WFMin, Zenon
  <2> HIDE DEF IsWellFoundedOn
  <2>2. IsWellFoundedOn(R, Nat)
    BY <1>4
  <2> QED
    BY <1>2, <2>1, <2>2
<1>6. \E m \in S : \A x \in S : ~(x < m)
  BY <1>2, <1>4, <1>5, Zenon
<1>7. \E m \in S : \A x \in S : m =< x
  BY <1>2, <1>6
<1> QED
  BY <1>1, <1>7 DEF Min

WorkerRow == [at : WorkerAt, job : Nat, answer : {"none"} \union Verdict]

\* How the number of workers that are about to push a job changes with one
\* worker.
LEMMA ClaimsAfter ==
  ASSUME PushTypes, NEW k \in Pusher, NEW w \in WorkerRow,
         worker' = [worker EXCEPT ![k] = w], NEW j \in Job
  PROVE  /\ Cardinality(Claims(j)) \in Nat
         /\ Cardinality(Claims(j)') = Cardinality(Claims(j))
                                      + (IF w.at = "claimed" /\ w.job = j THEN 1 ELSE 0)
                                      - (IF k \in Claims(j) THEN 1 ELSE 0)
<1>1. PICK C : C = Claims(j)
  OBVIOUS
<1>2. PICK D : D = Claims(j)'
  OBVIOUS
<1>3. IsFiniteSet(C)
  BY <1>1, FS_Subset, SshPushAssumption DEF Claims
<1>4. D = IF w.at = "claimed" /\ w.job = j THEN (C \ {k}) \union {k} ELSE C \ {k}
  BY <1>1, <1>2 DEF Claims, PushTypes
<1>5. Cardinality(C) \in Nat
  BY <1>3, FS_CardinalityType
<1>6. /\ IsFiniteSet(C \ {k})
      /\ Cardinality(C \ {k}) = IF k \in C THEN Cardinality(C) - 1 ELSE Cardinality(C)
  BY <1>3, FS_RemoveElement
<1>7. Cardinality((C \ {k}) \union {k}) = Cardinality(C \ {k}) + 1
  BY <1>6, FS_AddElement
<1>8. Cardinality(D) = Cardinality(C) + (IF w.at = "claimed" /\ w.job = j THEN 1 ELSE 0)
                       - (IF k \in C THEN 1 ELSE 0)
  BY <1>4, <1>5, <1>6, <1>7
<1> QED
  BY <1>1, <1>2, <1>5, <1>8

LEMMA ClaimsCount == ASSUME NEW j PROVE Cardinality(Claims(j)) \in Nat
<1>1. IsFiniteSet(Claims(j))
  BY FS_Subset, SshPushAssumption DEF Claims
<1> QED
  BY <1>1, FS_CardinalityType

LEMMA PushInvImplies == PushInv => RecordMatchesHost
<1> SUFFICES ASSUME PushInv, NEW j \in Job PROVE ran[j] <= 1 + cuts[j]
  BY DEF RecordMatchesHost, PushInv, Recorded
<1>1. ran[j] \in Nat /\ cuts[j] \in Nat
  BY DEF PushInv, PushTypes
<1>2. Cardinality(Claims(j)) \in Nat
  BY ClaimsCount
<1>3. ran[j] + Cardinality(Claims(j)) + (IF Loose(j) THEN 1 ELSE 0) <= 1 + cuts[j]
  BY DEF PushInv, Accounted
<1> QED
  BY <1>1, <1>2, <1>3

LEMMA PushInvInit == SshPushInit => PushInv
<1> SUFFICES ASSUME SshPushInit PROVE PushInv
  OBVIOUS
<1>1. PushTypes
  BY DEF SshPushInit, PushTypes, Free, WorkerAt
<1>2. WorkersInv
  BY DEF SshPushInit, WorkersInv, Free
<1>3. Accounted
  <2> SUFFICES ASSUME NEW j \in Job
               PROVE  ran[j] + Cardinality(Claims(j)) + (IF Loose(j) THEN 1 ELSE 0) <= 1 + cuts[j]
    BY DEF Accounted
  <2>1. Claims(j) = {}
    BY DEF Claims, SshPushInit, Free
  <2>2. Cardinality(Claims(j)) = 0
    BY <2>1, FS_EmptySet
  <2>3. ran[j] = 0 /\ cuts[j] = 0
    BY DEF SshPushInit
  <2> QED
    BY <2>2, <2>3
<1>4. Recorded
  BY DEF SshPushInit, Recorded
<1> QED
  BY <1>1, <1>2, <1>3, <1>4 DEF PushInv

\* A claim turns a start to come into a claimed one; a late claim is paid for.
LEMMA ClaimStep ==
  ASSUME PushInv, NEW k \in Pusher, NEW late \in BOOLEAN, claim_ssh_pending(k, late)
  PROVE  PushInv'
<1>1. PICK i : i = Min(Claimable)
  OBVIOUS
<1>2. i \in Job /\ (job[i] = "pending" \/ (job[i] = "fetched" /\ i \in lapsed))
  BY <1>1, OldestIsClaimable DEF claim_ssh_pending, Claimable
<1>3. /\ worker[k].at = "free"
      /\ job' = [job EXCEPT ![i] = "fetched"] /\ lapsed' = lapsed \ {i}
      /\ UNCHANGED <<running, ran, ended>>
  BY <1>1 DEF claim_ssh_pending
<1>w. DEFINE w == [at |-> "claimed", job |-> i, answer |-> "none"]
<1>4. CASE late
  <2>1. cuts' = [cuts EXCEPT ![i] = @ + 1] /\ UNCHANGED worker
    BY <1>1, <1>4 DEF claim_ssh_pending, Bump
  <2>2. PushTypes'
    BY <1>2, <1>3, <2>1 DEF PushInv, PushTypes
  <2>3. WorkersInv'
    BY <1>2, <1>3, <2>1 DEF PushInv, PushTypes, WorkersInv
  <2>4. Accounted'
    <3> SUFFICES ASSUME NEW j \in Job
                 PROVE  ran[j] + Cardinality(Claims(j)) + (IF Loose(j)' THEN 1 ELSE 0) <= 1 + cuts'[j]
      BY <1>3, <2>1 DEF Accounted, Claims
    <3>1. ran[j] + Cardinality(Claims(j)) + (IF Loose(j) THEN 1 ELSE 0) <= 1 + cuts[j]
      BY DEF PushInv, Accounted
    <3>2. ran[j] \in Nat /\ cuts[j] \in Nat /\ Cardinality(Claims(j)) \in Nat
      BY ClaimsCount DEF PushInv, PushTypes
    <3>3. CASE j = i
      <4>1. cuts'[j] = cuts[j] + 1 /\ Loose(j)
        BY <1>2, <2>1, <3>3 DEF PushInv, PushTypes, Loose
      <4> QED
        BY <3>1, <3>2, <4>1
    <3>4. CASE j # i
      <4>1. cuts'[j] = cuts[j] /\ (Loose(j)' <=> Loose(j))
        BY <1>2, <1>3, <2>1, <3>4 DEF PushInv, PushTypes, Loose, Held
      <4> QED
        BY <3>1, <3>2, <4>1
    <3> QED
      BY <3>3, <3>4
  <2>5. Recorded'
    BY <1>2, <1>3 DEF PushInv, PushTypes, Recorded
  <2> QED
    BY <2>2, <2>3, <2>4, <2>5 DEF PushInv
<1>5. CASE ~late
  <2>1. worker' = [worker EXCEPT ![k] = w] /\ UNCHANGED cuts
    BY <1>1, <1>5 DEF claim_ssh_pending, Goto
  <2>w. w \in WorkerRow /\ w.at = "claimed" /\ w.job = i
    BY <1>2, SshPushAssumption DEF WorkerRow, WorkerAt
  <2>2. PushTypes'
    <3>1. job' \in [Job -> {"pending", "fetched"} \union Verdict]
      BY <1>2, <1>3 DEF PushInv, PushTypes
    <3>2. worker' \in [Pusher -> WorkerRow]
      <4> HIDE DEF w
      <4> QED
        BY <2>1, <2>w DEF PushInv, PushTypes, WorkerRow
    <3> QED
      BY <1>3, <2>1, <3>1, <3>2 DEF PushInv, PushTypes, WorkerRow
  <2>3. WorkersInv'
    <3> SUFFICES ASSUME NEW m \in Pusher
                 PROVE  /\ worker'[m].at = "free" => worker'[m].job = 0
                        /\ worker'[m].at # "free" => worker'[m].job \in Job
                                                     /\ job'[worker'[m].job] # "pending"
                        /\ worker'[m].at = "pushing" => worker'[m].job \notin Barred
                        /\ worker'[m].at = "report" =>
                             /\ worker'[m].answer \in Verdict
                             /\ worker'[m].answer = "succeeded" => "succeeded" \in ended[worker'[m].job]
      BY <1>3 DEF WorkersInv
    <3>1. CASE m = k
      <4>1. worker'[m] = w
        BY <2>1, <3>1 DEF PushInv, PushTypes
      <4> QED
        BY <1>2, <1>3, <4>1 DEF PushInv, PushTypes
    <3>2. CASE m # k
      <4>1. worker'[m] = worker[m]
        BY <2>1, <3>2 DEF PushInv, PushTypes
      <4> QED
        BY <1>2, <1>3, <4>1 DEF PushInv, PushTypes, WorkersInv
    <3> QED
      BY <3>1, <3>2
  <2>4. Accounted'
    <3> SUFFICES ASSUME NEW j \in Job
                 PROVE  ran[j] + Cardinality(Claims(j)') + (IF Loose(j)' THEN 1 ELSE 0) <= 1 + cuts[j]
      BY <1>3, <2>1 DEF Accounted
    <3>1. ran[j] + Cardinality(Claims(j)) + (IF Loose(j) THEN 1 ELSE 0) <= 1 + cuts[j]
      BY DEF PushInv, Accounted
    <3>2. ran[j] \in Nat /\ cuts[j] \in Nat
      BY DEF PushInv, PushTypes
    <3>3. /\ Cardinality(Claims(j)) \in Nat
          /\ Cardinality(Claims(j)') = Cardinality(Claims(j)) + (IF i = j THEN 1 ELSE 0)
                                       - (IF k \in Claims(j) THEN 1 ELSE 0)
      <4> HIDE DEF w
      <4> QED
        BY <2>1, <2>w, ClaimsAfter DEF PushInv
    <3>4. k \notin Claims(j)
      BY <1>3 DEF Claims
    <3>5. CASE j = i
      <4>1. worker'[k].job = j
        BY <2>1, <3>5 DEF PushInv, PushTypes
      <4>2. Loose(j) /\ ~Loose(j)'
        BY <1>2, <1>3, <3>5, <4>1 DEF PushInv, PushTypes, Loose, Held
      <4> QED
        BY <3>1, <3>2, <3>3, <3>4, <3>5, <4>2
    <3>6. CASE j # i
      <4>1. \A m \in Pusher : worker'[m].job = j <=> worker[m].job = j
        <5>1. worker[k].job # j /\ worker'[k].job # j
          BY <1>3, <2>1, <3>6, SshPushAssumption DEF PushInv, PushTypes, WorkersInv
        <5>2. \A m \in Pusher \ {k} : worker'[m] = worker[m]
          BY <2>1 DEF PushInv, PushTypes
        <5> QED
          BY <5>1, <5>2
      <4>2. Held(j)' <=> Held(j)
        BY <4>1 DEF Held
      <4>3. Loose(j)' <=> Loose(j)
        BY <1>2, <1>3, <3>6, <4>2 DEF PushInv, PushTypes, Loose
      <4> QED
        BY <3>1, <3>2, <3>3, <3>4, <3>6, <4>3
    <3> QED
      BY <3>5, <3>6
  <2>5. Recorded'
    BY <1>2, <1>3 DEF PushInv, PushTypes, Recorded
  <2> QED
    BY <2>2, <2>3, <2>4, <2>5 DEF PushInv
<1> QED
  BY <1>4, <1>5

\* A worker that has claimed a job and leaves it, pushes it or gets to its
\* report: one worker moves, its job and its row stay.
LEMMA WorkerStep ==
  ASSUME PushInv, NEW k \in Pusher,
         Refused(k) \/ NotSpawned(k) \/ NotConnected(k) \/ Pushed(k) \/ PushCutOff(k)
           \/ ServerRestarts(k)
  PROVE  PushInv'
<1>1. PICK i : i = worker[k].job
  OBVIOUS
<1>2. /\ i \in Job /\ job[i] # "pending" /\ worker[k].at \in {"claimed", "pushing", "report"}
      /\ UNCHANGED <<job, lapsed, ended>>
  BY <1>1 DEF PushInv, PushTypes, WorkersInv, WorkerAt, Refused, NotSpawned, NotConnected, Pushed,
              PushCutOff, ServerRestarts
<1>3. PICK w \in WorkerRow :
        /\ worker' = [worker EXCEPT ![k] = w]
        /\ \/ w.at = "free" /\ w.job = 0 /\ cuts' = [cuts EXCEPT ![i] = @ + 1] /\ UNCHANGED ran
           \/ /\ w.at = "report" /\ w.job = i /\ w.answer = "failed"
              /\ UNCHANGED <<cuts, ran>>
           \/ /\ w.at = "pushing" /\ w.job = i /\ i \notin Barred /\ worker[k].at = "claimed"
              /\ UNCHANGED cuts /\ ran' = [ran EXCEPT ![i] = @ + 1]
  <2>1. /\ Free \in WorkerRow /\ Free.at = "free" /\ Free.job = 0
        /\ [at |-> "report", job |-> i, answer |-> "failed"] \in WorkerRow
        /\ [at |-> "pushing", job |-> i, answer |-> "none"] \in WorkerRow
    BY <1>2, SshPushAssumption DEF WorkerRow, WorkerAt, Free, Verdict
  <2>2. CASE NotSpawned(k) \/ ServerRestarts(k)
    <3>1. /\ worker' = [worker EXCEPT ![k] = Free]
          /\ cuts' = [cuts EXCEPT ![i] = @ + 1] /\ UNCHANGED ran
      BY <1>1, <2>2 DEF NotSpawned, ServerRestarts, Bump
    <3> QED
      BY <2>1, <3>1
  <2>3. CASE Refused(k) \/ NotConnected(k) \/ PushCutOff(k)
    <3>1. /\ worker' = [worker EXCEPT ![k] = [at |-> "report", job |-> i, answer |-> "failed"]]
          /\ UNCHANGED <<cuts, ran>>
      BY <1>1, <2>3 DEF Refused, NotConnected, PushCutOff, Goto
    <3> QED
      BY <2>1, <3>1
  <2>4. CASE Pushed(k)
    <3>1. /\ worker' = [worker EXCEPT ![k] = [at |-> "pushing", job |-> i, answer |-> "none"]]
          /\ i \notin Barred /\ worker[k].at = "claimed"
          /\ UNCHANGED cuts /\ ran' = [ran EXCEPT ![i] = @ + 1]
      BY <1>1, <2>4 DEF Pushed, Goto, Bump
    <3> QED
      BY <2>1, <3>1
  <2> QED
    BY <2>2, <2>3, <2>4
<1>4. worker'[k] = w /\ \A m \in Pusher \ {k} : worker'[m] = worker[m]
  BY <1>3 DEF PushInv, PushTypes
<1>5. PushTypes'
  BY <1>2, <1>3 DEF PushInv, PushTypes, WorkerRow
<1>6. WorkersInv'
  <2> SUFFICES ASSUME NEW m \in Pusher
               PROVE  /\ worker'[m].at = "free" => worker'[m].job = 0
                      /\ worker'[m].at # "free" => worker'[m].job \in Job
                                                   /\ job[worker'[m].job] # "pending"
                      /\ worker'[m].at = "pushing" => worker'[m].job \notin Barred
                      /\ worker'[m].at = "report" =>
                           /\ worker'[m].answer \in Verdict
                           /\ worker'[m].answer = "succeeded" => "succeeded" \in ended[worker'[m].job]
    BY <1>2 DEF WorkersInv
  <2>1. CASE m = k
    BY <1>2, <1>3, <1>4, <2>1 DEF Verdict
  <2>2. CASE m # k
    BY <1>4, <2>2 DEF PushInv, WorkersInv
  <2> QED
    BY <2>1, <2>2
<1>7. Accounted'
  <2> SUFFICES ASSUME NEW j \in Job
               PROVE  ran'[j] + Cardinality(Claims(j)') + (IF Loose(j)' THEN 1 ELSE 0) <= 1 + cuts'[j]
    BY DEF Accounted
  <2>1. ran[j] + Cardinality(Claims(j)) + (IF Loose(j) THEN 1 ELSE 0) <= 1 + cuts[j]
    BY DEF PushInv, Accounted
  <2>2. ran[j] \in Nat /\ cuts[j] \in Nat
    BY DEF PushInv, PushTypes
  <2>3. /\ Cardinality(Claims(j)) \in Nat
        /\ Cardinality(Claims(j)') = Cardinality(Claims(j)) - (IF k \in Claims(j) THEN 1 ELSE 0)
    <3>1. w.at # "claimed"
      BY <1>3
    <3>2. /\ Cardinality(Claims(j)) \in Nat
          /\ Cardinality(Claims(j)') = Cardinality(Claims(j))
                                       + (IF w.at = "claimed" /\ w.job = j THEN 1 ELSE 0)
                                       - (IF k \in Claims(j) THEN 1 ELSE 0)
      BY <1>3, ClaimsAfter DEF PushInv
    <3> QED
      BY <3>1, <3>2
  <2>4. CASE j # i
    <3>1. k \notin Claims(j) /\ cuts'[j] = cuts[j] /\ ran'[j] = ran[j]
      BY <1>1, <1>3, <2>4 DEF PushInv, PushTypes, Claims
    <3>2. worker[k].job # j /\ worker'[k].job # j
      BY <1>1, <1>3, <1>4, <2>4, SshPushAssumption
    <3>3. Held(j)' <=> Held(j)
      BY <1>4, <3>2 DEF Held
    <3>4. Loose(j)' <=> Loose(j)
      BY <1>2, <3>3 DEF Loose
    <3> QED
      BY <2>1, <2>2, <2>3, <3>1, <3>4
  <2>5. CASE j = i
    <3>1. CASE w.at = "free"
      <4>1. cuts'[j] = cuts[j] + 1 /\ ran'[j] = ran[j]
        BY <1>3, <2>5, <3>1 DEF PushInv, PushTypes
      <4> QED
        BY <2>1, <2>2, <2>3, <4>1
    <3>2. CASE w.at # "free"
      <4>1. w.job = j
        BY <1>3, <2>5, <3>2
      <4>2. Held(j) /\ Held(j)'
        BY <1>1, <1>4, <2>5, <4>1 DEF Held
      <4>3. Loose(j)' <=> Loose(j)
        BY <1>2, <4>2 DEF Loose
      <4>4. CASE w.at = "report"
        <5>1. cuts'[j] = cuts[j] /\ ran'[j] = ran[j]
          BY <1>3, <4>4
        <5> QED
          BY <2>1, <2>2, <2>3, <4>3, <5>1
      <4>5. CASE w.at = "pushing"
        <5>1. cuts'[j] = cuts[j] /\ ran'[j] = ran[j] + 1 /\ k \in Claims(j)
          BY <1>1, <1>3, <2>5, <4>5 DEF PushInv, PushTypes, Claims
        <5> QED
          BY <2>1, <2>2, <2>3, <4>3, <5>1
      <4> QED
        BY <1>3, <3>2, <4>4, <4>5
    <3> QED
      BY <3>1, <3>2
  <2> QED
    BY <2>4, <2>5
<1>8. Recorded'
  BY <1>2, <1>3 DEF PushInv, PushTypes, Recorded
<1> QED
  BY <1>5, <1>6, <1>7, <1>8 DEF PushInv

\* report_result stores a verdict, finds one stored, or is lost.
LEMMA ReportStep ==
  ASSUME PushInv, NEW k \in Pusher, NEW stored_ \in BOOLEAN, report_result(k, stored_)
  PROVE  PushInv'
<1>1. PICK i : i = worker[k].job
  OBVIOUS
<1>2. PICK v : v = worker[k].answer
  OBVIOUS
<1>3. /\ i \in Job /\ job[i] # "pending" /\ v \in Verdict
      /\ v = "succeeded" => "succeeded" \in ended[i]
  BY <1>1, <1>2 DEF PushInv, PushTypes, WorkersInv, report_result
<1>4. /\ worker[k].at = "report"
      /\ worker' = [worker EXCEPT ![k] = Free] /\ UNCHANGED <<ran, ended>>
      /\ \/ /\ job[i] = "fetched" /\ UNCHANGED cuts
            /\ job' = [job EXCEPT ![i] = v] /\ lapsed' = lapsed \ {i}
         \/ job[i] # "fetched" /\ UNCHANGED <<cuts, job, lapsed>>
         \/ cuts' = [cuts EXCEPT ![i] = @ + 1] /\ UNCHANGED <<job, lapsed>>
  <2>1. CASE stored_ /\ job[i] = "fetched"
    BY <1>1, <1>2, <2>1 DEF report_result, Bump
  <2>2. CASE stored_ /\ job[i] # "fetched"
    BY <1>1, <1>2, <2>2 DEF report_result, Bump
  <2>3. CASE ~stored_
    BY <1>1, <1>2, <2>3 DEF report_result, Bump
  <2> QED
    BY <2>1, <2>2, <2>3
<1>5. /\ Free \in WorkerRow /\ Free.at = "free" /\ Free.job = 0
  BY DEF WorkerRow, WorkerAt, Free, Verdict
<1> HIDE DEF Free
<1>6. worker'[k] = Free /\ \A m \in Pusher \ {k} : worker'[m] = worker[m]
  BY <1>4 DEF PushInv, PushTypes
<1>7. PushTypes'
  <2>1. job' \in [Job -> {"pending", "fetched"} \union Verdict] /\ cuts' \in [Job -> Nat]
    BY <1>3, <1>4 DEF PushInv, PushTypes
  <2>2. worker' \in [Pusher -> WorkerRow]
    BY <1>4, <1>5 DEF PushInv, PushTypes, WorkerRow
  <2> QED
    BY <1>4, <2>1, <2>2 DEF PushInv, PushTypes, WorkerRow
<1>8. WorkersInv'
  <2>1. \A j \in Job : job[j] # "pending" => job'[j] # "pending"
    BY <1>3, <1>4 DEF PushInv, PushTypes, Verdict
  <2> SUFFICES ASSUME NEW m \in Pusher
               PROVE  /\ worker'[m].at = "free" => worker'[m].job = 0
                      /\ worker'[m].at # "free" => worker'[m].job \in Job
                                                   /\ job'[worker'[m].job] # "pending"
                      /\ worker'[m].at = "pushing" => worker'[m].job \notin Barred
                      /\ worker'[m].at = "report" =>
                           /\ worker'[m].answer \in Verdict
                           /\ worker'[m].answer = "succeeded" => "succeeded" \in ended[worker'[m].job]
    BY <1>4 DEF WorkersInv
  <2>2. CASE m = k
    BY <1>5, <1>6, <2>2
  <2>3. CASE m # k
    BY <1>6, <2>1, <2>3 DEF PushInv, WorkersInv
  <2> QED
    BY <2>2, <2>3
<1>9. Accounted'
  <2> SUFFICES ASSUME NEW j \in Job
               PROVE  ran[j] + Cardinality(Claims(j)') + (IF Loose(j)' THEN 1 ELSE 0) <= 1 + cuts'[j]
    BY <1>4 DEF Accounted
  <2>1. ran[j] + Cardinality(Claims(j)) + (IF Loose(j) THEN 1 ELSE 0) <= 1 + cuts[j]
    BY DEF PushInv, Accounted
  <2>2. ran[j] \in Nat /\ cuts[j] \in Nat
    BY DEF PushInv, PushTypes
  <2>3. k \notin Claims(j)
    BY <1>4 DEF Claims
  <2>4. Cardinality(Claims(j)) \in Nat /\ Cardinality(Claims(j)') = Cardinality(Claims(j))
    <3>1. /\ Cardinality(Claims(j)) \in Nat
          /\ Cardinality(Claims(j)') = Cardinality(Claims(j))
                                       + (IF Free.at = "claimed" /\ Free.job = j THEN 1 ELSE 0)
                                       - (IF k \in Claims(j) THEN 1 ELSE 0)
      BY <1>4, <1>5, ClaimsAfter DEF PushInv
    <3> QED
      BY <1>5, <2>3, <3>1
  <2>5. CASE j # i
    <3>1. worker[k].job # j /\ worker'[k].job # j
      BY <1>1, <1>5, <1>6, <2>5, SshPushAssumption
    <3>2. Held(j)' <=> Held(j)
      BY <1>6, <3>1 DEF Held
    <3>3. (Loose(j)' <=> Loose(j)) /\ cuts'[j] = cuts[j]
      BY <1>4, <2>5, <3>2 DEF Loose, PushInv, PushTypes
    <3> QED
      BY <2>1, <2>2, <2>4, <3>3
  <2>6. CASE j = i
    <3>1. CASE cuts' = [cuts EXCEPT ![i] = @ + 1]
      <4>1. cuts'[j] = cuts[j] + 1
        BY <2>6, <3>1 DEF PushInv, PushTypes
      <4> QED
        BY <2>1, <2>2, <2>4, <4>1
    <3>2. CASE ~(cuts' = [cuts EXCEPT ![i] = @ + 1])
      <4>1. ~Loose(j)' /\ cuts'[j] = cuts[j]
        BY <1>3, <1>4, <2>6, <3>2 DEF Loose, PushInv, PushTypes, Verdict
      <4> QED
        BY <2>1, <2>2, <2>4, <4>1
    <3> QED
      BY <3>1, <3>2
  <2> QED
    BY <2>5, <2>6
<1>10. Recorded'
  BY <1>3, <1>4 DEF PushInv, PushTypes, Recorded
<1> QED
  BY <1>7, <1>8, <1>9, <1>10 DEF PushInv

\* The host's verdict reaches the report of a worker that waits for it, or
\* nobody.
LEMMA HostStep ==
  ASSUME PushInv, NEW i \in Job, NEW v \in Verdict, NEW readable \in BOOLEAN,
         cmd_apply_assignment_stdin(i, v, readable)
  PROVE  PushInv'
<1>1. /\ UNCHANGED <<job, lapsed, ran, cuts>> /\ ended' = [ended EXCEPT ![i] = @ \union {v}]
      /\ \/ UNCHANGED worker
         \/ \E k \in Pusher : /\ worker[k].at = "pushing" /\ worker[k].job = i
                              /\ Goto(k, "report", i, Answer(v, readable))
  BY DEF cmd_apply_assignment_stdin
<1>2. \A j \in Job : ended[j] \subseteq ended'[j]
  BY <1>1 DEF PushInv, PushTypes
<1>3. ended' \in [Job -> SUBSET Verdict]
  BY <1>1 DEF PushInv, PushTypes
<1>4. Recorded'
  BY <1>1, <1>2 DEF PushInv, Recorded
<1>5. CASE UNCHANGED worker
  <2>1. PushTypes'
    BY <1>1, <1>3, <1>5 DEF PushInv, PushTypes
  <2>2. WorkersInv'
    BY <1>1, <1>2, <1>5 DEF PushInv, WorkersInv
  <2>3. Accounted'
    BY <1>1, <1>5 DEF PushInv, Accounted, Claims, Loose, Held
  <2> QED
    BY <1>4, <2>1, <2>2, <2>3 DEF PushInv
<1>6. CASE \E k \in Pusher : /\ worker[k].at = "pushing" /\ worker[k].job = i
                             /\ Goto(k, "report", i, Answer(v, readable))
  <2>1. PICK k \in Pusher : /\ worker[k].at = "pushing" /\ worker[k].job = i
                            /\ Goto(k, "report", i, Answer(v, readable))
    BY <1>6
  <2>2. PICK a : a = Answer(v, readable)
    OBVIOUS
  <2>3. a \in Verdict /\ (a = "succeeded" => v = "succeeded")
    BY <2>2 DEF Answer, Verdict
  <2>4. PICK w : w = [at |-> "report", job |-> i, answer |-> a]
    OBVIOUS
  <2>5. /\ worker' = [worker EXCEPT ![k] = w]
        /\ w \in WorkerRow /\ w.at = "report" /\ w.job = i /\ w.answer = a
    BY <2>1, <2>2, <2>3, <2>4, SshPushAssumption DEF Goto, WorkerRow, WorkerAt
  <2>6. worker'[k] = w /\ \A m \in Pusher \ {k} : worker'[m] = worker[m]
    BY <2>5 DEF PushInv, PushTypes
  <2>7. PushTypes'
    BY <1>1, <1>3, <2>5 DEF PushInv, PushTypes, WorkerRow
  <2>8. WorkersInv'
    <3> SUFFICES ASSUME NEW m \in Pusher
                 PROVE  /\ worker'[m].at = "free" => worker'[m].job = 0
                        /\ worker'[m].at # "free" => worker'[m].job \in Job
                                                     /\ job[worker'[m].job] # "pending"
                        /\ worker'[m].at = "pushing" => worker'[m].job \notin Barred
                        /\ worker'[m].at = "report" =>
                             /\ worker'[m].answer \in Verdict
                             /\ worker'[m].answer = "succeeded" => "succeeded" \in ended'[worker'[m].job]
      BY <1>1 DEF WorkersInv
    <3>1. CASE m = k
      <4>1. job[i] # "pending" /\ v \in ended'[i]
        BY <1>1, <2>1 DEF PushInv, PushTypes, WorkersInv
      <4> QED
        BY <2>3, <2>5, <2>6, <3>1, <4>1
    <3>2. CASE m # k
      BY <1>2, <2>6, <3>2 DEF PushInv, WorkersInv
    <3> QED
      BY <3>1, <3>2
  <2>9. Accounted'
    <3> SUFFICES ASSUME NEW j \in Job
                 PROVE  ran[j] + Cardinality(Claims(j)') + (IF Loose(j)' THEN 1 ELSE 0) <= 1 + cuts[j]
      BY <1>1 DEF Accounted
    <3>1. Claims(j)' = Claims(j)
      BY <2>1, <2>5, <2>6 DEF Claims
    <3>2. Held(j)' <=> Held(j)
      BY <2>1, <2>5, <2>6 DEF Held
    <3>3. Loose(j)' <=> Loose(j)
      BY <1>1, <3>2 DEF Loose
    <3> QED
      BY <3>1, <3>3 DEF PushInv, Accounted
  <2> QED
    BY <1>4, <2>7, <2>8, <2>9 DEF PushInv
<1> QED
  BY <1>1, <1>5, <1>6

\* A lease that runs out under a push is paid for; a row nobody holds was to be
\* taken anyway.
LEMMA LeaseStep ==
  ASSUME PushInv, NEW i \in Job, LeaseLapses(i)
  PROVE  PushInv'
<1>1. /\ job[i] = "fetched" /\ UNCHANGED <<job, worker, ran, ended>>
      /\ lapsed' = lapsed \union {i}
      /\ \/ Held(i) /\ cuts' = [cuts EXCEPT ![i] = @ + 1]
         \/ ~Held(i) /\ UNCHANGED cuts
  BY DEF LeaseLapses, Held, Bump
<1>2. PushTypes'
  BY <1>1 DEF PushInv, PushTypes
<1>3. WorkersInv'
  BY <1>1 DEF PushInv, WorkersInv
<1>4. Accounted'
  <2> SUFFICES ASSUME NEW j \in Job
               PROVE  ran[j] + Cardinality(Claims(j)) + (IF Loose(j)' THEN 1 ELSE 0) <= 1 + cuts'[j]
    BY <1>1 DEF Accounted, Claims
  <2>1. ran[j] + Cardinality(Claims(j)) + (IF Loose(j) THEN 1 ELSE 0) <= 1 + cuts[j]
    BY DEF PushInv, Accounted
  <2>2. ran[j] \in Nat /\ cuts[j] \in Nat /\ Cardinality(Claims(j)) \in Nat
    BY ClaimsCount DEF PushInv, PushTypes
  <2>3. CASE j = i /\ Held(i)
    <3>1. cuts'[j] = cuts[j] + 1
      BY <1>1, <2>3 DEF PushInv, PushTypes
    <3> QED
      BY <2>1, <2>2, <3>1
  <2>4. CASE j # i \/ ~Held(i)
    <3>1. (Loose(j)' <=> Loose(j)) /\ cuts'[j] = cuts[j]
      BY <1>1, <2>4 DEF Loose, Held, PushInv, PushTypes
    <3> QED
      BY <2>1, <3>1
  <2> QED
    BY <2>3, <2>4
<1>5. Recorded'
  BY <1>1 DEF PushInv, Recorded
<1> QED
  BY <1>2, <1>3, <1>4, <1>5 DEF PushInv

LEMMA PushInvNext == PushInv /\ [SshPushNext]_pushVars => PushInv'
<1> SUFFICES ASSUME PushInv, [SshPushNext]_pushVars PROVE PushInv'
  OBVIOUS
<1>1. CASE \E k \in Pusher, late \in BOOLEAN : claim_ssh_pending(k, late)
  BY <1>1, ClaimStep
<1>2. CASE \E k \in Pusher : \/ Refused(k) \/ NotSpawned(k) \/ NotConnected(k) \/ Pushed(k)
                             \/ PushCutOff(k) \/ ServerRestarts(k)
  BY <1>2, WorkerStep
<1>3. CASE \E k \in Pusher, b \in BOOLEAN : report_result(k, b)
  BY <1>3, ReportStep
<1>4. CASE HostSteps
  BY <1>4, HostStep DEF HostSteps
<1>5. CASE \E j \in Job : LeaseLapses(j)
  BY <1>5, LeaseStep
<1>6. CASE UNCHANGED pushVars
  BY <1>6 DEF pushVars, PushInv, PushTypes, WorkersInv, Accounted, Recorded, Claims, Loose, Held
<1> QED
  BY <1>1, <1>2, <1>3, <1>4, <1>5, <1>6 DEF SshPushNext, WorkerSteps

\* claim_ssh_pending, process_assignment, report_result: whatever workers claim,
\* lose and report, and however many they are, a job starts on the host once
\* and once more for each loss; a barred one never; and a success in the record
\* was one on the host.
THEOREM RecordMatchesHostCorrect == SshPushSpec => []RecordMatchesHost
<1> QED
  BY PushInvInit, PushInvNext, PushInvImplies, PTL DEF SshPushSpec

(***************************************************************************)
(* Drift.                                                                  *)
(*                                                                         *)
(* A row is inserted for what a push found no open row of in an earlier    *)
(* statement. Inserting says that this is still so while no second push    *)
(* is at the server, and that what the push carries is new, open or was    *)
(* waived by an operator since.                                            *)
(***************************************************************************)
PushRecord(p) ==
  /\ p = [batch |-> p.batch, n |-> p.n, stage |-> p.stage, new |-> p.new]
  /\ p.stage \in {"record", "insert", "close"}

Inserting(p) ==
  p.stage = "insert" => \A r \in Thing : /\ r \in p.new => r \in p.batch /\ open[r] = 0
                                         /\ r \in p.batch => \/ r \in p.new
                                                             \/ open[r] = 1
                                                             \/ r \in waived

DriftInv ==
  /\ overlap \in BOOLEAN
  /\ open \in [Thing -> Nat]
  /\ \A p \in pushes : PushRecord(p)
  /\ ~overlap => \A p, q \in pushes : p = q
  /\ ~overlap => \A p \in pushes : Inserting(p)
  /\ OneRowPerDrift

LEMMA DriftInvInit == DriftInit => DriftInv
<1> SUFFICES ASSUME DriftInit PROVE DriftInv
  OBVIOUS
<1>1. overlap \in BOOLEAN
  BY Zenon DEF DriftInit
<1>2. pushes = {} /\ open = [r \in Thing |-> 0]
  BY DEF DriftInit
<1>3. OneRowPerDrift
  BY <1>2 DEF OneRowPerDrift
<1> QED
  BY <1>1, <1>2, <1>3 DEF DriftInv

\* A push of the agent arrives: the first one is the only one.
LEMMA PushDriftStep ==
  ASSUME DriftInv, NEW sent \in BOOLEAN, push_drift(sent)
  PROVE  DriftInv'
<1>1. CASE ~sent
  <2>1. pushes' = pushes /\ (overlap' <=> overlap) /\ UNCHANGED <<open, waived>>
        /\ overlap' \in BOOLEAN
    BY <1>1 DEF push_drift, DriftInv
  <2> QED
    BY <2>1 DEF DriftInv, OneRowPerDrift, Inserting
<1>2. CASE sent
  <2>1. PICK q : /\ pushes' = pushes \union {q}
                 /\ PushRecord(q) /\ q.stage = "record"
    <3>1. PICK n : pushes' = pushes \union {[batch |-> cycle.batch, n |-> n, stage |-> "record",
                                             new |-> {}]}
      BY <1>2, Zenon DEF push_drift
    <3>2. PICK q : q = [batch |-> cycle.batch, n |-> n, stage |-> "record", new |-> {}]
      OBVIOUS
    <3>3. PushRecord(q) /\ q.stage = "record"
      BY <3>2 DEF PushRecord
    <3> QED
      BY <3>1, <3>2, <3>3
  <2>2. /\ (overlap' <=> (overlap \/ pushes # {})) /\ overlap' \in BOOLEAN
        /\ UNCHANGED <<open, waived>>
    BY <1>2 DEF push_drift, DriftInv
  <2>3. ~overlap' => pushes' = {q} /\ ~overlap
    BY <2>1, <2>2
  <2>4. (\A p \in pushes : PushRecord(p))'
    BY <2>1 DEF DriftInv, PushRecord
  <2>5. OneRowPerDrift'
    BY <2>1, <2>2, <2>3 DEF DriftInv, OneRowPerDrift
  <2>6. (~overlap => \A p \in pushes : Inserting(p))'
    BY <2>1, <2>3 DEF Inserting
  <2> QED
    BY <2>2, <2>3, <2>4, <2>5, <2>6 DEF DriftInv
<1> QED
  BY <1>1, <1>2

\* The transactions of a push that is alone: it finds at most one open row of
\* each of its resources, and adds one where it found none.
LEMMA ServerStep ==
  ASSUME DriftInv, NEW p \in pushes,
         record_drift(p) \/ record_drift_commits(p) \/ close_drift_not_in(p)
  PROVE  DriftInv'
<1>1. PushRecord(p) /\ overlap' = overlap
  BY DEF DriftInv, record_drift, record_drift_commits, close_drift_not_in
<1>2. CASE close_drift_not_in(p)
  <2>1. /\ p.stage = "close" /\ pushes' = pushes \ {p} /\ UNCHANGED waived
        /\ open' = [r \in Thing |-> IF r \in Unreported(p.batch) THEN 0 ELSE open[r]]
    BY <1>2 DEF close_drift_not_in
  <2>2. ~overlap => pushes' = {}
    BY <2>1 DEF DriftInv
  <2>3. open' \in [Thing -> Nat] /\ \A r \in Thing : open'[r] = 0 \/ open'[r] = open[r]
    BY <2>1 DEF DriftInv
  <2>4. OneRowPerDrift'
    BY <1>1, <2>2, <2>3 DEF DriftInv, OneRowPerDrift
  <2> QED
    BY <1>1, <2>1, <2>2, <2>3, <2>4 DEF DriftInv
<1>3. CASE record_drift(p) \/ record_drift_commits(p)
  <2>1. PICK s, n :
          /\ pushes' = Step(p, s, n)
          /\ \/ /\ s = "close" /\ waived' = {}
                /\ open' = [r \in Thing |-> IF r \in Unseen(p.batch) THEN open[r] + 1 ELSE open[r]]
             \/ s = "insert" /\ n = Unseen(p.batch) /\ waived' = {} /\ UNCHANGED open
             \/ /\ s = "close" /\ p.stage = "insert" /\ UNCHANGED waived
                /\ open' = [r \in Thing |-> IF r \in p.new THEN open[r] + 1 ELSE open[r]]
    BY <1>3, Zenon DEF record_drift, record_drift_commits, Insert
  <2>2. PICK q : q = [batch |-> p.batch, n |-> p.n, stage |-> s, new |-> n]
    OBVIOUS
  <2>3. /\ PushRecord(q) /\ q.batch = p.batch /\ q.stage = s /\ q.new = n
        /\ pushes' = (pushes \ {p}) \union {q}
    BY <2>1, <2>2 DEF PushRecord, Step
  <2>4. ~overlap => pushes' = {q}
    BY <2>3 DEF DriftInv
  <2>5. \A x \in pushes' : PushRecord(x)
    BY <2>3 DEF DriftInv
  <2>6. /\ open' \in [Thing -> Nat]
        /\ ~overlap => /\ \A r \in Thing : open'[r] <= 1
                       /\ q.stage = "close" =>
                            \A r \in Thing : r \in p.batch => open'[r] = 1 \/ r \in waived'
                       /\ q.stage = "insert" =>
                            \A r \in Thing : /\ r \in q.new => r \in p.batch /\ open'[r] = 0
                                             /\ r \in p.batch => \/ r \in q.new
                                                                 \/ open'[r] = 1
                                                                 \/ r \in waived'
    <3>1. open \in [Thing -> Nat] /\ (~overlap => \A r \in Thing : open[r] <= 1)
      BY DEF DriftInv, OneRowPerDrift
    <3>2. CASE /\ s = "close" /\ waived' = {}
               /\ open' = [r \in Thing |-> IF r \in Unseen(p.batch) THEN open[r] + 1 ELSE open[r]]
      <4>1. \A r \in Thing : /\ r \in p.batch => open'[r] = IF open[r] = 0 THEN 1 ELSE open[r]
                             /\ r \notin p.batch => open'[r] = open[r]
        BY <3>1, <3>2 DEF Unseen
      <4>2. open' \in [Thing -> Nat]
        BY <3>1, <3>2
      <4> QED
        BY <2>3, <3>1, <3>2, <4>1, <4>2
    <3>3. CASE s = "insert" /\ n = Unseen(p.batch) /\ waived' = {} /\ UNCHANGED open
      BY <2>3, <3>1, <3>3 DEF Unseen
    <3>4. CASE /\ s = "close" /\ p.stage = "insert" /\ UNCHANGED waived
               /\ open' = [r \in Thing |-> IF r \in p.new THEN open[r] + 1 ELSE open[r]]
      <4>1. ~overlap => \A r \in Thing : /\ r \in p.new => r \in p.batch /\ open[r] = 0
                                         /\ r \in p.batch => \/ r \in p.new
                                                             \/ open[r] = 1
                                                             \/ r \in waived
        BY <3>4 DEF DriftInv, Inserting
      <4>2. open' \in [Thing -> Nat]
        BY <3>1, <3>4
      <4>3. \A r \in Thing : open'[r] = IF r \in p.new THEN open[r] + 1 ELSE open[r]
        BY <3>4
      <4> QED
        BY <2>3, <3>1, <3>4, <4>1, <4>2, <4>3
    <3> QED
      BY <2>1, <3>2, <3>3, <3>4
  <2>7. OneRowPerDrift'
    BY <1>1, <2>3, <2>4, <2>6 DEF OneRowPerDrift
  <2>8. (~overlap => \A x \in pushes : Inserting(x))'
    BY <1>1, <2>3, <2>4, <2>6 DEF Inserting
  <2> QED
    BY <1>1, <2>4, <2>5, <2>6, <2>7, <2>8 DEF DriftInv
<1> QED
  BY <1>2, <1>3

\* Rows that are resolved by an operator are waived; the others stay as they
\* are. A push that is lost leaves none.
LEMMA OperatorStep ==
  ASSUME DriftInv, pushes' \subseteq pushes, overlap' = overlap, open' \in [Thing -> Nat],
         waived \subseteq waived',
         \A r \in Thing : open'[r] = open[r] \/ (open'[r] < open[r] /\ r \in waived')
  PROVE  DriftInv'
<1>1. ~overlap => \A r \in Thing : open[r] <= 1 /\ open[r] \in Nat /\ open'[r] \in Nat
  BY DEF DriftInv, OneRowPerDrift
<1>2. OneRowPerDrift'
  <2> SUFFICES ASSUME ~overlap, NEW r \in Thing
               PROVE  /\ open'[r] <= 1
                      /\ \A p \in pushes' : p.stage = "close" /\ r \in p.batch
                                             => open'[r] = 1 \/ r \in waived'
    BY DEF OneRowPerDrift
  <2>1. open'[r] <= 1
    BY <1>1
  <2> QED
    BY <2>1 DEF DriftInv, OneRowPerDrift
<1>3. (~overlap => \A p \in pushes : Inserting(p))'
  <2> SUFFICES ASSUME ~overlap, NEW p \in pushes, p.stage = "insert", NEW r \in Thing
               PROVE  /\ r \in p.new => r \in p.batch /\ open'[r] = 0
                      /\ r \in p.batch => r \in p.new \/ open'[r] = 1 \/ r \in waived'
    BY DEF Inserting
  <2>1. /\ r \in p.new => r \in p.batch /\ open[r] = 0
        /\ r \in p.batch => r \in p.new \/ open[r] = 1 \/ r \in waived
    BY DEF DriftInv, Inserting
  <2> QED
    BY <1>1, <2>1
<1>4. overlap' \in BOOLEAN /\ (\A p \in pushes' : PushRecord(p))
  BY DEF DriftInv
<1>5. ~overlap' => \A p, q \in pushes' : p = q
  BY DEF DriftInv
<1> QED
  BY <1>2, <1>3, <1>4, <1>5 DEF DriftInv

LEMMA DriftInvNext == DriftInv /\ [DriftNext]_driftVars => DriftInv'
<1> SUFFICES ASSUME DriftInv, [DriftNext]_driftVars PROVE DriftInv'
  OBVIOUS
<1>1. CASE \E b \in BOOLEAN : push_drift(b)
  BY <1>1, PushDriftStep
<1>2. CASE ServerSteps
  BY <1>2, ServerStep DEF ServerSteps
<1>3. open \in [Thing -> Nat]
  BY DEF DriftInv
<1>4. CASE \E r \in Thing : accept_drift(r)
  <2>1. PICK r \in Thing : accept_drift(r)
    BY <1>4
  <2>2. /\ UNCHANGED <<pushes, overlap>> /\ waived' = waived \union {r}
        /\ open[r] > 0 /\ open' = [open EXCEPT ![r] = @ - 1]
    BY <2>1 DEF accept_drift
  <2>3. open' \in [Thing -> Nat]
        /\ \A x \in Thing : open'[x] = open[x] \/ (open'[x] < open[x] /\ x \in waived')
    BY <1>3, <2>2
  <2> QED
    BY <2>2, <2>3, OperatorStep
<1>5. CASE \E rs \in SUBSET Thing : accept_drift_bulk(rs)
  <2>1. PICK rs \in SUBSET Thing : accept_drift_bulk(rs)
    BY <1>5
  <2>2. /\ UNCHANGED <<pushes, overlap>>
        /\ waived' = waived \union {r \in rs : open[r] > 0}
        /\ open' = [r \in Thing |-> IF r \in rs THEN 0 ELSE open[r]]
    BY <2>1 DEF accept_drift_bulk
  <2>3. open' \in [Thing -> Nat]
        /\ \A x \in Thing : open'[x] = open[x] \/ (open'[x] < open[x] /\ x \in waived')
    BY <1>3, <2>2
  <2> QED
    BY <2>2, <2>3, OperatorStep
<1>6. CASE \/ \E b \in BOOLEAN : observation_resources(b) \/ push_to_remote(b)
           \/ \E c \in cycle.chunks : push_observations(c)
           \/ \E r \in Thing, b \in BOOLEAN : observe_resources_blocking(r, b)
           \/ Answered \/ apply_once \/ IgnoreEnds
           \/ \E p \in pushes : ServerStops(p)
           \/ \E rs \in SUBSET Thing : ignore_drift_bulk(rs)
           \/ \E r \in Thing : \/ Changed(r) \/ Scoped(r)
                               \/ \E b \in BOOLEAN : ignore_drift(r, b)
           \/ UNCHANGED driftVars
  <2>1. pushes' \subseteq pushes /\ UNCHANGED <<open, overlap, waived>>
    BY <1>6 DEF observation_resources, push_to_remote, push_observations, Answered, apply_once,
                observe_resources_blocking, IgnoreEnds, ServerStops, ignore_drift_bulk, Changed,
                Scoped, ignore_drift, driftVars
  <2> QED
    BY <1>3, <2>1, OperatorStep
<1> QED
  BY <1>1, <1>2, <1>4, <1>5, <1>6 DEF DriftNext, AgentSteps

\* drift, record_drift, close_drift_not_in: while no two pushes of an agent are
\* at the server at a time, a resource has one open row at most, and what a push
\* has recorded is open when it closes the rest, on either database and
\* whatever operators accept in between.
THEOREM OneRowPerDriftCorrect == DriftSpec => []OneRowPerDrift
<1>1. DriftInv => OneRowPerDrift
  BY DEF DriftInv
<1> QED
  BY DriftInvInit, DriftInvNext, <1>1, PTL DEF DriftSpec

(***************************************************************************)
(* The allowlist.                                                          *)
(*                                                                         *)
(* The rules in force are those of a version of the file that could be     *)
(* read, and nothing is planned before they are loaded.                    *)
(***************************************************************************)
CapsInv ==
  /\ file \in [v : Version \union {0}, mtime : Nat, edits : Nat]
  /\ boot \in {"load", "baseline", "watch"}
  /\ boot = "load" => ~bound /\ plan = {} /\ applied = {}
  /\ bound => caps \in Version \ Broken
  /\ AllowlistHolds

LEMMA CapsInvInit == DaemonInit => CapsInv
BY DEF DaemonInit, CapsInv, AllowlistHolds

LEMMA CapsInvNext == CapsInv /\ [CapsNext \/ StopNext \/ notify_waiters]_daemonVars => CapsInv'
<1> SUFFICES ASSUME CapsInv, [CapsNext \/ StopNext \/ notify_waiters]_daemonVars
             PROVE  CapsInv'
  OBVIOUS
<1>1. CASE CapsLoad
  BY <1>1, DaemonAssumption DEF CapsInv, CapsLoad, AllowlistHolds
<1>2. CASE CapsBaseline
  BY <1>2 DEF CapsInv, CapsBaseline, AllowlistHolds
<1>3. CASE capabilities_watcher_loop
  BY <1>3 DEF CapsInv, capabilities_watcher_loop, AllowlistHolds, Reloaded
<1>4. CASE Restart
  BY <1>4 DEF CapsInv, Restart, AllowlistHolds
<1>5. CASE \E rs \in Assigned : execute_assignment(rs)
  <2>1. PICK rs \in Assigned : execute_assignment(rs)
    BY <1>5
  <2>2. plan' = rs /\ applied' = {} /\ \A r \in rs : check(caps, r)
    BY <2>1 DEF execute_assignment, Passes
  <2>3. AllowlistHolds'
    BY <2>1, <2>2 DEF CapsInv, AllowlistHolds, execute_assignment
  <2> QED
    BY <2>1, <2>3 DEF CapsInv, execute_assignment
<1>6. CASE \E r \in UNION Assigned : ApplyOne(r)
  <2>1. plan' \union applied' = plan \union applied /\ boot # "load"
    BY <1>6 DEF ApplyOne, CapsInv
  <2> QED
    BY <1>6, <2>1 DEF CapsInv, AllowlistHolds, ApplyOne
<1>7. CASE \E v \in Version \union {0} : Edit(v)
  BY <1>7 DEF CapsInv, Edit, AllowlistHolds
<1>8. CASE StopNext \/ notify_waiters \/ UNCHANGED daemonVars
  <2>1. UNCHANGED capsVars
    BY <1>8 DEF StopNext, Tick, TickEnds, notify_waiters, daemonVars
  <2> QED
    BY <2>1 DEF CapsInv, AllowlistHolds, capsVars
<1> QED
  BY <1>1, <1>2, <1>3, <1>4, <1>5, <1>6, <1>7, <1>8 DEF CapsNext, CapsSteps

\* enforce_capabilities, capabilities_watcher_loop: an agent that started with
\* an allowlist is never without one, whatever becomes of the file, and applies
\* an assignment only if one allowlist of the file's versions passes all of it.
\* The first half of AllowlistFollowsFile.
THEOREM AllowlistHoldsCorrect == DaemonSpec => []AllowlistHolds
<1>1. CapsInv => AllowlistHolds
  BY DEF CapsInv
<1> QED
  BY CapsInvInit, CapsInvNext, <1>1, PTL DEF DaemonSpec

=============================================================================
