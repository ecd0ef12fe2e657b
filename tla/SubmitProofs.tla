---------------------------- MODULE SubmitProofs ----------------------------
(***************************************************************************)
(* Theorems about what becomes of a submission: the desired state of a     *)
(* resource (Desired), the configuration an operation answers to           *)
(* (Admission), and the order and the layers of its resources (DepSort).   *)
(***************************************************************************)
EXTENDS Admission, Desired, DepSort, FiniteSetTheorems, SequenceTheorems, WellFoundedInduction, TLAPS

(***************************************************************************)
(* Desired state.                                                          *)
(*                                                                         *)
(* Neither property is inductive. What an agent watches after retention    *)
(* depends on the order in which two tables lose their rows: NewestStay    *)
(* says that a resource's stored rows are its newest ones, and             *)
(* ResultsInOrder that results of one agent are stored in the order of     *)
(* their operations, as long as it applies them in that order. What a      *)
(* rollback finds on the host is in HostInv: the spec of the last          *)
(* operation that was applied, and before each operation that of the one   *)
(* before it.                                                              *)
(***************************************************************************)
OpStatus == {"pending_approval", "rejected", "running"} \union Finished
TaskStatus == {"absent", "pending", "cancelled", "succeeded", "failed"}
Specs == UNION {[rs -> Nat] : rs \in SUBSET Resource}
OpRow == [status : OpStatus, res : SUBSET Resource, spec : Specs, payload : SUBSET Resource]

DesiredTypes ==
  /\ ops \in Seq(OpRow)
  /\ task \in Seq([Agent -> TaskStatus]) /\ Len(task) = Len(ops)
  /\ before \in Seq(Specs) /\ Len(before) = Len(ops)
  /\ done \in Seq((1..Len(ops)) \X Agent)
  /\ stored \in SUBSET ((1..Len(ops)) \X Resource)
  /\ onHost \in [Resource -> Nat]
  /\ mixed \in SUBSET Resource
  /\ \A o \in 1..Len(ops) : /\ ops[o].payload \subseteq ops[o].res
                            /\ ops[o].spec \in [ops[o].res -> Nat]
                            /\ before[o] \in [ops[o].res -> Nat]
  /\ \A o \in 1..Len(ops), r \in Resource : <<o, r>> \in stored => r \in ops[o].res

Undecided(o) == ops[o].status \in {"pending_approval", "rejected"}

\* An operation that is not approved is dispatched to nobody, and what is
\* dispatched is all that is stored or what was when it was approved.
DispatchInv ==
  \A o \in 1..Len(ops) :
    /\ Undecided(o) => ops[o].payload = {} /\ \A a \in Agent : task[o][a] = "absent"
    /\ \A r \in ops[o].payload : task[o][Home[r]] # "absent"
    /\ ~Undecided(o) => \A r \in Resource : <<o, r>> \in stored => r \in ops[o].payload

LaterOps(o, r) == {p \in OpsOf(r) : p > o}

WholeOrPruned ==
  \A o \in 1..Len(ops) : ops[o].status # "rejected" =>
    \A r \in ops[o].res : \/ r \in ops[o].payload
                          \/ ops[o].status = "pending_approval" /\ <<o, r>> \in stored
                          \/ Cardinality(LaterOps(o, r)) >= Cap

NewestStay ==
  \A p, o \in 1..Len(ops), r \in Resource :
    <<p, r>> \in stored /\ p < o /\ r \in ops[o].res => <<o, r>> \in stored

ResultsInv == \A i \in 1..Len(done) : task[done[i][1]][done[i][2]] \in {"succeeded", "failed"}

BothDone(p, o, r) ==
  /\ p < o /\ r \in ops[p].payload /\ r \in ops[o].res
  /\ task[p][Home[r]] = "succeeded" /\ task[o][Home[r]] = "succeeded"

Behind(d, x, y) == \A i \in 1..Len(d) : d[i] = x => \E j \in 1..Len(d) : i < j /\ d[j] = y

ResultsInOrder ==
  \A p, o \in 1..Len(ops), r \in Resource \ mixed :
    BothDone(p, o, r) => Behind(done, <<p, Home[r]>>, <<o, Home[r]>>)

\* The operations that brought r to their spec.
AppliedTo(r) == {o \in 1..Len(ops) : r \in ops[o].payload /\ task[o][Home[r]] = "succeeded"}

\* v is the spec of the last of the operations os, or 0 if there is none.
LastSpec(os, r, v) ==
  \/ os = {} /\ v = 0
  \/ \E p \in os : v = ops[p].spec[r] /\ \A q \in os : q <= p

AtLast(r) ==
  /\ LastSpec(AppliedTo(r), r, onHost[r])
  /\ \A o \in AppliedTo(r) : LastSpec({p \in AppliedTo(r) : p < o}, r, before[o][r])

HostInv == \A r \in Resource \ mixed : AtLast(r)

DesiredInv ==
  DesiredTypes /\ DispatchInv /\ WholeOrPruned /\ NewestStay /\ ResultsInv /\ ResultsInOrder /\ HostInv

(***************************************************************************)
(* Sequences, and the largest of a set                                     *)
(***************************************************************************)

LEMMA Appended ==
  ASSUME NEW S, NEW s \in Seq(S), NEW x \in S
  PROVE  /\ Append(s, x) \in Seq(S) /\ Len(s) \in Nat /\ Len(Append(s, x)) = Len(s) + 1
         /\ DOMAIN s = 1..Len(s) /\ DOMAIN Append(s, x) = 1..(Len(s) + 1)
         /\ \A i \in 1..Len(s) : Append(s, x)[i] = s[i]
         /\ Append(s, x)[Len(s) + 1] = x
OBVIOUS

LEMMA Replaced ==
  ASSUME NEW S, NEW s \in Seq(S), NEW i \in 1..Len(s), NEW x \in S
  PROVE  /\ [s EXCEPT ![i] = x] \in Seq(S) /\ Len([s EXCEPT ![i] = x]) = Len(s)
         /\ \A j \in 1..Len(s) : [s EXCEPT ![i] = x][j] = IF j = i THEN x ELSE s[j]
OBVIOUS

LEMMA Smallest ==
  ASSUME NEW S \in SUBSET Nat, S # {}
  PROVE  Min(S) \in S /\ \A x \in S : Min(S) <= x
<1>1. \E W : IsWellFoundedOn(W, Nat) /\ \A x, y \in Nat : x < y => <<x, y>> \in W
  <2>1. \A x, y \in Nat : x < y => <<x, y>> \in OpToRel(<, Nat)
    BY DEF OpToRel
  <2> QED
    BY <2>1, NatLessThanWellFounded, Zenon
<1>2. PICK W : IsWellFoundedOn(W, Nat) /\ \A x, y \in Nat : x < y => <<x, y>> \in W
  BY <1>1
<1>3. \E m \in S : \A x \in S : ~(<<x, m>> \in W)
  <2>1. \A Q, U, V : IsWellFoundedOn(Q, U) /\ V \subseteq U /\ V # {}
                       => \E x \in V : \A y \in V : ~(<<y, x>> \in Q)
    BY WFMin, Zenon
  <2> HIDE DEF IsWellFoundedOn
  <2>2. IsWellFoundedOn(W, Nat)
    BY <1>2
  <2> QED
    BY <2>1, <2>2
<1>4. PICK m \in S : \A x \in S : ~(x < m)
  BY <1>2, <1>3, Zenon
<1>5. \E x \in S : \A y \in S : x <= y
  BY <1>4
<1> QED
  BY <1>5 DEF Min

LEMMA LeastOf ==
  ASSUME NEW S, S \subseteq Nat, S # {}
  PROVE  \E m \in S : \A x \in S : m <= x
BY Smallest

\* The element with the fewest above it has none.
LEMMA FiniteLargest ==
  ASSUME NEW S \in SUBSET Nat, IsFiniteSet(S), S # {}
  PROVE  Max(S) \in S /\ \A x \in S : x <= Max(S)
<1> DEFINE Above(x) == {y \in S : y > x}
           T == {Cardinality(Above(x)) : x \in S}
<1>1. \A x \in S : /\ IsFiniteSet(Above(x)) /\ Cardinality(Above(x)) \in Nat
                   /\ Cardinality(Above(x)) \in T
  <2> SUFFICES ASSUME NEW x \in S
               PROVE  IsFiniteSet(Above(x)) /\ Cardinality(Above(x)) \in Nat
    OBVIOUS
  <2>1. Above(x) \in SUBSET S
    OBVIOUS
  <2> HIDE DEF Above
  <2>2. IsFiniteSet(Above(x))
    BY <2>1, FS_Subset
  <2> QED
    BY <2>2, FS_CardinalityType
<1>2. T \in SUBSET Nat /\ T # {}
  BY <1>1
<1>3. Min(T) \in T /\ \A n \in T : Min(T) <= n
  <2> HIDE DEF T
  <2> QED
    BY <1>2, Smallest
<1>4. PICK m \in S : Cardinality(Above(m)) = Min(T)
  BY <1>3
<1>5. ASSUME NEW y \in S, y > m PROVE FALSE
  <2>1. Above(y) \in SUBSET Above(m) /\ y \in Above(m) /\ y \notin Above(y)
    <3>1. y \in Nat /\ m \in Nat /\ ~(y > y)
      OBVIOUS
    <3>2. \A z \in S : z > y => z > m
      BY <1>5
    <3> QED
      BY <1>5, <3>1, <3>2, Zenon
  <2> HIDE DEF Above
  <2>2. /\ Cardinality(Above(y)) <= Cardinality(Above(m))
        /\ Cardinality(Above(y)) # Cardinality(Above(m))
    BY <1>1, <2>1, FS_Subset
  <2>3. Cardinality(Above(m)) <= Cardinality(Above(y))
    BY <1>1, <1>3, <1>4
  <2> QED
    BY <1>1, <2>2, <2>3
<1>6. \E x \in S : \A y \in S : x >= y
  BY <1>5
<1>7. Max(S) \in S /\ \A y \in S : Max(S) >= y
  BY <1>6 DEF Max
<1> QED
  BY <1>7

LEMMA Largest ==
  ASSUME NEW n \in Nat, NEW S \in SUBSET (1..n), S # {}
  PROVE  Max(S) \in S /\ \A x \in S : x <= Max(S)
<1>1. IsFiniteSet(1..n) /\ S \in SUBSET Nat
  BY FS_Interval
<1>2. IsFiniteSet(S)
  BY <1>1, FS_Subset
<1> QED
  BY <1>1, <1>2, FiniteLargest

(***************************************************************************)
(* Rows of a resource                                                      *)
(***************************************************************************)

\* What retention counts: the stored rows of r that are newer than o's.
NewerRows(o, r) == {q \in stored : q[2] = r /\ q[1] > o}

LEMMA OpsDomain == ASSUME DesiredTypes PROVE DOMAIN ops = 1..Len(ops) /\ Len(ops) \in Nat
BY DEF DesiredTypes

LEMMA RowTypes ==
  ASSUME DesiredTypes
  PROVE  \A o \in 1..Len(ops) :
           /\ ops[o] \in OpRow /\ ops[o].res \subseteq Resource /\ ops[o].status \in OpStatus
           /\ ops[o].payload \subseteq ops[o].res
           /\ task[o] \in [Agent -> TaskStatus] /\ before[o] \in Specs
<1>1. \A o \in 1..Len(ops) : ops[o] \in OpRow /\ task[o] \in [Agent -> TaskStatus] /\ before[o] \in Specs
  BY DEF DesiredTypes
<1>2. \A o \in 1..Len(ops) : ops[o].payload \subseteq ops[o].res
  BY DEF DesiredTypes
<1> QED
  BY <1>1, <1>2 DEF OpRow

LEMMA OpsOfFinite ==
  ASSUME DesiredTypes, NEW o, NEW r
  PROVE  IsFiniteSet(LaterOps(o, r)) /\ Cardinality(LaterOps(o, r)) \in Nat
<1>1. LaterOps(o, r) \in SUBSET (1..Len(ops))
  BY OpsDomain DEF LaterOps, OpsOf
<1>2. IsFiniteSet(1..Len(ops))
  BY OpsDomain, FS_Interval
<1>3. IsFiniteSet(LaterOps(o, r))
  BY <1>1, <1>2, FS_Subset
<1> QED
  BY <1>3, FS_CardinalityType

\* Newer rows are of later operations, one each.
LEMMA NewerRowsCount ==
  ASSUME DesiredTypes, NEW o, NEW r
  PROVE  /\ IsFiniteSet(NewerRows(o, r)) /\ Cardinality(NewerRows(o, r)) \in Nat
         /\ Cardinality(NewerRows(o, r)) <= Cardinality(LaterOps(o, r))
<1> DEFINE P == {p \in LaterOps(o, r) : <<p, r>> \in stored}
           f == [p \in P |-> <<p, r>>]
<1>1. IsFiniteSet(P) /\ Cardinality(P) <= Cardinality(LaterOps(o, r)) /\ Cardinality(P) \in Nat
  <2>1. P \in SUBSET LaterOps(o, r)
    OBVIOUS
  <2>2. IsFiniteSet(P) /\ Cardinality(P) <= Cardinality(LaterOps(o, r))
    <3> HIDE DEF P
    <3> QED
      BY <2>1, OpsOfFinite, FS_Subset
  <2> HIDE DEF P
  <2> QED
    BY <2>2, FS_CardinalityType
<1>2. f \in Surjection(P, NewerRows(o, r))
  <2>1. \A p \in P : f[p] \in NewerRows(o, r)
    BY DEF NewerRows, LaterOps
  <2>2. \A q \in NewerRows(o, r) : \E p \in P : f[p] = q
    <3> SUFFICES ASSUME NEW q \in NewerRows(o, r) PROVE \E p \in P : f[p] = q
      OBVIOUS
    <3>1. q = <<q[1], q[2]>> /\ q \in stored /\ q[2] = r /\ q[1] > o
          /\ q[1] \in 1..Len(ops) /\ r \in Resource
      BY DEF NewerRows, DesiredTypes
    <3>2. <<q[1], r>> \in stored
      BY <3>1
    <3>3. r \in ops[q[1]].res
      BY <3>1, <3>2 DEF DesiredTypes
    <3>4. q[1] \in P
      BY <3>1, <3>2, <3>3, OpsDomain DEF LaterOps, OpsOf, Touched
    <3> QED
      BY <3>1, <3>4
  <2> QED
    BY <2>1, <2>2 DEF Surjection
<1>3. IsFiniteSet(NewerRows(o, r)) /\ Cardinality(NewerRows(o, r)) <= Cardinality(P)
  <2> HIDE DEF P, f
  <2> QED
    BY <1>1, <1>2, FS_Surjection
<1>4. Cardinality(NewerRows(o, r)) \in Nat /\ Cardinality(LaterOps(o, r)) \in Nat
  BY <1>3, FS_CardinalityType, OpsOfFinite
<1> HIDE DEF P, f
<1> QED
  BY <1>1, <1>3, <1>4

(***************************************************************************)
(* What the actions keep                                                   *)
(***************************************************************************)

\* A step that applies nothing to r leaves r's history as it is.
LEMMA HostKeepsOne ==
  ASSUME NEW r, AtLast(r), AppliedTo(r)' = AppliedTo(r), onHost'[r] = onHost[r],
         \A o \in AppliedTo(r) : before'[o][r] = before[o][r],
         \A o \in 1..Len(ops) : ops'[o].spec = ops[o].spec
  PROVE  AtLast(r)'
<1>1. PICK A : A = AppliedTo(r)
  OBVIOUS
<1>2. A \subseteq 1..Len(ops) /\ AppliedTo(r)' = A
  BY <1>1 DEF AppliedTo
<1>3. LastSpec(AppliedTo(r), r, onHost[r])'
  <2>1. LastSpec(A, r, onHost[r])
    BY <1>1 DEF AtLast
  <2> QED
    BY <1>1, <1>2, <2>1 DEF LastSpec
<1>4. ASSUME NEW o \in A
      PROVE  LastSpec({p \in AppliedTo(r) : p < o}, r, before[o][r])'
  <2>1. PICK B : B = {p \in A : p < o}
    OBVIOUS
  <2>2. LastSpec(B, r, before[o][r])
    BY <1>1, <2>1 DEF AtLast
  <2>3. before'[o][r] = before[o][r]
    BY <1>1
  <2> QED
    BY <1>2, <2>1, <2>2, <2>3 DEF LastSpec
<1> QED
  BY <1>2, <1>3, <1>4 DEF AtLast

LEMMA HostKeeps ==
  ASSUME DesiredInv, mixed \subseteq mixed',
         \A r \in Resource \ mixed' : /\ AppliedTo(r)' = AppliedTo(r) /\ onHost'[r] = onHost[r]
                                      /\ \A o \in AppliedTo(r) : before'[o][r] = before[o][r],
         \A o \in 1..Len(ops) : ops'[o].spec = ops[o].spec
  PROVE  HostInv'
<1> SUFFICES ASSUME NEW r \in Resource \ mixed' PROVE AtLast(r)'
  BY DEF HostInv
<1>1. AtLast(r)
  BY DEF DesiredInv, HostInv
<1> QED
  BY <1>1, HostKeepsOne

LEMMA DesiredInvInit == DesiredInit => DesiredInv
<1> SUFFICES ASSUME DesiredInit PROVE DesiredInv
  OBVIOUS
<1>1. /\ ops = <<>> /\ task = <<>> /\ before = <<>> /\ done = <<>> /\ stored = {} /\ mixed = {}
      /\ onHost = [r \in Resource |-> 0]
  BY DEF DesiredInit
<1>2. Len(ops) = 0 /\ 1..Len(ops) = {} /\ Len(task) = 0 /\ Len(before) = 0 /\ 1..Len(done) = {}
  BY <1>1
<1>3. DesiredTypes
  BY <1>1, <1>2 DEF DesiredTypes
<1>4. \A r \in Resource : AppliedTo(r) = {}
  BY <1>2 DEF AppliedTo
<1>5. HostInv
  BY <1>1, <1>4 DEF HostInv, AtLast, LastSpec
<1> QED
  BY <1>1, <1>2, <1>3, <1>5 DEF DesiredInv, DispatchInv, WholeOrPruned, NewestStay, ResultsInv, ResultsInOrder

\* A new operation is the newest of its resources and has applied nothing.
LEMMA CreateStep ==
  ASSUME DesiredInv, NEW rs \in SUBSET Resource, NEW spec \in [rs -> Nat], NEW held \in BOOLEAN,
         create_operation(spec, held)
  PROVE  DesiredInv'
<1>1. PICK n : n = Len(ops) + 1
  OBVIOUS
<1>2. Len(ops) \in Nat /\ DOMAIN ops = 1..Len(ops)
  BY OpsDomain DEF DesiredInv
<1> DEFINE row == [status |-> IF held THEN "pending_approval" ELSE "running",
                   res |-> rs, spec |-> spec, payload |-> IF held THEN {} ELSE rs]
           tasks == IF held THEN NoTask ELSE Dispatched(rs)
           old == [r \in rs |-> 0]
<1>3. /\ ops' = Append(ops, row) /\ task' = Append(task, tasks) /\ before' = Append(before, old)
      /\ stored' = stored \union {<<n, r>> : r \in rs}
      /\ UNCHANGED <<done, onHost, mixed>>
  BY <1>1 DEF create_operation
<1>4. row \in OpRow /\ tasks \in [Agent -> TaskStatus] /\ old \in Specs
  <2>1. spec \in Specs /\ old \in Specs
    BY DEF Specs
  <2>2. row \in OpRow
    BY <2>1 DEF OpRow, OpStatus
  <2>3. tasks \in [Agent -> TaskStatus]
    BY DEF NoTask, Dispatched, TaskStatus
  <2> QED
    BY <2>1, <2>2, <2>3
<1>5. /\ row.res = rs /\ row.spec = spec /\ row.payload = (IF held THEN {} ELSE rs)
      /\ row.status = (IF held THEN "pending_approval" ELSE "running")
  OBVIOUS
<1>6. \A a \in Agent : /\ tasks[a] \in {"absent", "pending"} /\ (held => tasks[a] = "absent")
                       /\ ~held => \A r \in rs : Home[r] = a => tasks[a] = "pending"
  BY DEF NoTask, Dispatched, HomesOf
<1> HIDE DEF row, tasks, old
<1>7. /\ ops' \in Seq(OpRow) /\ Len(ops') = n /\ ops'[n] = row /\ 1..n = 1..Len(ops) \union {n}
      /\ \A o \in 1..Len(ops) : ops'[o] = ops[o] /\ o # n
  BY <1>1, <1>2, <1>3, <1>4, Appended DEF DesiredInv, DesiredTypes
<1>8. /\ task' \in Seq([Agent -> TaskStatus]) /\ Len(task') = n /\ task'[n] = tasks
      /\ \A o \in 1..Len(ops) : task'[o] = task[o]
  BY <1>1, <1>2, <1>3, <1>4, Appended DEF DesiredInv, DesiredTypes
<1>9. /\ before' \in Seq(Specs) /\ Len(before') = n /\ before'[n] = old
      /\ \A o \in 1..Len(ops) : before'[o] = before[o]
  BY <1>1, <1>2, <1>3, <1>4, Appended DEF DesiredInv, DesiredTypes
<1>10. \A o \in 1..Len(ops'), r \in Resource :
         <<o, r>> \in stored' <=> (<<o, r>> \in stored /\ o # n) \/ (o = n /\ r \in rs)
  <2>1. \A r \in Resource : <<n, r>> \notin stored
    BY <1>1, <1>2 DEF DesiredInv, DesiredTypes
  <2> QED
    BY <1>3, <2>1
<1>11. DesiredTypes'
  <2>1. done \in Seq((1..Len(ops')) \X Agent)
    BY <1>7, <1>2 DEF DesiredInv, DesiredTypes
  <2>2. stored' \in SUBSET ((1..Len(ops')) \X Resource)
    BY <1>3, <1>7 DEF DesiredInv, DesiredTypes
  <2>3. \A o \in 1..Len(ops') : /\ ops'[o].payload \subseteq ops'[o].res
                                /\ ops'[o].spec \in [ops'[o].res -> Nat]
                                /\ before'[o] \in [ops'[o].res -> Nat]
    <3>1. old \in [rs -> Nat]
      BY DEF old
    <3> QED
      BY <1>5, <1>7, <1>9, <3>1 DEF DesiredInv, DesiredTypes
  <2>4. \A o \in 1..Len(ops'), r \in Resource : <<o, r>> \in stored' => r \in ops'[o].res
    BY <1>5, <1>7, <1>10 DEF DesiredInv, DesiredTypes
  <2> QED
    BY <1>3, <1>7, <1>8, <1>9, <2>1, <2>2, <2>3, <2>4 DEF DesiredInv, DesiredTypes
<1>12. DispatchInv'
  <2> SUFFICES ASSUME NEW o \in 1..Len(ops')
               PROVE  /\ Undecided(o)' => /\ ops'[o].payload = {}
                                          /\ \A a \in Agent : task'[o][a] = "absent"
                      /\ \A r \in ops'[o].payload : task'[o][Home[r]] # "absent"
                      /\ ~Undecided(o)' => \A r \in Resource : <<o, r>> \in stored'
                                                                => r \in ops'[o].payload
    BY DEF DispatchInv
  <2>1. CASE o = n
    <3>1. Undecided(o)' <=> held
      BY <1>5, <1>7, <2>1 DEF Undecided
    <3>2. \A r \in rs : Home[r] \in Agent
      BY DesiredAssumption
    <3> QED
      BY <1>5, <1>6, <1>7, <1>8, <1>10, <2>1, <3>1, <3>2
  <2>2. CASE o # n
    <3>1. o \in 1..Len(ops) /\ ops'[o] = ops[o] /\ task'[o] = task[o]
      BY <1>7, <1>8, <2>2
    <3>2. Undecided(o)' <=> Undecided(o)
      BY <3>1 DEF Undecided
    <3> QED
      BY <1>10, <2>2, <3>1, <3>2 DEF DesiredInv, DispatchInv
  <2> QED
    BY <2>1, <2>2
<1>13. WholeOrPruned'
  <2> SUFFICES ASSUME NEW o \in 1..Len(ops'), ops'[o].status # "rejected", NEW r \in ops'[o].res
               PROVE  \/ r \in ops'[o].payload
                      \/ ops'[o].status = "pending_approval" /\ <<o, r>> \in stored'
                      \/ Cardinality(LaterOps(o, r)') >= Cap
    BY DEF WholeOrPruned
  <2>1. CASE o = n
    <3>1. r \in rs /\ r \in Resource
      BY <1>5, <1>7, <2>1
    <3> QED
      BY <1>5, <1>7, <1>10, <2>1, <3>1
  <2>2. CASE o # n
    <3>1. o \in 1..Len(ops) /\ ops'[o] = ops[o]
      BY <1>7, <2>2
    <3>2. r \in Resource
      BY <3>1, RowTypes DEF DesiredInv
    <3>3. LaterOps(o, r) \in SUBSET LaterOps(o, r)'
      <4>1. DOMAIN ops' = 1..Len(ops')
        BY <1>7
      <4> QED
        BY <1>2, <1>7, <4>1 DEF LaterOps, OpsOf, Touched
    <3>4. IsFiniteSet(LaterOps(o, r)') /\ Cardinality(LaterOps(o, r)') \in Nat
      <4>1. DOMAIN ops' = 1..Len(ops') /\ Len(ops') \in Nat
        BY <1>1, <1>2, <1>7
      <4>2. LaterOps(o, r)' \in SUBSET (1..Len(ops'))
        BY <4>1 DEF LaterOps, OpsOf
      <4>3. IsFiniteSet(1..Len(ops'))
        <5>1. \A k \in Nat : IsFiniteSet(1..k)
          BY FS_Interval
        <5> QED
          BY <4>1, <5>1
      <4>4. IsFiniteSet(LaterOps(o, r)')
        BY <4>2, <4>3, FS_Subset
      <4> QED
        BY <4>4, FS_CardinalityType
    <3>5. Cardinality(LaterOps(o, r)) <= Cardinality(LaterOps(o, r)')
      BY <3>3, <3>4, FS_Subset
    <3>6. Cardinality(LaterOps(o, r)) \in Nat /\ Cap \in Nat
      BY OpsOfFinite, DesiredAssumption DEF DesiredInv
    <3>7. Cardinality(LaterOps(o, r)) >= Cap => Cardinality(LaterOps(o, r)') >= Cap
      BY <3>4, <3>5, <3>6
    <3> QED
      BY <1>10, <2>2, <3>1, <3>2, <3>7 DEF DesiredInv, WholeOrPruned
  <2> QED
    BY <2>1, <2>2
<1>14. NewestStay'
  <2> SUFFICES ASSUME NEW p \in 1..Len(ops'), NEW o \in 1..Len(ops'), NEW r \in Resource,
                      <<p, r>> \in stored', p < o, r \in ops'[o].res
               PROVE  <<o, r>> \in stored'
    BY DEF NewestStay
  <2>1. p # n /\ p \in 1..Len(ops) /\ <<p, r>> \in stored
    BY <1>1, <1>2, <1>7, <1>10
  <2>2. CASE o = n
    BY <1>5, <1>7, <1>10, <2>2
  <2>3. CASE o # n
    BY <1>7, <1>10, <2>1, <2>3 DEF DesiredInv, NewestStay
  <2> QED
    BY <2>2, <2>3
<1>15. ResultsInv'
  <2>1. \A i \in 1..Len(done) : done[i][1] \in 1..Len(ops)
    BY DEF DesiredInv, DesiredTypes
  <2> QED
    BY <1>3, <1>8, <2>1 DEF DesiredInv, ResultsInv
<1>16. \A a \in Agent : task'[n][a] # "succeeded"
  BY <1>6, <1>8
<1>17. \A r \in Resource : Home[r] \in Agent
  BY DesiredAssumption
<1>18. ResultsInOrder'
  <2> SUFFICES ASSUME NEW p \in 1..Len(ops'), NEW o \in 1..Len(ops'), NEW r \in Resource \ mixed,
                      BothDone(p, o, r)'
               PROVE  Behind(done, <<p, Home[r]>>, <<o, Home[r]>>)
    BY <1>3 DEF ResultsInOrder
  <2>1. p # n /\ o # n
    BY <1>16, <1>17 DEF BothDone
  <2>2. p \in 1..Len(ops) /\ o \in 1..Len(ops)
    BY <1>7, <2>1
  <2>3. BothDone(p, o, r)
    BY <1>7, <1>8, <2>2 DEF BothDone
  <2> QED
    BY <2>2, <2>3 DEF DesiredInv, ResultsInOrder
<1>19. \A r \in Resource : AppliedTo(r)' = AppliedTo(r)
  BY <1>7, <1>8, <1>16, <1>17 DEF AppliedTo
<1>20. HostInv'
  <2>1. \A r \in Resource : AppliedTo(r) \subseteq 1..Len(ops)
    BY DEF AppliedTo
  <2> QED
    BY <1>3, <1>7, <1>9, <1>19, <2>1, HostKeeps
<1> QED
  BY <1>11, <1>12, <1>13, <1>14, <1>15, <1>18, <1>20 DEF DesiredInv

\* One row of operations changes its status, and perhaps what it carries.
LEMMA RowChanged ==
  ASSUME DesiredTypes, NEW o \in 1..Len(ops), NEW st \in OpStatus, NEW pl \in SUBSET Resource,
         \/ ops' = [ops EXCEPT ![o].status = st] /\ pl = ops[o].payload
         \/ ops' = [ops EXCEPT ![o].status = st, ![o].payload = pl]
  PROVE  /\ ops' \in Seq(OpRow) /\ Len(ops') = Len(ops) /\ DOMAIN ops' = DOMAIN ops
         /\ ops'[o].status = st /\ ops'[o].payload = pl
         /\ \A q \in 1..Len(ops) : /\ ops'[q].res = ops[q].res /\ ops'[q].spec = ops[q].spec
                                   /\ q # o => ops'[q] = ops[q]
<1>1. PICK row : row = [status |-> st, res |-> ops[o].res, spec |-> ops[o].spec, payload |-> pl]
  OBVIOUS
<1>2. ops[o] \in OpRow /\ row \in OpRow
  <2>1. ops[o] \in OpRow
    BY RowTypes
  <2> QED
    BY <1>1, <2>1 DEF OpRow
<1>3. ops' = [ops EXCEPT ![o] = row]
  <2>1. CASE ops' = [ops EXCEPT ![o].status = st] /\ pl = ops[o].payload
    <3>1. [ops[o] EXCEPT !.status = st] = row
      BY <1>1, <1>2, <2>1 DEF OpRow
    <3> QED
      BY <2>1, <3>1
  <2>2. CASE ops' = [ops EXCEPT ![o].status = st, ![o].payload = pl]
    <3>1. PICK mid : mid = [ops[o] EXCEPT !.status = st]
      OBVIOUS
    <3>2. mid \in OpRow /\ mid = [status |-> st, res |-> ops[o].res, spec |-> ops[o].spec,
                                  payload |-> ops[o].payload]
      BY <1>2, <3>1 DEF OpRow
    <3>3. [mid EXCEPT !.payload = pl] = row
      BY <1>1, <3>2 DEF OpRow
    <3>4. PICK half : half = [ops EXCEPT ![o].status = st]
      OBVIOUS
    <3>5. half = [ops EXCEPT ![o] = mid]
      BY <3>1, <3>4
    <3>6. half \in Seq(OpRow) /\ Len(half) = Len(ops) /\ half[o] = mid
          /\ \A q \in 1..Len(ops) : q # o => half[q] = ops[q]
      BY <3>2, <3>5, Replaced DEF DesiredTypes
    <3>7. ops' = [half EXCEPT ![o].payload = pl]
      BY <2>2, <3>4
    <3>8. ops' = [half EXCEPT ![o] = row]
      BY <3>3, <3>6, <3>7
    <3>9. half = [q \in 1..Len(ops) |-> IF q = o THEN mid ELSE ops[q]]
      BY <3>6
    <3> QED
      BY <3>5, <3>8, OpsDomain
  <2> QED
    BY <2>1, <2>2
<1>4. /\ ops' \in Seq(OpRow) /\ Len(ops') = Len(ops)
      /\ \A q \in 1..Len(ops) : ops'[q] = IF q = o THEN row ELSE ops[q]
  BY <1>2, <1>3, Replaced DEF DesiredTypes
<1>5. row.status = st /\ row.res = ops[o].res /\ row.spec = ops[o].spec /\ row.payload = pl
  BY <1>1
<1> QED
  BY <1>3, <1>4, <1>5

\* Operations keep their resources.
LEMMA LaterOpsKept ==
  ASSUME DesiredTypes, DOMAIN ops' = DOMAIN ops, \A q \in 1..Len(ops) : ops'[q].res = ops[q].res,
         NEW o, NEW r
  PROVE  LaterOps(o, r)' = LaterOps(o, r)
BY OpsDomain DEF LaterOps, OpsOf, Touched

LEMMA ApproveStep ==
  ASSUME DesiredInv, NEW o \in 1..Len(ops), approve_operation(o)
  PROVE  DesiredInv'
<1>1. PICK left : left = {r \in Touched(o) : <<o, r>> \in stored}
  OBVIOUS
<1>2. PICK st : st = IF left = {} THEN "succeeded" ELSE "running"
  OBVIOUS
<1>3. /\ ops[o].status = "pending_approval"
      /\ ops' = [ops EXCEPT ![o].status = st, ![o].payload = left]
      /\ task' = [task EXCEPT ![o] = Dispatched(left)]
      /\ UNCHANGED <<stored, done, onHost, before, mixed>>
  BY <1>1, <1>2 DEF approve_operation
<1>4. st \in {"succeeded", "running"} /\ st \in OpStatus /\ left \subseteq ops[o].res
      /\ left \in SUBSET Resource
  BY <1>1, <1>2, RowTypes DEF OpStatus, Finished, Touched, DesiredInv
<1>5. /\ ops' \in Seq(OpRow) /\ Len(ops') = Len(ops) /\ DOMAIN ops' = DOMAIN ops
      /\ ops'[o].status = st /\ ops'[o].payload = left
      /\ \A q \in 1..Len(ops) : /\ ops'[q].res = ops[q].res /\ ops'[q].spec = ops[q].spec
                                /\ q # o => ops'[q] = ops[q]
  BY <1>3, <1>4, RowChanged DEF DesiredInv
<1>6. /\ Dispatched(left) \in [Agent -> TaskStatus]
      /\ \A a \in Agent : Dispatched(left)[a] \in {"absent", "pending"}
      /\ \A r \in left : Dispatched(left)[Home[r]] = "pending"
  BY <1>4, DesiredAssumption DEF Dispatched, TaskStatus, HomesOf
<1>7. /\ task' \in Seq([Agent -> TaskStatus]) /\ Len(task') = Len(ops)
      /\ task'[o] = Dispatched(left)
      /\ \A q \in 1..Len(ops) : q # o => task'[q] = task[q]
  BY <1>3, <1>6, Replaced DEF DesiredInv, DesiredTypes
<1>8. Undecided(o) /\ ~Undecided(o)' /\ ops[o].payload = {} /\ \A a \in Agent : task[o][a] = "absent"
  BY <1>3, <1>4, <1>5 DEF Undecided, DesiredInv, DispatchInv
<1>9. DesiredTypes'
  <2>1. \A q \in 1..Len(ops) : ops'[q].payload \subseteq ops'[q].res
    BY <1>4, <1>5 DEF DesiredInv, DesiredTypes
  <2> QED
    BY <1>3, <1>5, <1>7, <2>1 DEF DesiredInv, DesiredTypes
<1>10. DispatchInv'
  <2> SUFFICES ASSUME NEW q \in 1..Len(ops)
               PROVE  /\ Undecided(q)' => /\ ops'[q].payload = {}
                                          /\ \A a \in Agent : task'[q][a] = "absent"
                      /\ \A r \in ops'[q].payload : task'[q][Home[r]] # "absent"
                      /\ ~Undecided(q)' => \A r \in Resource : <<q, r>> \in stored
                                                                => r \in ops'[q].payload
    BY <1>3, <1>5 DEF DispatchInv
  <2>1. CASE q = o
    <3>1. \A r \in Resource : <<o, r>> \in stored => r \in left
      BY <1>1 DEF DesiredInv, DesiredTypes, Touched
    <3>2. \A r \in left : task'[o][Home[r]] = "pending"
      BY <1>6, <1>7
    <3>3. ~Undecided(q)'
      BY <1>8, <2>1
    <3> QED
      BY <1>5, <2>1, <3>1, <3>2, <3>3
  <2>2. CASE q # o
    <3>1. ops'[q] = ops[q] /\ task'[q] = task[q]
      BY <1>5, <1>7, <2>2
    <3>2. Undecided(q)' <=> Undecided(q)
      BY <3>1 DEF Undecided
    <3> QED
      BY <3>1, <3>2 DEF DesiredInv, DispatchInv
  <2> QED
    BY <2>1, <2>2
<1>11. WholeOrPruned'
  <2> SUFFICES ASSUME NEW q \in 1..Len(ops), ops'[q].status # "rejected", NEW r \in ops'[q].res
               PROVE  \/ r \in ops'[q].payload
                      \/ ops'[q].status = "pending_approval" /\ <<q, r>> \in stored
                      \/ Cardinality(LaterOps(q, r)') >= Cap
    BY <1>3, <1>5 DEF WholeOrPruned
  <2>1. LaterOps(q, r)' = LaterOps(q, r)
    BY <1>5, LaterOpsKept DEF DesiredInv
  <2>2. ops'[q].res = ops[q].res /\ (q # o => ops'[q] = ops[q])
    BY <1>5
  <2>3. \/ r \in ops[q].payload
        \/ ops[q].status = "pending_approval" /\ <<q, r>> \in stored
        \/ Cardinality(LaterOps(q, r)) >= Cap
    BY <1>3, <2>2 DEF DesiredInv, WholeOrPruned
  <2>4. CASE q = o
    BY <1>1, <1>5, <1>8, <2>1, <2>2, <2>3, <2>4 DEF Touched
  <2>5. CASE q # o
    BY <2>1, <2>2, <2>3, <2>5
  <2> QED
    BY <2>4, <2>5
<1>12. NewestStay'
  BY <1>3, <1>5 DEF DesiredInv, NewestStay
<1>13. ResultsInv'
  <2> SUFFICES ASSUME NEW i \in 1..Len(done)
               PROVE  task'[done[i][1]][done[i][2]] \in {"succeeded", "failed"}
    BY <1>3 DEF ResultsInv
  <2>1. done[i][1] \in 1..Len(ops) /\ done[i][2] \in Agent
    BY DEF DesiredInv, DesiredTypes
  <2>2. task[done[i][1]][done[i][2]] \in {"succeeded", "failed"}
    BY DEF DesiredInv, ResultsInv
  <2>3. done[i][1] # o
    BY <1>8, <2>1, <2>2
  <2> QED
    BY <1>7, <2>1, <2>2, <2>3
<1>14. \A a \in Agent : task'[o][a] # "succeeded" /\ task[o][a] # "succeeded"
  BY <1>6, <1>7, <1>8
<1>15. \A r \in Resource : Home[r] \in Agent
  BY DesiredAssumption
<1>16. ResultsInOrder'
  <2> SUFFICES ASSUME NEW p \in 1..Len(ops), NEW q \in 1..Len(ops), NEW r \in Resource \ mixed,
                      BothDone(p, q, r)'
               PROVE  Behind(done, <<p, Home[r]>>, <<q, Home[r]>>)
    BY <1>3, <1>5 DEF ResultsInOrder
  <2>1. p # o /\ q # o
    BY <1>14, <1>15 DEF BothDone
  <2>2. BothDone(p, q, r)
    BY <1>5, <1>7, <2>1 DEF BothDone
  <2> QED
    BY <2>2 DEF DesiredInv, ResultsInOrder
<1>17. HostInv'
  <2>1. \A r \in Resource : AppliedTo(r)' = AppliedTo(r)
    BY <1>5, <1>7, <1>14, <1>15 DEF AppliedTo
  <2> QED
    BY <1>3, <1>5, <2>1, HostKeeps
<1> QED
  BY <1>9, <1>10, <1>11, <1>12, <1>13, <1>16, <1>17 DEF DesiredInv

\* A rejected operation was dispatched to nobody.
LEMMA RejectStep ==
  ASSUME DesiredInv, NEW o \in 1..Len(ops), reject_operation(o)
  PROVE  DesiredInv'
<1>1. /\ ops[o].status = "pending_approval"
      /\ ops' = [ops EXCEPT ![o].status = "rejected"]
      /\ UNCHANGED <<stored, task, done, onHost, before, mixed>>
  BY DEF reject_operation
<1>2. ops[o].payload \in SUBSET Resource /\ "rejected" \in OpStatus
  BY RowTypes DEF DesiredInv, OpStatus
<1>3. /\ ops' \in Seq(OpRow) /\ Len(ops') = Len(ops) /\ DOMAIN ops' = DOMAIN ops
      /\ ops'[o].status = "rejected" /\ ops'[o].payload = ops[o].payload
      /\ \A q \in 1..Len(ops) : /\ ops'[q].res = ops[q].res /\ ops'[q].spec = ops[q].spec
                                /\ q # o => ops'[q] = ops[q]
  BY <1>1, <1>2, RowChanged DEF DesiredInv
<1>4. \A q \in 1..Len(ops) : ops'[q].payload = ops[q].payload /\ (Undecided(q)' <=> Undecided(q))
  BY <1>1, <1>3 DEF Undecided
<1>5. DesiredTypes'
  BY <1>1, <1>3, <1>4 DEF DesiredInv, DesiredTypes
<1>6. DispatchInv'
  BY <1>1, <1>3, <1>4 DEF DesiredInv, DispatchInv
<1>7. WholeOrPruned'
  <2> SUFFICES ASSUME NEW q \in 1..Len(ops), ops'[q].status # "rejected", NEW r \in ops'[q].res
               PROVE  \/ r \in ops'[q].payload
                      \/ ops'[q].status = "pending_approval" /\ <<q, r>> \in stored
                      \/ Cardinality(LaterOps(q, r)') >= Cap
    BY <1>1, <1>3 DEF WholeOrPruned
  <2>1. LaterOps(q, r)' = LaterOps(q, r)
    BY <1>3, LaterOpsKept DEF DesiredInv
  <2>2. q # o /\ ops'[q] = ops[q]
    BY <1>3
  <2> QED
    BY <2>1, <2>2 DEF DesiredInv, WholeOrPruned
<1>8. NewestStay' /\ ResultsInv'
  BY <1>1, <1>3 DEF DesiredInv, NewestStay, ResultsInv
<1>9. ResultsInOrder'
  <2> SUFFICES ASSUME NEW p \in 1..Len(ops), NEW q \in 1..Len(ops), NEW r \in Resource \ mixed,
                      BothDone(p, q, r)'
               PROVE  Behind(done, <<p, Home[r]>>, <<q, Home[r]>>)
    BY <1>1, <1>3 DEF ResultsInOrder
  <2>1. BothDone(p, q, r)
    BY <1>1, <1>3, <1>4 DEF BothDone
  <2> QED
    BY <2>1 DEF DesiredInv, ResultsInOrder
<1>10. HostInv'
  <2>1. \A r \in Resource : AppliedTo(r)' = AppliedTo(r)
    BY <1>1, <1>3, <1>4 DEF AppliedTo
  <2> QED
    BY <1>1, <1>3, <2>1, HostKeeps
<1> QED
  BY <1>5, <1>6, <1>7, <1>8, <1>9, <1>10 DEF DesiredInv

\* Somebody changes a resource: its history is given up on.
LEMMA TamperStep ==
  ASSUME DesiredInv, NEW r \in Resource, Tampered(r)
  PROVE  DesiredInv'
<1>1. /\ onHost' = [onHost EXCEPT ![r] = 0] /\ mixed' = mixed \union {r}
      /\ UNCHANGED <<ops, stored, task, done, before>>
  BY DEF Tampered
<1>2. DesiredTypes'
  BY <1>1 DEF DesiredInv, DesiredTypes
<1>3. DispatchInv' /\ NewestStay' /\ ResultsInv'
  BY <1>1 DEF DesiredInv, DispatchInv, NewestStay, ResultsInv, Undecided
<1>4. WholeOrPruned'
  BY <1>1 DEF DesiredInv, WholeOrPruned, LaterOps, OpsOf, Touched
<1>5. ResultsInOrder'
  BY <1>1 DEF DesiredInv, ResultsInOrder, BothDone
<1>6. HostInv'
  <2>1. \A x \in Resource : AppliedTo(x)' = AppliedTo(x)
    BY <1>1 DEF AppliedTo
  <2>2. \A x \in Resource \ mixed' : onHost'[x] = onHost[x]
    BY <1>1 DEF DesiredInv, DesiredTypes
  <2> QED
    BY <1>1, <2>1, <2>2, HostKeeps
<1> QED
  BY <1>2, <1>3, <1>4, <1>5, <1>6 DEF DesiredInv

\* The row that goes has Cap newer ones, and so have the older ones of its
\* resource: the newest stay, and an operation that waits loses a row only to
\* Cap later operations.
LEMMA PruneRowsStep ==
  ASSUME DesiredInv, prune_desired_states_per_resource
  PROVE  DesiredInv'
<1>1. stored' = stored \ PastCap /\ UNCHANGED <<ops, task, done, onHost, before, mixed>>
  BY DEF prune_desired_states_per_resource
<1>2. \A o \in 1..Len(ops), r \in Resource :
        <<o, r>> \in stored' <=> <<o, r>> \in stored /\ ~(Cardinality(NewerRows(o, r)) >= Cap)
  BY <1>1 DEF PastCap, NewerRows
<1>3. DesiredTypes'
  BY <1>1 DEF DesiredInv, DesiredTypes
<1>4. DispatchInv' /\ ResultsInv'
  BY <1>1 DEF DesiredInv, DispatchInv, ResultsInv, Undecided
<1>5. WholeOrPruned'
  <2> SUFFICES ASSUME NEW q \in 1..Len(ops), ops[q].status # "rejected", NEW r \in ops[q].res
               PROVE  \/ r \in ops[q].payload
                      \/ ops[q].status = "pending_approval" /\ <<q, r>> \in stored'
                      \/ Cardinality(LaterOps(q, r)) >= Cap
    BY <1>1 DEF WholeOrPruned, LaterOps, OpsOf, Touched
  <2>1. r \in Resource
    BY RowTypes DEF DesiredInv
  <2>2. Cardinality(NewerRows(q, r)) >= Cap => Cardinality(LaterOps(q, r)) >= Cap
    <3>1. /\ Cardinality(NewerRows(q, r)) \in Nat
          /\ Cardinality(NewerRows(q, r)) <= Cardinality(LaterOps(q, r))
          /\ Cardinality(LaterOps(q, r)) \in Nat /\ Cap \in Nat
      BY NewerRowsCount, OpsOfFinite, DesiredAssumption DEF DesiredInv
    <3> QED
      BY <3>1
  <2> QED
    BY <1>2, <2>1, <2>2 DEF DesiredInv, WholeOrPruned
<1>6. NewestStay'
  <2> SUFFICES ASSUME NEW p \in 1..Len(ops), NEW o \in 1..Len(ops), NEW r \in Resource,
                      <<p, r>> \in stored', p < o, r \in ops[o].res
               PROVE  <<o, r>> \in stored'
    BY <1>1 DEF NewestStay
  <2>1. <<o, r>> \in stored /\ ~(Cardinality(NewerRows(p, r)) >= Cap)
    BY <1>2 DEF DesiredInv, NewestStay
  <2>2. NewerRows(o, r) \in SUBSET NewerRows(p, r)
    BY DEF NewerRows, DesiredInv, DesiredTypes
  <2>3. IsFiniteSet(NewerRows(p, r)) /\ Cardinality(NewerRows(p, r)) \in Nat
        /\ Cardinality(NewerRows(o, r)) \in Nat /\ Cap \in Nat
    BY NewerRowsCount, DesiredAssumption DEF DesiredInv
  <2>4. Cardinality(NewerRows(o, r)) <= Cardinality(NewerRows(p, r))
    BY <2>2, <2>3, FS_Subset
  <2>5. ~(Cardinality(NewerRows(o, r)) >= Cap)
    BY <2>1, <2>3, <2>4
  <2> QED
    BY <1>2, <2>1, <2>5
<1>7. ResultsInOrder'
  BY <1>1 DEF DesiredInv, ResultsInOrder, BothDone
<1>8. HostInv'
  <2>1. \A x \in Resource : AppliedTo(x)' = AppliedTo(x)
    BY <1>1 DEF AppliedTo
  <2> QED
    BY <1>1, <2>1, HostKeeps
<1> QED
  BY <1>3, <1>4, <1>5, <1>6, <1>7, <1>8 DEF DesiredInv

\* The oldest result goes, and leaves the order of the others.
LEMMA PruneResultStep ==
  ASSUME DesiredInv, PruneAssignment
  PROVE  DesiredInv'
<1>1. done # <<>> /\ done' = Tail(done) /\ UNCHANGED <<ops, stored, task, onHost, before, mixed>>
  BY DEF PruneAssignment
<1>2. /\ done' \in Seq((1..Len(ops)) \X Agent) /\ Len(done') = Len(done) - 1 /\ Len(done) \in Nat
      /\ \A i \in 1..Len(done') : done'[i] = done[i + 1] /\ i + 1 \in 1..Len(done)
  BY <1>1 DEF DesiredInv, DesiredTypes
<1>3. DesiredTypes'
  BY <1>1, <1>2 DEF DesiredInv, DesiredTypes
<1>4. DispatchInv' /\ NewestStay'
  BY <1>1 DEF DesiredInv, DispatchInv, NewestStay, Undecided
<1>5. ResultsInv'
  BY <1>1, <1>2 DEF DesiredInv, ResultsInv
<1>6. WholeOrPruned'
  BY <1>1 DEF DesiredInv, WholeOrPruned, LaterOps, OpsOf, Touched
<1>7. \A x, y : Behind(done, x, y) => Behind(done', x, y)
  <2> SUFFICES ASSUME NEW x, NEW y, Behind(done, x, y), NEW i \in 1..Len(done'), done'[i] = x
               PROVE  \E j \in 1..Len(done') : i < j /\ done'[j] = y
    BY DEF Behind
  <2>1. PICK j \in 1..Len(done) : i + 1 < j /\ done[j] = y
    BY <1>2 DEF Behind
  <2>2. j - 1 \in 1..Len(done') /\ i < j - 1 /\ (j - 1) + 1 = j
    BY <1>2, <2>1
  <2> QED
    BY <1>2, <2>1, <2>2
<1>8. ResultsInOrder'
  BY <1>1, <1>7 DEF DesiredInv, ResultsInOrder, BothDone
<1>9. HostInv'
  <2>1. \A x \in Resource : AppliedTo(x)' = AppliedTo(x)
    BY <1>1 DEF AppliedTo
  <2> QED
    BY <1>1, <2>1, HostKeeps
<1> QED
  BY <1>3, <1>4, <1>5, <1>6, <1>8, <1>9 DEF DesiredInv

\* What a result and a failure have in common: the assignment had been
\* dispatched, so the operation is approved; only assignments without a result
\* change.
LEMMA ReportStep ==
  ASSUME DesiredInv, NEW o \in 1..Len(ops), NEW a \in Agent, task[o][a] = "pending",
         NEW t \in [Agent -> TaskStatus], t[a] \in {"succeeded", "failed"},
         \A b \in Agent : task[o][b] # "pending" => t[b] = task[o][b],
         \A b \in Agent : t[b] = "absent" => task[o][b] = "absent",
         task' = [task EXCEPT ![o] = t],
         ops' = [ops EXCEPT ![o].status = RolledUp(o, t)],
         done' = Append(done, <<o, a>>), stored' = stored
  PROVE  /\ ops' \in Seq(OpRow) /\ Len(ops') = Len(ops)
         /\ \A q \in 1..Len(ops) : /\ ops'[q].res = ops[q].res /\ ops'[q].spec = ops[q].spec
                                   /\ ops'[q].payload = ops[q].payload
         /\ task' \in Seq([Agent -> TaskStatus]) /\ Len(task') = Len(ops) /\ task'[o] = t
         /\ \A q \in 1..Len(ops) : q # o => task'[q] = task[q]
         /\ done' \in Seq((1..Len(ops)) \X Agent) /\ Len(done') = Len(done) + 1
         /\ \A i \in 1..Len(done) : done'[i] = done[i]
         /\ done'[Len(done) + 1] = <<o, a>>
         /\ DispatchInv' /\ WholeOrPruned' /\ NewestStay' /\ ResultsInv'
<1>1. PICK st : st = RolledUp(o, t)
  OBVIOUS
<1>2. ~Undecided(o)
  BY DEF DesiredInv, DispatchInv
<1>3. st \in {ops[o].status} \union Finished
  BY <1>1 DEF RolledUp, Finished
<1>4. st \in OpStatus /\ st \notin {"pending_approval", "rejected"}
  <2>1. ops[o].status \in OpStatus
    BY RowTypes DEF DesiredInv
  <2> QED
    BY <1>2, <1>3, <2>1 DEF OpStatus, Finished, Undecided
<1>5. ops[o].payload \in SUBSET Resource
  BY RowTypes DEF DesiredInv
<1>6. /\ ops' \in Seq(OpRow) /\ Len(ops') = Len(ops) /\ DOMAIN ops' = DOMAIN ops
      /\ ops'[o].status = st /\ ops'[o].payload = ops[o].payload
      /\ \A q \in 1..Len(ops) : /\ ops'[q].res = ops[q].res /\ ops'[q].spec = ops[q].spec
                                /\ q # o => ops'[q] = ops[q]
  <2>1. ops' = [ops EXCEPT ![o].status = st]
    BY <1>1
  <2> QED
    BY <1>4, <1>5, <2>1, RowChanged DEF DesiredInv
<1>7. \A q \in 1..Len(ops) : /\ ops'[q].payload = ops[q].payload
                             /\ ops'[q].status = "rejected" <=> ops[q].status = "rejected"
                             /\ ops'[q].status = "pending_approval"
                                  <=> ops[q].status = "pending_approval"
  BY <1>2, <1>4, <1>6 DEF Undecided
<1>8. /\ task' \in Seq([Agent -> TaskStatus]) /\ Len(task') = Len(ops) /\ task'[o] = t
      /\ \A q \in 1..Len(ops) : q # o => task'[q] = task[q]
  BY Replaced DEF DesiredInv, DesiredTypes
<1>9. /\ done' \in Seq((1..Len(ops)) \X Agent) /\ Len(done') = Len(done) + 1
      /\ \A i \in 1..Len(done) : done'[i] = done[i]
      /\ done'[Len(done) + 1] = <<o, a>>
      /\ 1..Len(done') = 1..Len(done) \union {Len(done) + 1}
  BY Appended DEF DesiredInv, DesiredTypes
<1>10. DispatchInv'
  <2> SUFFICES ASSUME NEW q \in 1..Len(ops)
               PROVE  /\ Undecided(q)' => /\ ops'[q].payload = {}
                                          /\ \A b \in Agent : task'[q][b] = "absent"
                      /\ \A r \in ops'[q].payload : task'[q][Home[r]] # "absent"
                      /\ ~Undecided(q)' => \A r \in Resource : <<q, r>> \in stored
                                                                => r \in ops'[q].payload
    BY <1>6 DEF DispatchInv
  <2>1. Undecided(q)' <=> Undecided(q)
    BY <1>7 DEF Undecided
  <2>2. Undecided(q) => task'[q] = task[q]
    BY <1>2, <1>8
  <2>3. \A r \in ops[q].payload : task'[q][Home[r]] # "absent"
    <3> SUFFICES ASSUME NEW r \in ops[q].payload PROVE task'[q][Home[r]] # "absent"
      OBVIOUS
    <3>1. task[q][Home[r]] # "absent" /\ Home[r] \in Agent
      BY RowTypes, DesiredAssumption DEF DesiredInv, DispatchInv
    <3> QED
      BY <1>8, <3>1
  <2> QED
    BY <1>7, <2>1, <2>2, <2>3 DEF DesiredInv, DispatchInv
<1>11. WholeOrPruned'
  <2> SUFFICES ASSUME NEW q \in 1..Len(ops), ops'[q].status # "rejected", NEW r \in ops'[q].res
               PROVE  \/ r \in ops'[q].payload
                      \/ ops'[q].status = "pending_approval" /\ <<q, r>> \in stored
                      \/ Cardinality(LaterOps(q, r)') >= Cap
    BY <1>6 DEF WholeOrPruned
  <2>1. LaterOps(q, r)' = LaterOps(q, r)
    BY <1>6, LaterOpsKept DEF DesiredInv
  <2> QED
    BY <1>6, <1>7, <2>1 DEF DesiredInv, WholeOrPruned
<1>12. NewestStay'
  BY <1>6 DEF DesiredInv, NewestStay
<1>13. ResultsInv'
  <2> SUFFICES ASSUME NEW i \in 1..Len(done')
               PROVE  task'[done'[i][1]][done'[i][2]] \in {"succeeded", "failed"}
    BY DEF ResultsInv
  <2>1. CASE i = Len(done) + 1
    BY <1>8, <1>9, <2>1
  <2>2. CASE i \in 1..Len(done)
    <3>1. done'[i] = done[i] /\ done[i][1] \in 1..Len(ops) /\ done[i][2] \in Agent
      BY <1>9, <2>2 DEF DesiredInv, DesiredTypes
    <3>2. task[done[i][1]][done[i][2]] \in {"succeeded", "failed"}
      BY <2>2 DEF DesiredInv, ResultsInv
    <3> QED
      BY <1>8, <3>1, <3>2
  <2> QED
    BY <1>9, <2>1, <2>2
<1> QED
  BY <1>6, <1>7, <1>8, <1>9, <1>10, <1>11, <1>12, <1>13

LEMMA ReportTypes ==
  ASSUME DesiredInv, ops' \in Seq(OpRow), Len(ops') = Len(ops),
         \A q \in 1..Len(ops) : /\ ops'[q].res = ops[q].res /\ ops'[q].spec = ops[q].spec
                                /\ ops'[q].payload = ops[q].payload,
         task' \in Seq([Agent -> TaskStatus]), Len(task') = Len(ops),
         done' \in Seq((1..Len(ops)) \X Agent), stored' = stored,
         before' \in Seq(Specs), Len(before') = Len(ops),
         \A q \in 1..Len(ops) : before'[q] \in [ops[q].res -> Nat],
         onHost' \in [Resource -> Nat], mixed' \in SUBSET Resource
  PROVE  DesiredTypes'
BY DEF DesiredInv, DesiredTypes

\* A failure brings nothing to a host.
LEMMA FailedStep ==
  ASSUME DesiredInv, NEW o \in 1..Len(ops), NEW a \in Agent, Failed(o, a)
  PROVE  DesiredInv'
<1>1. PICK t :
             /\ \E later \in SUBSET {b \in Agent \ {a} : task[o][b] = "pending"} :
                  t = [b \in Agent |-> IF b = a THEN "failed"
                                       ELSE IF b \in later THEN "cancelled" ELSE task[o][b]]
             /\ task[o][a] = "pending"
             /\ task' = [task EXCEPT ![o] = t]
             /\ ops' = [ops EXCEPT ![o].status = RolledUp(o, t)]
             /\ done' = Append(done, <<o, a>>)
             /\ UNCHANGED <<stored, onHost, before, mixed>>
  BY Zenon DEF Failed
<1>2. /\ t \in [Agent -> TaskStatus] /\ t[a] = "failed"
      /\ \A b \in Agent : /\ task[o][b] # "pending" => t[b] = task[o][b]
                          /\ t[b] = "absent" => task[o][b] = "absent"
                          /\ t[b] = "succeeded" <=> task[o][b] = "succeeded"
  <2>1. \A b \in Agent : task[o][b] \in TaskStatus
    BY RowTypes DEF DesiredInv
  <2> QED
    BY <1>1, <2>1 DEF TaskStatus
<1>3. /\ ops' \in Seq(OpRow) /\ Len(ops') = Len(ops)
      /\ \A q \in 1..Len(ops) : /\ ops'[q].res = ops[q].res /\ ops'[q].spec = ops[q].spec
                                /\ ops'[q].payload = ops[q].payload
      /\ task' \in Seq([Agent -> TaskStatus]) /\ Len(task') = Len(ops) /\ task'[o] = t
      /\ \A q \in 1..Len(ops) : q # o => task'[q] = task[q]
      /\ done' \in Seq((1..Len(ops)) \X Agent) /\ Len(done') = Len(done) + 1
      /\ \A i \in 1..Len(done) : done'[i] = done[i]
      /\ done'[Len(done) + 1] = <<o, a>>
      /\ DispatchInv' /\ WholeOrPruned' /\ NewestStay' /\ ResultsInv'
  <2>1. /\ task[o][a] = "pending" /\ task' = [task EXCEPT ![o] = t] /\ stored' = stored
        /\ ops' = [ops EXCEPT ![o].status = RolledUp(o, t)] /\ done' = Append(done, <<o, a>>)
    BY <1>1
  <2>2. /\ \A b \in Agent : task[o][b] # "pending" => t[b] = task[o][b]
        /\ \A b \in Agent : t[b] = "absent" => task[o][b] = "absent"
    BY <1>2
  <2> QED
    BY <1>2, <2>1, <2>2, ReportStep, Zenon
<1>4. DesiredTypes'
  BY <1>1, <1>3, ReportTypes DEF DesiredInv, DesiredTypes
<1>5. \A q \in 1..Len(ops), b \in Agent : task'[q][b] = "succeeded" <=> task[q][b] = "succeeded"
  BY <1>2, <1>3
<1>6. \A r \in Resource : Home[r] \in Agent
  BY DesiredAssumption
<1>7. ResultsInOrder'
  <2>1. Len(done) \in Nat
    BY DEF DesiredInv, DesiredTypes
  <2>2. 1..Len(done') = 1..Len(done) \union {Len(done) + 1}
    BY <1>3, <2>1
  <2> SUFFICES ASSUME NEW p \in 1..Len(ops), NEW q \in 1..Len(ops), NEW r \in Resource \ mixed,
                      BothDone(p, q, r)'
               PROVE  Behind(done', <<p, Home[r]>>, <<q, Home[r]>>)
    BY <1>1, <1>3 DEF ResultsInOrder
  <2>3. Behind(done, <<p, Home[r]>>, <<q, Home[r]>>)
    <3>1. BothDone(p, q, r)
      BY <1>3, <1>5, <1>6 DEF BothDone
    <3> QED
      BY <3>1 DEF DesiredInv, ResultsInOrder
  <2>4. done'[Len(done) + 1] # <<p, Home[r]>>
    BY <1>2, <1>3 DEF BothDone
  <2> SUFFICES ASSUME NEW i \in 1..Len(done'), done'[i] = <<p, Home[r]>>
               PROVE  \E j \in 1..Len(done') : i < j /\ done'[j] = <<q, Home[r]>>
    BY DEF Behind
  <2>5. i \in 1..Len(done) /\ done[i] = <<p, Home[r]>>
    BY <1>3, <2>2, <2>4
  <2>6. PICK j \in 1..Len(done) : i < j /\ done[j] = <<q, Home[r]>>
    BY <2>3, <2>5 DEF Behind
  <2> QED
    BY <1>3, <2>2, <2>6
<1>8. HostInv'
  <2>1. \A r \in Resource : AppliedTo(r)' = AppliedTo(r)
    BY <1>3, <1>5, <1>6, RowTypes DEF AppliedTo, DesiredInv
  <2> QED
    BY <1>1, <1>3, <2>1, HostKeeps
<1> QED
  BY <1>3, <1>4, <1>7, <1>8 DEF DesiredInv

\* What is applied becomes the last of its resource, or the resource is mixed.
LEMMA AppliedStep ==
  ASSUME DesiredInv, NEW o \in 1..Len(ops), NEW a \in Agent, Applied(o, a)
  PROVE  DesiredInv'
<1>1. PICK mine : mine = {r \in ops[o].payload : Home[r] = a}
  OBVIOUS
<1>2. PICK t : t = [task[o] EXCEPT ![a] = "succeeded"]
  OBVIOUS
<1>3. PICK late : late = {r \in mine : \E p \in OpsOf(r) : p > o /\ task[p][a] = "succeeded"}
  OBVIOUS
<1>4. PICK was : was = [r \in Touched(o) |-> IF r \in mine THEN onHost[r] ELSE before[o][r]]
  OBVIOUS
<1>5. /\ task[o][a] = "pending"
      /\ task' = [task EXCEPT ![o] = t]
      /\ ops' = [ops EXCEPT ![o].status = RolledUp(o, t)]
      /\ onHost' = [r \in Resource |-> IF r \in mine THEN ops[o].spec[r] ELSE onHost[r]]
      /\ mixed' = mixed \union late
      /\ done' = Append(done, <<o, a>>)
      /\ stored' = stored
  BY <1>1, <1>2, <1>3, Zenon DEF Applied
<1>6. before' = [before EXCEPT ![o] = was]
  BY <1>1, <1>4 DEF Applied
<1>7. /\ t \in [Agent -> TaskStatus] /\ t[a] = "succeeded"
      /\ \A b \in Agent : b # a => t[b] = task[o][b]
  <2>1. task[o] \in [Agent -> TaskStatus]
    BY RowTypes DEF DesiredInv
  <2> QED
    BY <1>2, <2>1 DEF TaskStatus
<1>8. /\ ops' \in Seq(OpRow) /\ Len(ops') = Len(ops)
      /\ \A q \in 1..Len(ops) : /\ ops'[q].res = ops[q].res /\ ops'[q].spec = ops[q].spec
                                /\ ops'[q].payload = ops[q].payload
      /\ task' \in Seq([Agent -> TaskStatus]) /\ Len(task') = Len(ops) /\ task'[o] = t
      /\ \A q \in 1..Len(ops) : q # o => task'[q] = task[q]
      /\ done' \in Seq((1..Len(ops)) \X Agent) /\ Len(done') = Len(done) + 1
      /\ \A i \in 1..Len(done) : done'[i] = done[i]
      /\ done'[Len(done) + 1] = <<o, a>>
      /\ DispatchInv' /\ WholeOrPruned' /\ NewestStay' /\ ResultsInv'
  <2>1. t[a] \in {"succeeded", "failed"}
    BY <1>7
  <2>2. /\ \A b \in Agent : task[o][b] # "pending" => t[b] = task[o][b]
        /\ \A b \in Agent : t[b] = "absent" => task[o][b] = "absent"
    BY <1>5, <1>7
  <2> QED
    BY <1>5, <1>7, <2>1, <2>2, ReportStep, Zenon
<1>9. mine \subseteq Resource /\ mine \subseteq ops[o].res /\ ops[o].spec \in [ops[o].res -> Nat]
      /\ before[o] \in [ops[o].res -> Nat]
  BY <1>1, RowTypes DEF DesiredInv, DesiredTypes
<1>10. onHost' \in [Resource -> Nat] /\ \A r \in Resource : onHost[r] \in Nat
  BY <1>5, <1>9 DEF DesiredInv, DesiredTypes
<1>11. /\ before' \in Seq(Specs) /\ Len(before') = Len(ops) /\ before'[o] = was
       /\ \A q \in 1..Len(ops) : q # o => before'[q] = before[q]
       /\ was \in [ops[o].res -> Nat]
  <2>1. was \in [ops[o].res -> Nat]
    BY <1>4, <1>9, <1>10 DEF Touched
  <2>2. was \in Specs
    BY <2>1, RowTypes DEF Specs, DesiredInv
  <2> QED
    BY <1>6, <2>1, <2>2, Replaced DEF DesiredInv, DesiredTypes
<1>12. DesiredTypes'
  <2>1. mixed' \in SUBSET Resource
    BY <1>3, <1>5, <1>9 DEF DesiredInv, DesiredTypes
  <2>2. \A q \in 1..Len(ops) : before'[q] \in [ops[q].res -> Nat]
    BY <1>11 DEF DesiredInv, DesiredTypes
  <2> QED
    BY <1>5, <1>8, <1>10, <1>11, <2>1, <2>2, ReportTypes
<1>13. \A r \in Resource : Home[r] \in Agent
  BY DesiredAssumption
\* Later operations did not bring a resource of mine to their spec.
<1>14. \A r \in mine \ mixed', q \in 1..Len(ops) :
         r \in ops[q].res /\ task[q][a] = "succeeded" => q < o
  <2> SUFFICES ASSUME NEW r \in mine \ mixed', NEW q \in 1..Len(ops),
                      r \in ops[q].res, task[q][a] = "succeeded"
               PROVE  q < o
    OBVIOUS
  <2>1. q # o
    BY <1>5
  <2>2. ~(q > o)
    BY <1>3, <1>5, OpsDomain DEF OpsOf, Touched, DesiredInv
  <2> QED
    BY <2>1, <2>2
<1>15. ResultsInOrder'
  <2>1. Len(done) \in Nat
    BY DEF DesiredInv, DesiredTypes
  <2>2. 1..Len(done') = 1..Len(done) \union {Len(done) + 1}
    BY <1>8, <2>1
  <2> SUFFICES ASSUME NEW p \in 1..Len(ops), NEW q \in 1..Len(ops), NEW r \in Resource \ mixed',
                      BothDone(p, q, r)',
                      NEW i \in 1..Len(done'), done'[i] = <<p, Home[r]>>
               PROVE  \E j \in 1..Len(done') : i < j /\ done'[j] = <<q, Home[r]>>
    <3> SUFFICES ASSUME NEW p \in 1..Len(ops), NEW q \in 1..Len(ops), NEW r \in Resource \ mixed',
                        BothDone(p, q, r)'
                 PROVE  Behind(done', <<p, Home[r]>>, <<q, Home[r]>>)
      BY <1>8 DEF ResultsInOrder
    <3> QED
      BY DEF Behind
  <2>3. /\ p < q /\ r \in ops[p].payload /\ r \in ops[q].res
        /\ task'[p][Home[r]] = "succeeded" /\ task'[q][Home[r]] = "succeeded"
    BY <1>8 DEF BothDone
  <2>4. CASE q = o /\ Home[r] = a
    <3>1. p # o
      BY <2>3, <2>4
    <3>2. i \in 1..Len(done)
      BY <1>8, <2>2, <3>1
    <3>3. Len(done) + 1 \in 1..Len(done') /\ i < Len(done) + 1
      BY <2>1, <2>2, <3>2
    <3>4. done'[Len(done) + 1] = <<q, Home[r]>>
      BY <1>8, <2>4
    <3> QED
      BY <3>3, <3>4
  <2>5. CASE p = o /\ Home[r] = a
    <3>1. q # o /\ task[q][a] = "succeeded" /\ r \in mine
      BY <1>1, <1>8, <2>3, <2>5
    <3>2. q < o
      BY <1>14, <2>3, <3>1
    <3> QED
      BY <2>3, <2>5, <3>2
  <2>6. CASE Home[r] # a \/ (p # o /\ q # o)
    <3>1. /\ task[p][Home[r]] = "succeeded" /\ task[q][Home[r]] = "succeeded"
          /\ r \in Resource \ mixed
      BY <1>5, <1>7, <1>8, <1>13, <2>3, <2>6
    <3>2. BothDone(p, q, r)
      BY <2>3, <3>1 DEF BothDone
    <3>3. Behind(done, <<p, Home[r]>>, <<q, Home[r]>>)
      BY <3>1, <3>2 DEF DesiredInv, ResultsInOrder
    <3>4. i \in 1..Len(done) /\ done[i] = <<p, Home[r]>>
      BY <1>8, <2>2, <2>6
    <3>5. PICK j \in 1..Len(done) : i < j /\ done[j] = <<q, Home[r]>>
      BY <3>3, <3>4 DEF Behind
    <3> QED
      BY <1>8, <2>2, <3>5
  <2> QED
    BY <2>4, <2>5, <2>6
<1>16. ASSUME NEW r \in Resource \ mixed' PROVE AtLast(r)'
  <2>1. AtLast(r)
    BY <1>5 DEF DesiredInv, HostInv
  <2>2. CASE r \notin mine
    <3>1. AppliedTo(r)' = AppliedTo(r)
      <4>1. \A q \in 1..Len(ops) : r \in ops[q].payload =>
              (task'[q][Home[r]] = "succeeded" <=> task[q][Home[r]] = "succeeded")
        BY <1>1, <1>7, <1>8, <1>13, <2>2
      <4> QED
        BY <1>8, <4>1 DEF AppliedTo
    <3>2. onHost'[r] = onHost[r]
      BY <1>5, <2>2
    <3>3. \A q \in AppliedTo(r) : before'[q][r] = before[q][r]
      <4>1. \A q \in AppliedTo(r) : q \in 1..Len(ops) /\ r \in ops[q].res
        BY RowTypes DEF AppliedTo, DesiredInv
      <4> QED
        BY <1>4, <1>11, <2>2, <4>1 DEF Touched
    <3> QED
      BY <1>8, <2>1, <3>1, <3>2, <3>3, HostKeepsOne
  <2>3. CASE r \in mine
    <3>1. PICK A : A = AppliedTo(r)
      OBVIOUS
    <3>2. A \subseteq Nat /\ A \subseteq 1..Len(ops) /\ o \in Nat /\ \A q \in A : q < o
      <4>1. \A q \in A : q \in 1..Len(ops) /\ r \in ops[q].res /\ task[q][a] = "succeeded"
        BY <1>1, <2>3, <3>1, RowTypes DEF AppliedTo, DesiredInv
      <4> QED
        BY <1>14, <2>3, <4>1, OpsDomain DEF DesiredInv
    <3>3. AppliedTo(r)' = A \union {o}
      <4>1. r \in ops[o].payload /\ Home[r] = a /\ task'[o][a] = "succeeded"
        BY <1>1, <1>7, <1>8, <2>3
      <4> QED
        BY <1>8, <3>1, <4>1 DEF AppliedTo
    <3>4. onHost'[r] = ops[o].spec[r] /\ before'[o][r] = onHost[r]
      BY <1>4, <1>5, <1>9, <1>11, <2>3 DEF Touched
    <3>5. LastSpec(AppliedTo(r), r, onHost[r])'
      <4>1. \A q \in A \union {o} : q <= o
        BY <3>2
      <4>2. onHost'[r] = ops'[o].spec[r]
        BY <1>8, <3>4
      <4> QED
        BY <3>3, <4>1, <4>2 DEF LastSpec
    <3>6. LastSpec({p \in AppliedTo(r) : p < o}, r, before[o][r])'
      <4>1. {p \in A \union {o} : p < o} = A
        <5>1. ~(o < o)
          BY <3>2
        <5> QED
          BY <3>2, <5>1, Zenon
      <4>2. LastSpec(A, r, onHost[r])
        BY <2>1, <3>1 DEF AtLast
      <4> QED
        BY <1>8, <3>2, <3>3, <3>4, <4>1, <4>2 DEF LastSpec
    <3>7. ASSUME NEW q \in A PROVE LastSpec({p \in AppliedTo(r) : p < q}, r, before[q][r])'
      <4>1. PICK B : B = {p \in A : p < q}
        OBVIOUS
      <4>2. {p \in A \union {o} : p < q} = B
        BY <3>2, <4>1
      <4>3. LastSpec(B, r, before[q][r])
        BY <2>1, <3>1, <4>1 DEF AtLast
      <4>4. before'[q][r] = before[q][r]
        BY <1>11, <3>2
      <4> QED
        BY <1>8, <3>2, <3>3, <4>1, <4>2, <4>3, <4>4 DEF LastSpec
    <3> QED
      BY <3>3, <3>5, <3>6, <3>7 DEF AtLast
  <2> QED
    BY <2>2, <2>3
<1>17. HostInv'
  BY <1>16 DEF HostInv
<1> QED
  BY <1>8, <1>12, <1>15, <1>17 DEF DesiredInv

\* A revert and a rollback send out specs of stored rows.
LEMMA RevertStep ==
  ASSUME DesiredInv, NEW r \in Resource, revert_drift(r)
  PROVE  DesiredInv'
<1>1. PICK rows : rows = {o \in OpsOf(r) : <<o, r>> \in stored}
  OBVIOUS
<1>2. rows # {} /\ create_operation([x \in {r} |-> ops[Max(rows)].spec[r]], FALSE)
  BY <1>1, Zenon DEF revert_drift
<1>3. Max(rows) \in rows
  <2>1. rows \in SUBSET (1..Len(ops)) /\ Len(ops) \in Nat
    BY <1>1, OpsDomain DEF OpsOf, DesiredInv
  <2> QED
    BY <1>2, <2>1, Largest
<1>4. ops[Max(rows)].spec[r] \in Nat
  <2>1. PICK m \in 1..Len(ops) : m = Max(rows) /\ r \in ops[m].res
    BY <1>1, <1>3, OpsDomain DEF OpsOf, Touched, DesiredInv
  <2>2. ops[m].spec \in [ops[m].res -> Nat]
    BY DEF DesiredInv, DesiredTypes
  <2> QED
    BY <2>1, <2>2
<1>5. PICK v \in Nat : v = ops[Max(rows)].spec[r]
  BY <1>4
<1>6. [x \in {r} |-> v] \in [{r} -> Nat] /\ create_operation([x \in {r} |-> v], FALSE)
  BY <1>2, <1>5
<1>7. {r} \in SUBSET Resource /\ FALSE \in BOOLEAN
  OBVIOUS
<1> QED
  BY <1>6, <1>7, CreateStep

LEMMA PriorsLargest ==
  ASSUME DesiredTypes, NEW o \in 1..Len(ops), NEW r, Priors(o, r) # {}
  PROVE  /\ Max(Priors(o, r)) \in Priors(o, r) /\ Max(Priors(o, r)) \in 1..Len(ops)
         /\ r \in ops[Max(Priors(o, r))].res
         /\ \A p \in Priors(o, r) : p <= Max(Priors(o, r))
<1>1. Priors(o, r) \in SUBSET (1..Len(ops)) /\ Len(ops) \in Nat
  BY OpsDomain DEF Priors, OpsOf
<1>2. \A p \in Priors(o, r) : r \in ops[p].res
  BY DEF Priors, OpsOf, Touched
<1> QED
  BY <1>1, <1>2, Largest

LEMMA RollbackStep ==
  ASSUME DesiredInv, NEW o \in 1..Len(ops), NEW held \in BOOLEAN, rollback_op(o, held)
  PROVE  DesiredInv'
<1>1. PICK rs : rs = RolledBack(o)
  OBVIOUS
<1>2. PICK spec : spec = [r \in rs |-> PriorSpec(o, r)]
  OBVIOUS
<1>3. create_operation(spec, held)
  BY <1>1, <1>2 DEF rollback_op
<1>4. \A r \in rs : r \in ops[o].res /\ Priors(o, r) # {}
  BY <1>1 DEF RolledBack, Touched
<1>5. \A r \in rs : PriorSpec(o, r) \in Nat
  <2> SUFFICES ASSUME NEW r \in rs PROVE PriorSpec(o, r) \in Nat
    OBVIOUS
  <2>1. PICK m \in 1..Len(ops) : m = Max(Priors(o, r)) /\ r \in ops[m].res
    BY <1>4, PriorsLargest DEF DesiredInv
  <2>2. ops[m].spec \in [ops[m].res -> Nat]
    BY DEF DesiredInv, DesiredTypes
  <2> QED
    BY <2>1, <2>2 DEF PriorSpec
<1>6. rs \in SUBSET Resource /\ spec \in [rs -> Nat]
  BY <1>2, <1>4, <1>5, RowTypes DEF DesiredInv
<1> QED
  BY <1>3, <1>6, CreateStep

LEMMA SubmitStep ==
  ASSUME DesiredInv, NEW rs \in Bundles, NEW held \in BOOLEAN, submit(rs, held)
  PROVE  DesiredInv'
<1>1. PICK spec : spec = [r \in rs |-> Len(ops) + 1]
  OBVIOUS
<1>2. create_operation(spec, held)
  BY <1>1 DEF submit
<1>3. rs \in SUBSET Resource /\ spec \in [rs -> Nat]
  BY <1>1, OpsDomain, DesiredAssumption DEF DesiredInv
<1> QED
  BY <1>2, <1>3, CreateStep

LEMMA DesiredInvNext == DesiredInv /\ [DesiredNext]_desiredVars => DesiredInv'
<1> SUFFICES ASSUME DesiredInv, [DesiredNext]_desiredVars PROVE DesiredInv'
  OBVIOUS
<1>1. DOMAIN ops = 1..Len(ops)
  BY OpsDomain DEF DesiredInv
<1>2. ASSUME NEW rs \in Bundles, NEW held \in BOOLEAN, submit(rs, held) PROVE DesiredInv'
  BY <1>2, SubmitStep
<1>3. ASSUME NEW o \in DOMAIN ops, approve_operation(o) PROVE DesiredInv'
  BY <1>1, <1>3, ApproveStep
<1>4. ASSUME NEW o \in DOMAIN ops, reject_operation(o) PROVE DesiredInv'
  BY <1>1, <1>4, RejectStep
<1>5. ASSUME NEW o \in DOMAIN ops, NEW held \in BOOLEAN, rollback_op(o, held) PROVE DesiredInv'
  BY <1>1, <1>5, RollbackStep
<1>6. ASSUME NEW o \in DOMAIN ops, NEW a \in Agent, Applied(o, a) PROVE DesiredInv'
  BY <1>1, <1>6, AppliedStep
<1>7. ASSUME NEW o \in DOMAIN ops, NEW a \in Agent, Failed(o, a) PROVE DesiredInv'
  BY <1>1, <1>7, FailedStep
<1>8. ASSUME NEW r \in Resource, Tampered(r) PROVE DesiredInv'
  BY <1>8, TamperStep
<1>9. ASSUME NEW r \in Resource, revert_drift(r) PROVE DesiredInv'
  BY <1>9, RevertStep
<1>10. CASE prune_desired_states_per_resource
  BY <1>10, PruneRowsStep
<1>11. CASE PruneAssignment
  BY <1>11, PruneResultStep
<1>12. CASE UNCHANGED desiredVars
  <2>1. UNCHANGED <<ops, stored, task, done, onHost, before, mixed>>
    BY <1>12 DEF desiredVars
  <2>2. DesiredTypes' /\ DispatchInv' /\ WholeOrPruned' /\ NewestStay' /\ ResultsInv'
    BY <2>1 DEF DesiredInv, DesiredTypes, DispatchInv, WholeOrPruned, NewestStay, ResultsInv,
                Undecided, LaterOps, OpsOf, Touched
  <2>3. ResultsInOrder'
    BY <2>1 DEF DesiredInv, ResultsInOrder, BothDone
  <2>4. HostInv'
    <3>1. \A r \in Resource : AppliedTo(r)' = AppliedTo(r)
      BY <2>1 DEF AppliedTo
    <3> QED
      BY <2>1, <3>1, HostKeeps
  <2> QED
    BY <2>2, <2>3, <2>4 DEF DesiredInv
<1> QED
  BY <1>2, <1>3, <1>4, <1>5, <1>6, <1>7, <1>8, <1>9, <1>10, <1>11, <1>12, Zenon DEF DesiredNext

LEMMA DesiredInvCorrect == DesiredSpec => []DesiredInv
BY DesiredInvInit, DesiredInvNext, PTL DEF DesiredSpec

(***************************************************************************)
(* What it means                                                           *)
(***************************************************************************)

\* An approval dispatches all that was submitted, or retention had taken a row
\* for Cap later operations (approve_operation, prune_once).
THEOREM ApprovedInFullCorrect == DesiredSpec => []ApprovedInFull
<1>1. ASSUME DesiredInv PROVE ApprovedInFull
  <2> SUFFICES ASSUME NEW o \in DOMAIN ops, ops[o].status \in {"running"} \union Finished,
                      NEW r \in Touched(o)
               PROVE  \/ r \in ops[o].payload
                      \/ Cardinality({p \in OpsOf(r) : p > o}) >= Cap
    BY DEF ApprovedInFull
  <2>1. o \in 1..Len(ops)
    BY <1>1, OpsDomain DEF DesiredInv
  <2>2. ops[o].status \notin {"rejected", "pending_approval"}
    BY DEF Finished
  <2> QED
    BY <1>1, <2>1, <2>2 DEF DesiredInv, WholeOrPruned, LaterOps, Touched
<1> QED
  BY <1>1, DesiredInvCorrect, PTL

\* An agent watches only what was routed to it, and never goes back behind an
\* operation it applied in order, whatever retention deletes
\* (list_desired_state_for_agent, prune_once).
THEOREM WatchesItsOwnCorrect == DesiredSpec => []WatchesItsOwn
<1>1. ASSUME DesiredInv PROVE WatchesItsOwn
  <2> SUFFICES ASSUME NEW a \in Agent, NEW w \in list_desired_state_for_agent(a)
               PROVE  /\ Home[w[2]] = a
                      /\ \/ w[2] \in mixed
                         \/ task[w[1]][a] \in {"pending", "cancelled"}
                         \/ \A o \in OpsOf(w[2]) : task[o][a] = "succeeded" => o <= w[1]
    BY DEF WatchesItsOwn
  <2>1. w \in owned_pairs(a) /\ \A q \in owned_pairs(a) : q[2] = w[2] => q[1] <= w[1]
    BY DEF list_desired_state_for_agent
  <2>2. PICK n \in 1..Len(ops), r \in Resource : w = <<n, r>>
    BY <1>1, <2>1 DEF owned_pairs, DesiredInv, DesiredTypes
  <2>3. w[1] = n /\ w[2] = r
    BY <2>2
  <2>4. /\ <<n, r>> \in stored /\ Kept(n, a) /\ task[n][a] # "failed" /\ Home[r] = a
        /\ \A q \in owned_pairs(a) : q[2] = r => q[1] <= n
    BY <2>1, <2>2, <2>3 DEF owned_pairs
  <2> SUFFICES ASSUME r \notin mixed, task[n][a] \notin {"pending", "cancelled"},
                      NEW o \in OpsOf(r), task[o][a] = "succeeded"
               PROVE  o <= n
    BY <2>3, <2>4
  <2>5. o \in 1..Len(ops) /\ r \in ops[o].res /\ Len(ops) \in Nat
    BY <1>1, OpsDomain DEF OpsOf, Touched, DesiredInv
  <2>6. PICK i \in 1..Len(done) : done[i] = <<n, a>>
    <3>1. <<n, a>> \in Range(done) /\ DOMAIN done = 1..Len(done)
      BY <1>1, <2>4 DEF Kept, DesiredInv, DesiredTypes
    <3> QED
      BY <3>1 DEF Range
  <2>7. task[n][a] = "succeeded"
    BY <1>1, <2>4, <2>6 DEF DesiredInv, ResultsInv
  <2>8. r \in ops[n].payload
    BY <1>1, <2>4, <2>7 DEF DesiredInv, DispatchInv
  <2> SUFFICES ASSUME n < o PROVE FALSE
    BY <2>5
  <2>9. <<o, r>> \in stored
    BY <1>1, <2>4, <2>5 DEF DesiredInv, NewestStay
  <2>10. BothDone(n, o, r)
    BY <2>4, <2>5, <2>7, <2>8 DEF BothDone
  <2>11. Behind(done, <<n, Home[r]>>, <<o, Home[r]>>)
    BY <1>1, <2>5, <2>10 DEF DesiredInv, ResultsInOrder
  <2>12. PICK j \in 1..Len(done) : done[j] = <<o, a>>
    BY <2>4, <2>6, <2>11 DEF Behind
  <2>13. Kept(o, a)
    <3>1. DOMAIN done = 1..Len(done)
      BY <1>1 DEF DesiredInv, DesiredTypes
    <3> QED
      BY <2>12, <3>1 DEF Kept, Range
  <2>14. <<o, r>> \in owned_pairs(a)
    BY <2>4, <2>9, <2>13 DEF owned_pairs
  <2>15. o <= n
    BY <2>4, <2>14
  <2> QED
    BY <2>5, <2>15
<1> QED
  BY <1>1, DesiredInvCorrect, PTL

\* A rollback sends out what was on the host before the operation it undoes,
\* when every earlier operation that went to that host was applied there in
\* order and counts as applied (prepare_rollback).
THEOREM RollbackGoesBackCorrect == DesiredSpec => []RollbackGoesBack
<1>1. ASSUME DesiredInv PROVE RollbackGoesBack
  <2> SUFFICES ASSUME NEW o \in DOMAIN ops, ops[o].status \in Finished,
                      NEW r \in RolledBack(o) \ mixed,
                      task[o][Home[r]] = "succeeded",
                      \A p \in OpsOf(r) : p < o =>
                        \/ task[p][Home[r]] = "absent"
                        \/ /\ task[p][Home[r]] = "succeeded"
                           /\ ops[p].status \in {"succeeded", "partially_applied"}
               PROVE  PriorSpec(o, r) = before[o][r]
    BY DEF RollbackGoesBack
  <2>1. /\ o \in 1..Len(ops) /\ Len(ops) \in Nat /\ DOMAIN ops = 1..Len(ops)
        /\ r \in ops[o].res /\ <<o, r>> \in stored /\ Priors(o, r) # {}
    BY <1>1, OpsDomain DEF RolledBack, Touched, DesiredInv
  <2>2. r \in Resource \ mixed
    BY <1>1, <2>1, RowTypes DEF DesiredInv
  <2>3. \A p \in 1..Len(ops) : ops[p].status \in Finished => ~Undecided(p)
    BY DEF Finished, Undecided
  <2>4. o \in AppliedTo(r)
    BY <1>1, <2>1, <2>2, <2>3 DEF DesiredInv, DispatchInv, AppliedTo
  <2>5. PICK B : B = {p \in AppliedTo(r) : p < o}
    OBVIOUS
  <2>6. LastSpec(B, r, before[o][r])
    BY <1>1, <2>2, <2>4, <2>5 DEF DesiredInv, HostInv, AtLast
  <2>7. PICK m \in 1..Len(ops) : /\ m = Max(Priors(o, r)) /\ m \in Priors(o, r)
                                 /\ r \in ops[m].res
                                 /\ \A p \in Priors(o, r) : p <= m
    BY <1>1, <2>1, PriorsLargest DEF DesiredInv
  <2>8. /\ m < o /\ <<m, r>> \in stored /\ m \in OpsOf(r)
        /\ ops[m].status \in {"succeeded", "partially_applied"}
    BY <2>7 DEF Priors
  <2>9. r \in ops[m].payload /\ task[m][Home[r]] # "absent"
    BY <1>1, <2>2, <2>3, <2>8 DEF DesiredInv, DispatchInv, Finished
  <2>10. m \in B
    BY <2>5, <2>8, <2>9 DEF AppliedTo
  <2>11. PICK p \in B : before[o][r] = ops[p].spec[r] /\ \A q \in B : q <= p
    BY <2>6, <2>10 DEF LastSpec
  <2>12. /\ p \in 1..Len(ops) /\ p < o /\ r \in ops[p].res
         /\ task[p][Home[r]] = "succeeded" /\ m <= p
    BY <1>1, <2>5, <2>10, <2>11, RowTypes DEF AppliedTo, DesiredInv
  <2>13. p \in OpsOf(r)
    BY <2>1, <2>12 DEF OpsOf, Touched
  <2>14. <<p, r>> \in stored
    <3>1. m = p \/ m < p
      BY <2>12
    <3> QED
      BY <1>1, <2>2, <2>8, <2>12, <3>1 DEF DesiredInv, NewestStay
  <2>15. p \in Priors(o, r)
    BY <2>12, <2>13, <2>14 DEF Priors
  <2>16. p = m
    BY <2>7, <2>12, <2>15
  <2> QED
    BY <2>7, <2>11, <2>16 DEF PriorSpec
<1> QED
  BY <1>1, DesiredInvCorrect, PTL

(***************************************************************************)
(* Admission.                                                              *)
(*                                                                         *)
(* OneConfiguration follows from what each handler has found out: Found    *)
(* keeps its list and its policies those of the configuration it took.     *)
(* BudgetsHold counts: it needs that a bucket is what is left of all its   *)
(* charges (Forgets), that charges as many places apart as the cap allows  *)
(* are more than a minute apart (SpacedAt), and that every charge of a     *)
(* policy is with a handler, an operation or a failed creation             *)
(* (Accounted).                                                            *)
(***************************************************************************)
Lists == {<<>>} \union {Expansions[c][q].list : c \in DOMAIN Config, q \in DOMAIN Request}
HandlerRow ==
  [list : Lists, pc : {"budget", "open", "probed", "expanded", "evaluated", "admitted"},
   req : DOMAIN Request, cfg : Nat, matched : SUBSET PolicyName]
AdmittedRow ==
  [list : Lists, req : DOMAIN Request, cfg : Nat, matched : SUBSET PolicyName,
   status : {"pending_approval", "running", "rejected"}]

AdmissionTypes ==
  /\ live \in 1..Len(Config) /\ caps \in 1..Len(Config) /\ live <= caps /\ clock \in Nat
  /\ buckets \in [Bucket -> Seq(Nat)] /\ spent \in [Bucket -> Seq(Nat)]
  /\ handlers \in [Handler -> HandlerRow \union {Free}]
  /\ admitted \in Seq(AdmittedRow) /\ wasted \in Seq(SUBSET PolicyName)

\* a has the list and the policies of configuration a.cfg, which is or was live.
Expands(a) == a.cfg \in 1..live /\ a.list = Expansions[a.cfg][a.req].list
Answers(a) == a.matched = MatchedBy(a.cfg, a.req, a.list)

Found(f) ==
  /\ f.pc \in {"expanded", "evaluated", "admitted"} => Expands(f)
  /\ f.pc \in {"evaluated", "admitted"} => Answers(f)

FoundInv ==
  /\ \A h \in Handler : Found(handlers[h])
  /\ \A o \in 1..Len(admitted) : Expands(admitted[o]) /\ Answers(admitted[o])

\* The times ts are in order and past.
InTime(ts) ==
  /\ \A i \in 1..Len(ts) : ts[i] <= clock
  /\ \A i, j \in 1..Len(ts) : i <= j => ts[i] <= ts[j]

\* The bucket q has the times ts but the first d, which are over a minute old.
Forgets(q, ts, d) ==
  /\ Len(q) = Len(ts) - d
  /\ \A i \in 1..Len(q) : q[i] = ts[d + i]
  /\ \A i \in 1..d : ts[i] + Window < clock

SpacedAt(ts, i, k) == i > k => ts[i - k] + Window < ts[i]

BucketsInv ==
  \A b \in Bucket :
    /\ InTime(spent[b])
    /\ \E d \in 0..Len(spent[b]) : Forgets(buckets[b], spent[b], d)
    /\ \A i \in 1..Len(spent[b]) : \E k \in LimitsOf(b) : SpacedAt(spent[b], i, k)

Accounted ==
  \A b \in Bucket \ Environment :
    Len(spent[b]) = Cardinality(Holding(b)) + Cardinality(CountedIn(b)) + Cardinality(WastedOn(b))

AdmissionInv == AdmissionTypes /\ FoundInv /\ BucketsInv /\ Accounted

(***************************************************************************)
(* Buckets                                                                 *)
(***************************************************************************)

LEMMA LimitsType ==
  ASSUME live \in 1..Len(Config), caps \in 1..Len(Config), NEW b
  PROVE  LimitsOf(b) \subseteq Nat
BY AdmissionAssumption DEF LimitsOf

\* What is left of a bucket: its last entries, as many as are young enough.
LEMMA PrunedIs ==
  ASSUME clock \in Nat, NEW q \in Seq(Nat)
  PROVE  /\ Pruned(q) \in Seq(Nat)
         /\ \E n \in 0..Len(q) :
              /\ Len(Pruned(q)) = Len(q) - n
              /\ \A i \in 1..(Len(q) - n) : Pruned(q)[i] = q[n + i]
              /\ \A i \in 1..n : q[i] + Window < clock
<1>1. PICK S : S = {i \in DOMAIN q : q[i] + Window >= clock} \union {Len(q) + 1}
  OBVIOUS
<1>2. S \in SUBSET Nat /\ S # {} /\ Len(q) \in Nat /\ DOMAIN q = 1..Len(q)
  BY <1>1
<1>3. Min(S) \in S /\ \A i \in S : Min(S) <= i
  BY <1>2, Smallest
<1>4. PICK m \in Nat : m = Min(S)
  BY <1>2, <1>3
<1>5. m \in 1..(Len(q) + 1)
  BY <1>1, <1>2, <1>3, <1>4
<1>6. \A i \in 1..(m - 1) : q[i] + Window < clock
  <2> SUFFICES ASSUME NEW i \in 1..(m - 1) PROVE q[i] + Window < clock
    OBVIOUS
  <2>1. i \in 1..Len(q) /\ ~(m <= i)
    BY <1>2, <1>5
  <2>2. i \notin S
    BY <1>3, <1>4, <2>1
  <2>3. ~(q[i] + Window >= clock)
    BY <1>1, <1>2, <2>1, <2>2
  <2>4. q[i] \in Nat /\ Window \in Nat
    BY <2>1, AdmissionAssumption
  <2> QED
    BY <2>3, <2>4
<1>7. Pruned(q) = SubSeq(q, m, Len(q))
  BY <1>1, <1>4 DEF Pruned
<1>8. /\ SubSeq(q, m, Len(q)) \in Seq(Nat)
      /\ Len(SubSeq(q, m, Len(q))) = IF m <= Len(q) THEN Len(q) - m + 1 ELSE 0
      /\ \A i \in 1..(Len(q) - m + 1) : SubSeq(q, m, Len(q))[i] = q[m + i - 1]
  <2>1. \A i \in m..Len(q) : q[i] \in Nat
    BY <1>2, <1>5
  <2>2. m \in Int /\ Len(q) \in Int
    BY <1>2
  <2> QED
    BY <2>1, <2>2, SubSeqProperties
<1>9. m - 1 \in 0..Len(q) /\ Len(q) - m + 1 = Len(q) - (m - 1)
      /\ \A i \in 1..(Len(q) - (m - 1)) : m + i - 1 = (m - 1) + i
  BY <1>2, <1>5
<1>10. Len(Pruned(q)) = Len(q) - (m - 1)
  BY <1>2, <1>5, <1>7, <1>8
<1>11. \A i \in 1..(Len(q) - (m - 1)) : Pruned(q)[i] = q[(m - 1) + i]
  BY <1>7, <1>8, <1>9
<1> QED
  BY <1>6, <1>7, <1>8, <1>9, <1>10, <1>11

\* A charge under the cap k: the k places before it reach back into what was
\* forgotten.
LEMMA ChargedBucket ==
  ASSUME clock \in Nat, NEW q \in Seq(Nat), NEW ts \in Seq(Nat), NEW d \in 0..Len(ts),
         Forgets(q, ts, d), InTime(ts), NEW k \in Nat, Len(Pruned(q)) < k,
         NEW q2, q2 = Append(Pruned(q), clock), NEW ts2, ts2 = Append(ts, clock)
  PROVE  /\ q2 \in Seq(Nat) /\ ts2 \in Seq(Nat) /\ Len(ts2) = Len(ts) + 1
         /\ InTime(ts2)
         /\ \E e \in 0..Len(ts2) : Forgets(q2, ts2, e)
         /\ SpacedAt(ts2, Len(ts) + 1, k)
         /\ \A i \in 1..Len(ts), j \in Nat : SpacedAt(ts, i, j) => SpacedAt(ts2, i, j)
<1>1. PICK p \in Seq(Nat) : p = Pruned(q)
  BY PrunedIs
<1>2. PICK n \in 0..Len(q) : /\ Len(p) = Len(q) - n
                             /\ \A i \in 1..(Len(q) - n) : p[i] = q[n + i]
                             /\ \A i \in 1..n : q[i] + Window < clock
  BY <1>1, PrunedIs
<1>3. /\ Len(q) = Len(ts) - d /\ \A i \in 1..Len(q) : q[i] = ts[d + i]
  BY DEF Forgets
<1>4. \A i \in 1..d : ts[i] + Window < clock
  BY DEF Forgets
<1>5. Len(q) \in Nat /\ Len(ts) \in Nat /\ Len(p) \in Nat
  OBVIOUS
<1>6. /\ ts2 \in Seq(Nat) /\ Len(ts2) = Len(ts) + 1 /\ ts2[Len(ts) + 1] = clock
      /\ \A i \in 1..Len(ts) : ts2[i] = ts[i]
  OBVIOUS
<1>7. /\ q2 \in Seq(Nat) /\ Len(q2) = Len(p) + 1 /\ q2[Len(p) + 1] = clock
      /\ \A i \in 1..Len(p) : q2[i] = p[i]
  BY <1>1
<1>8. PICK e \in Nat : e = d + n
  BY <1>2
<1>9. e \in 0..Len(ts) /\ Len(p) = Len(ts) - e
  BY <1>2, <1>3, <1>5, <1>8
<1>10. \A i \in 1..e : ts[i] + Window < clock
  <2> SUFFICES ASSUME NEW i \in 1..e PROVE ts[i] + Window < clock
    OBVIOUS
  <2>1. CASE i <= d
    BY <1>4, <2>1
  <2>2. CASE i > d
    <3>1. i - d \in 1..n /\ i - d \in 1..Len(q) /\ d + (i - d) = i
      BY <1>2, <1>5, <1>8, <2>2
    <3> QED
      BY <1>2, <1>3, <3>1
  <2> QED
    BY <2>1, <2>2
<1>11. \A i \in 1..Len(p) : q2[i] = ts[e + i] /\ e + i \in 1..Len(ts)
  <2> SUFFICES ASSUME NEW i \in 1..Len(p) PROVE q2[i] = ts[e + i] /\ e + i \in 1..Len(ts)
    OBVIOUS
  <2>1. i \in 1..(Len(q) - n) /\ n + i \in 1..Len(q) /\ d + (n + i) = e + i
    BY <1>2, <1>5, <1>8
  <2>2. e + i \in 1..Len(ts)
    BY <1>5, <1>9
  <2> QED
    BY <1>2, <1>3, <1>7, <2>1, <2>2
<1>12. Forgets(q2, ts2, e)
  <2>1. Len(q2) = Len(ts2) - e
    BY <1>5, <1>6, <1>7, <1>9
  <2>2. ASSUME NEW i \in 1..Len(q2) PROVE q2[i] = ts2[e + i]
    <3>1. CASE i \in 1..Len(p)
      BY <1>6, <1>11, <3>1
    <3>2. CASE i = Len(p) + 1
      <4>1. e + i = Len(ts) + 1
        BY <1>5, <1>9, <3>2
      <4> QED
        BY <1>6, <1>7, <3>2, <4>1
    <3>3. 1..Len(q2) = 1..Len(p) \union {Len(p) + 1}
      BY <1>5, <1>7
    <3> QED
      BY <3>1, <3>2, <3>3
  <2>3. \A i \in 1..e : ts2[i] + Window < clock
    BY <1>5, <1>6, <1>9, <1>10
  <2> QED
    BY <2>1, <2>2, <2>3 DEF Forgets
<1>13. InTime(ts2)
  <2>1. \A i \in 1..Len(ts) : ts[i] <= clock
    BY DEF InTime
  <2>2. \A i, j \in 1..Len(ts) : i <= j => ts[i] <= ts[j]
    BY DEF InTime
  <2>3. 1..Len(ts2) = 1..Len(ts) \union {Len(ts) + 1}
    BY <1>5, <1>6
  <2>4. \A i \in 1..Len(ts2) : ts2[i] <= clock
    BY <1>6, <2>1, <2>3
  <2>5. ASSUME NEW i \in 1..Len(ts2), NEW j \in 1..Len(ts2), i <= j PROVE ts2[i] <= ts2[j]
    <3>1. CASE j = Len(ts) + 1
      BY <1>6, <2>4, <3>1
    <3>2. CASE j \in 1..Len(ts)
      <4>1. i \in 1..Len(ts)
        BY <1>5, <2>5, <3>2
      <4> QED
        BY <1>6, <2>2, <2>5, <3>2, <4>1
    <3> QED
      BY <2>3, <3>1, <3>2
  <2> QED
    BY <2>4, <2>5 DEF InTime
<1>14. SpacedAt(ts2, Len(ts) + 1, k)
  <2> SUFFICES ASSUME Len(ts) + 1 > k
               PROVE  ts2[(Len(ts) + 1) - k] + Window < ts2[Len(ts) + 1]
    BY DEF SpacedAt
  <2>1. (Len(ts) + 1) - k \in 1..e /\ (Len(ts) + 1) - k \in 1..Len(ts)
    BY <1>1, <1>5, <1>9
  <2> QED
    BY <1>6, <1>10, <2>1
<1>15. \A i \in 1..Len(ts), j \in Nat : SpacedAt(ts, i, j) => SpacedAt(ts2, i, j)
  <2> SUFFICES ASSUME NEW i \in 1..Len(ts), NEW j \in Nat, SpacedAt(ts, i, j), i > j
               PROVE  ts2[i - j] + Window < ts2[i]
    BY DEF SpacedAt
  <2>1. i - j \in 1..Len(ts)
    BY <1>5
  <2> QED
    BY <1>6, <2>1 DEF SpacedAt
<1>16. e \in 0..Len(ts2)
  BY <1>5, <1>6, <1>9
<1> QED
  BY <1>6, <1>7, <1>12, <1>13, <1>14, <1>15, <1>16

\* The buckets bs are charged, each below a cap it has had.
LEMMA ChargeStep ==
  ASSUME AdmissionTypes, BucketsInv, NEW bs \in SUBSET Bucket, Charge(bs),
         UNCHANGED <<live, caps, clock>>,
         \A b \in bs : \E k \in LimitsOf(b) : Len(Pruned(buckets[b])) < k
  PROVE  /\ buckets' \in [Bucket -> Seq(Nat)] /\ spent' \in [Bucket -> Seq(Nat)]
         /\ BucketsInv'
         /\ \A b \in bs : Len(spent'[b]) = Len(spent[b]) + 1
         /\ \A b \in Bucket \ bs : spent'[b] = spent[b]
<1>1. \A b \in Bucket : /\ buckets[b] \in Seq(Nat) /\ spent[b] \in Seq(Nat)
                        /\ LimitsOf(b) \subseteq Nat /\ LimitsOf(b)' = LimitsOf(b)
  BY LimitsType DEF AdmissionTypes, LimitsOf
<1>2. clock \in Nat /\ clock' = clock
  BY DEF AdmissionTypes
<1>3. \A b \in Bucket : /\ InTime(spent[b])
                        /\ \E d \in 0..Len(spent[b]) : Forgets(buckets[b], spent[b], d)
                        /\ \A i \in 1..Len(spent[b]) : \E k \in LimitsOf(b) : SpacedAt(spent[b], i, k)
  BY DEF BucketsInv
<1>4. \A b \in bs : buckets'[b] = Append(Pruned(buckets[b]), clock)
                    /\ spent'[b] = Append(spent[b], clock)
  BY DEF Charge
<1>5. \A b \in Bucket \ bs : buckets'[b] = buckets[b] /\ spent'[b] = spent[b]
  BY DEF Charge
<1>6. ASSUME NEW b \in bs
      PROVE  /\ buckets'[b] \in Seq(Nat) /\ spent'[b] \in Seq(Nat)
             /\ Len(spent'[b]) = Len(spent[b]) + 1
             /\ InTime(spent'[b])
             /\ \E d \in 0..Len(spent'[b]) : Forgets(buckets'[b], spent'[b], d)
             /\ \A i \in 1..Len(spent'[b]) : \E k \in LimitsOf(b) : SpacedAt(spent'[b], i, k)
  <2>1. PICK q, q2, ts, ts2 : q = buckets[b] /\ q2 = buckets'[b] /\ ts = spent[b] /\ ts2 = spent'[b]
    OBVIOUS
  <2>2. b \in Bucket /\ q \in Seq(Nat) /\ ts \in Seq(Nat)
    BY <1>1, <2>1
  <2>3. PICK k \in Nat : k \in LimitsOf(b) /\ Len(Pruned(q)) < k
    BY <1>1, <2>1, <2>2
  <2>4. PICK d \in 0..Len(ts) : Forgets(q, ts, d)
    BY <1>3, <2>1, <2>2
  <2>5. InTime(ts) /\ q2 = Append(Pruned(q), clock) /\ ts2 = Append(ts, clock)
    BY <1>3, <1>4, <2>1, <2>2
  <2>6. /\ q2 \in Seq(Nat) /\ ts2 \in Seq(Nat) /\ Len(ts2) = Len(ts) + 1
        /\ InTime(ts2)
        /\ \E e \in 0..Len(ts2) : Forgets(q2, ts2, e)
        /\ SpacedAt(ts2, Len(ts) + 1, k)
        /\ \A i \in 1..Len(ts), j \in Nat : SpacedAt(ts, i, j) => SpacedAt(ts2, i, j)
    BY <1>2, <2>2, <2>3, <2>4, <2>5, ChargedBucket
  <2>7. ASSUME NEW i \in 1..Len(ts2) PROVE \E j \in LimitsOf(b) : SpacedAt(ts2, i, j)
    <3>1. CASE i = Len(ts) + 1
      BY <2>3, <2>6, <3>1
    <3>2. CASE i \in 1..Len(ts)
      <4>1. PICK j \in LimitsOf(b) : SpacedAt(ts, i, j)
        BY <1>3, <2>1, <2>2, <3>2
      <4>2. j \in Nat
        BY <1>1, <2>2
      <4> QED
        BY <2>6, <3>2, <4>1, <4>2
    <3>3. Len(ts) \in Nat /\ 1..Len(ts2) = 1..Len(ts) \union {Len(ts) + 1}
      BY <2>2, <2>6
    <3> QED
      BY <3>1, <3>2, <3>3
  <2> QED
    BY <2>1, <2>6, <2>7
<1>7. buckets' \in [Bucket -> Seq(Nat)] /\ spent' \in [Bucket -> Seq(Nat)]
  <2>1. /\ buckets' = [b \in Bucket |-> buckets'[b]] /\ spent' = [b \in Bucket |-> spent'[b]]
    BY DEF Charge
  <2>2. \A b \in Bucket : buckets'[b] \in Seq(Nat) /\ spent'[b] \in Seq(Nat)
    BY <1>1, <1>5, <1>6
  <2> QED
    BY <2>1, <2>2
<1>8. BucketsInv'
  <2> SUFFICES ASSUME NEW b \in Bucket
               PROVE  /\ InTime(spent[b])'
                      /\ (\E d \in 0..Len(spent[b]) : Forgets(buckets[b], spent[b], d))'
                      /\ (\A i \in 1..Len(spent[b]) : \E k \in LimitsOf(b) : SpacedAt(spent[b], i, k))'
    BY DEF BucketsInv
  <2>3. /\ InTime(spent'[b])
        /\ \E d \in 0..Len(spent'[b]) : Forgets(buckets'[b], spent'[b], d)
        /\ \A i \in 1..Len(spent'[b]) : \E k \in LimitsOf(b) : SpacedAt(spent'[b], i, k)
    BY <1>3, <1>5, <1>6
  <2>4. InTime(spent[b])'
    BY <1>2, <2>3 DEF InTime
  <2>5. (\E d \in 0..Len(spent[b]) : Forgets(buckets[b], spent[b], d))'
    BY <1>2, <2>3 DEF Forgets
  <2>6. (\A i \in 1..Len(spent[b]) : \E k \in LimitsOf(b) : SpacedAt(spent[b], i, k))'
    BY <1>1, <2>3 DEF SpacedAt
  <2> QED
    BY <2>4, <2>5, <2>6
<1> QED
  BY <1>5, <1>6, <1>7, <1>8

\* Nothing is charged; time may pass and a configuration come.
LEMMA NoChargeStep ==
  ASSUME AdmissionTypes, BucketsInv, UNCHANGED <<buckets, spent>>,
         live' \in Nat, caps' \in Nat, clock' \in Nat,
         live <= live', caps <= caps', clock <= clock'
  PROVE  BucketsInv'
<1>1. live \in Nat /\ caps \in Nat /\ clock \in Nat
  BY DEF AdmissionTypes
<1>2. \A b \in Bucket : LimitsOf(b) \subseteq LimitsOf(b)'
  <2>1. 1..live \subseteq 1..live' /\ 1..caps \subseteq 1..caps'
    BY <1>1
  <2> QED
    BY <2>1 DEF LimitsOf
<1> SUFFICES ASSUME NEW b \in Bucket
             PROVE  /\ InTime(spent[b])'
                    /\ (\E d \in 0..Len(spent[b]) : Forgets(buckets[b], spent[b], d))'
                    /\ (\A i \in 1..Len(spent[b]) : \E k \in LimitsOf(b) : SpacedAt(spent[b], i, k))'
  BY DEF BucketsInv
<1>3. PICK ts \in Seq(Nat) : ts = spent[b] /\ spent'[b] = ts
  BY DEF AdmissionTypes
<1>4. \A i \in 1..Len(ts) : ts[i] \in Nat
  OBVIOUS
<1>5. InTime(ts) /\ \A i \in 1..Len(ts) : \E k \in LimitsOf(b) : SpacedAt(ts, i, k)
  BY <1>3 DEF BucketsInv
<1>6. PICK n \in 0..Len(ts) : Forgets(buckets[b], ts, n)
  BY <1>3 DEF BucketsInv
<1>7. InTime(spent[b])'
  <2>1. \A i \in 1..Len(ts) : ts[i] <= clock'
    BY <1>1, <1>4, <1>5 DEF InTime
  <2> QED
    BY <1>3, <1>5, <2>1 DEF InTime
<1>8. (\E d \in 0..Len(spent[b]) : Forgets(buckets[b], spent[b], d))'
  <2>1. \A i \in 1..n : ts[i] \in Nat /\ ts[i] + Window < clock /\ Window \in Nat
    BY <1>4, <1>6, AdmissionAssumption DEF Forgets
  <2>2. \A i \in 1..n : ts[i] + Window < clock'
    BY <1>1, <2>1
  <2> QED
    BY <1>3, <1>6, <2>2 DEF Forgets
<1>9. (\A i \in 1..Len(spent[b]) : \E k \in LimitsOf(b) : SpacedAt(spent[b], i, k))'
  BY <1>2, <1>3, <1>5 DEF SpacedAt
<1> QED
  BY <1>7, <1>8, <1>9

(***************************************************************************)
(* Handlers                                                                *)
(***************************************************************************)
Rows == HandlerRow \union {Free}

LEMMA AtRow ==
  ASSUME NEW to, NEW req, NEW cfg, NEW list, NEW matched
  PROVE  /\ At(to, req, cfg, list, matched).pc = to
         /\ At(to, req, cfg, list, matched).req = req
         /\ At(to, req, cfg, list, matched).cfg = cfg
         /\ At(to, req, cfg, list, matched).list = list
         /\ At(to, req, cfg, list, matched).matched = matched
         /\ /\ to \in {"budget", "open", "probed", "expanded", "evaluated", "admitted"}
            /\ req \in DOMAIN Request /\ cfg \in Nat /\ list \in Lists
            /\ matched \in SUBSET PolicyName
            => At(to, req, cfg, list, matched) \in Rows
BY DEF At, HandlerRow, Rows

LEMMA FreeRow == Free \in Rows /\ Free.pc = "free" /\ Found(Free)
<1>1. Free.pc = "free"
  BY DEF Free, At
<1> QED
  BY <1>1 DEF Rows, Found

LEMMA HandlerTypes ==
  ASSUME AdmissionTypes, NEW h \in Handler
  PROVE  /\ handlers[h] \in Rows
         /\ handlers[h].pc # "free" =>
              /\ handlers[h] \in HandlerRow
              /\ handlers[h].req \in DOMAIN Request /\ handlers[h].cfg \in Nat
              /\ handlers[h].list \in Lists /\ handlers[h].matched \in SUBSET PolicyName
<1>1. handlers[h] \in Rows
  BY DEF AdmissionTypes, Rows
<1>2. handlers[h].pc # "free" => handlers[h] \in HandlerRow
  BY <1>1, FreeRow DEF Rows
<1> QED
  BY <1>1, <1>2 DEF HandlerRow

LEMMA BecomeRow ==
  ASSUME AdmissionTypes, NEW h \in Handler, NEW f \in Rows, Become(h, f)
  PROVE  /\ handlers' \in [Handler -> HandlerRow \union {Free}]
         /\ handlers'[h] = f
         /\ \A g \in Handler : g # h => handlers'[g] = handlers[g]
BY DEF AdmissionTypes, Rows, Become

LEMMA CountsFinite ==
  ASSUME AdmissionTypes, NEW b
  PROVE  /\ IsFiniteSet(Holding(b)) /\ IsFiniteSet(CountedIn(b)) /\ IsFiniteSet(WastedOn(b))
         /\ Cardinality(Holding(b)) \in Nat /\ Cardinality(CountedIn(b)) \in Nat
         /\ Cardinality(WastedOn(b)) \in Nat
<1>1. IsFiniteSet(Handler) /\ IsFiniteSet(1..Len(admitted)) /\ IsFiniteSet(1..Len(wasted))
  <2>1. Len(admitted) \in Int /\ Len(wasted) \in Int
    BY DEF AdmissionTypes
  <2> QED
    BY <2>1, FS_Interval, AdmissionAssumption
<1>2. /\ Holding(b) \in SUBSET Handler /\ CountedIn(b) \in SUBSET (1..Len(admitted))
      /\ WastedOn(b) \in SUBSET (1..Len(wasted))
  BY DEF Holding, CountedIn, WastedOn, AdmissionTypes
<1>3. IsFiniteSet(Holding(b)) /\ IsFiniteSet(CountedIn(b)) /\ IsFiniteSet(WastedOn(b))
  BY <1>1, <1>2, FS_Subset
<1> QED
  BY <1>3, FS_CardinalityType

\* One handler moves, and has charged nothing.
LEMMA HandlerMoves ==
  ASSUME AdmissionInv, NEW h \in Handler, NEW f \in Rows, Become(h, f), Found(f),
         handlers[h].pc # "admitted", f.pc # "admitted",
         UNCHANGED <<live, caps, clock, buckets, spent, admitted, wasted>>
  PROVE  AdmissionInv'
<1>1. /\ handlers' \in [Handler -> HandlerRow \union {Free}] /\ handlers'[h] = f
      /\ \A g \in Handler : g # h => handlers'[g] = handlers[g]
  BY BecomeRow DEF AdmissionInv
<1>2. AdmissionTypes'
  BY <1>1 DEF AdmissionInv, AdmissionTypes
<1>3. FoundInv'
  <2>1. ASSUME NEW g \in Handler PROVE Found(handlers[g])'
    <3>1. Found(handlers'[g])
      BY <1>1 DEF AdmissionInv, FoundInv
    <3> QED
      BY <3>1 DEF Found, Expands, Answers
  <2>2. (\A o \in 1..Len(admitted) : Expands(admitted[o]) /\ Answers(admitted[o]))'
    BY DEF AdmissionInv, FoundInv, Expands, Answers
  <2> QED
    BY <2>1, <2>2 DEF FoundInv
<1>4. BucketsInv'
  BY NoChargeStep DEF AdmissionInv, AdmissionTypes
<1>5. Accounted'
  <2>1. \A b : Holding(b)' = Holding(b)
    BY <1>1 DEF Holding, Capped
  <2>2. \A b : CountedIn(b)' = CountedIn(b) /\ WastedOn(b)' = WastedOn(b)
    BY DEF CountedIn, WastedOn
  <2> QED
    BY <2>1, <2>2 DEF AdmissionInv, Accounted
<1> QED
  BY <1>2, <1>3, <1>4, <1>5 DEF AdmissionInv

LEMMA SubmitMoves ==
  ASSUME AdmissionInv, NEW h \in Handler, submitStep(h)
  PROVE  AdmissionInv'
<1> DEFINE f == handlers[h]
<1>1. UNCHANGED <<live, caps, clock, buckets, spent, admitted, wasted>>
  BY DEF submitStep
<1>2. f.pc # "free" => /\ f.req \in DOMAIN Request /\ f.cfg \in Nat /\ f.list \in Lists
                       /\ f.matched \in SUBSET PolicyName
  BY HandlerTypes DEF AdmissionInv
<1>3. <<>> \in Lists /\ 0 \in Nat /\ {} \in SUBSET PolicyName
  BY DEF Lists
<1>4. ASSUME NEW to \in {"open", "probed"}, f.pc \in {"budget", "open"},
             Become(h, At(to, f.req, 0, <<>>, {}))
      PROVE  AdmissionInv'
  <2>1. PICK row : row = At(to, f.req, 0, <<>>, {})
    OBVIOUS
  <2>2. row.pc = to /\ row \in Rows
    BY <1>2, <1>3, <1>4, <2>1, AtRow
  <2>3. Found(row)
    BY <2>2 DEF Found
  <2> QED
    BY <1>1, <1>4, <2>1, <2>2, <2>3, HandlerMoves
<1>5. CASE Maintained(h)
  BY <1>4, <1>5 DEF Maintained
<1>6. CASE Probed(h)
  BY <1>4, <1>6 DEF Probed
<1>7. CASE Expanded(h)
  <2>1. PICK list : list = Expansions[live][f.req].list
    OBVIOUS
  <2>2. PICK row : row = At("expanded", f.req, live, list, {})
    OBVIOUS
  <2>3. f.pc = "probed" /\ Become(h, row)
    BY <1>7, <2>1, <2>2 DEF Expanded
  <2>4. live \in DOMAIN Config /\ live \in Nat /\ live \in 1..live /\ f.req \in DOMAIN Request
    BY <1>2, <2>3, AdmissionAssumption DEF AdmissionInv, AdmissionTypes
  <2>5. list \in Lists
    BY <2>1, <2>4 DEF Lists
  <2>6. /\ row.pc = "expanded" /\ row.cfg = live /\ row.req = f.req /\ row.list = list
        /\ row \in Rows
    BY <1>3, <2>2, <2>4, <2>5, AtRow
  <2>7. Found(row)
    BY <2>1, <2>4, <2>6 DEF Found, Expands
  <2> QED
    BY <1>1, <2>3, <2>6, <2>7, HandlerMoves
<1>8. CASE Evaluated(h)
  <2>1. PICK m : m = MatchedBy(f.cfg, f.req, f.list)
    OBVIOUS
  <2>2. PICK row : row = At("evaluated", f.req, f.cfg, f.list, m)
    OBVIOUS
  <2>3. f.pc = "expanded" /\ Become(h, row)
    BY <1>8, <2>1, <2>2 DEF Evaluated
  <2>4. Expands(f)
    BY <2>3 DEF AdmissionInv, FoundInv, Found
  <2>5. m \in SUBSET PolicyName
    <3>1. f.cfg \in DOMAIN Config
      BY <2>4, AdmissionAssumption DEF Expands, AdmissionInv, AdmissionTypes
    <3> QED
      BY <2>1, <3>1 DEF MatchedBy, PolicyName
  <2>6. /\ row.pc = "evaluated" /\ row.cfg = f.cfg /\ row.req = f.req /\ row.list = f.list
        /\ row.matched = m /\ row \in Rows
    BY <1>2, <2>2, <2>3, <2>5, AtRow
  <2>7. Found(row)
    BY <2>1, <2>4, <2>6 DEF Found, Expands, Answers
  <2> QED
    BY <1>1, <2>3, <2>6, <2>7, HandlerMoves
<1> QED
  BY <1>5, <1>6, <1>7, <1>8 DEF submitStep

LEMMA DroppedStep ==
  ASSUME AdmissionInv, NEW h \in Handler, Dropped(h)
  PROVE  AdmissionInv'
<1>1. /\ handlers[h].pc # "admitted" /\ Become(h, Free)
      /\ UNCHANGED <<live, caps, clock, buckets, spent, admitted, wasted>>
  BY DEF Dropped
<1> QED
  BY <1>1, FreeRow, HandlerMoves

\* What is charged had room.
LEMMA RoomLeft ==
  ASSUME AdmissionTypes, NEW bs \in SUBSET Bucket, NEW max, \A b \in bs : max[b] \in Nat
  PROVE  /\ check_and_record(bs, max) = bs \/ (bs # {} /\ check_and_record(bs, max) = {})
         /\ check_and_record(bs, max) = bs => \A b \in bs : Len(Pruned(buckets[b])) < max[b]
<1>1. \A b \in bs : Len(Pruned(buckets[b])) \in Nat
  <2> SUFFICES ASSUME NEW b \in bs PROVE Len(Pruned(buckets[b])) \in Nat
    OBVIOUS
  <2>1. buckets[b] \in Seq(Nat) /\ clock \in Nat
    BY DEF AdmissionTypes
  <2>2. Pruned(buckets[b]) \in Seq(Nat)
    BY <2>1, PrunedIs
  <2> QED
    BY <2>2
<1>2. \A b \in bs : ~AtCap(b, max[b]) => Len(Pruned(buckets[b])) < max[b]
  BY <1>1 DEF AtCap
<1>3. CASE \E b \in bs : AtCap(b, max[b])
  <2>1. check_and_record(bs, max) = {} /\ bs # {}
    BY <1>3 DEF check_and_record
  <2> QED
    BY <2>1
<1>4. CASE ~\E b \in bs : AtCap(b, max[b])
  <2>1. check_and_record(bs, max) = bs
    BY <1>4, Zenon DEF check_and_record
  <2> QED
    BY <1>2, <1>4, <2>1
<1> QED
  BY <1>3, <1>4

\* A request is charged to its environment, which no policy is.
LEMMA ArriveStep ==
  ASSUME AdmissionInv, NEW h \in Handler, NEW q \in DOMAIN Request, Arrive(h, q)
  PROVE  AdmissionInv'
<1>1. PICK env : env = Request[q].env
  OBVIOUS
<1>2. PICK max : max = [b \in {env} |-> Config[caps].cap]
  OBVIOUS
<1>3. PICK capped : capped = {b \in DOMAIN max : max[b] > 0}
  OBVIOUS
<1>4. PICK row : row = At("budget", q, 0, <<>>, {})
  OBVIOUS
<1>5. /\ handlers[h] = Free /\ check_and_record(capped, max) = capped
      /\ Charge(capped) /\ Become(h, row)
      /\ UNCHANGED <<live, caps, clock, admitted, wasted>>
  BY <1>1, <1>2, <1>3, <1>4 DEF Arrive
<1>6. env \in Environment /\ capped \subseteq {env} /\ capped \in SUBSET Bucket
      /\ \A b \in capped : max[b] = Config[caps].cap
  BY <1>1, <1>2, <1>3 DEF Environment, Bucket
<1>7. caps \in DOMAIN Config /\ caps \in 1..caps /\ Config[caps].cap \in Nat
  <2>1. caps \in 1..Len(Config) /\ Len(Config) \in Nat
    BY AdmissionAssumption DEF AdmissionInv, AdmissionTypes
  <2>2. caps \in DOMAIN Config /\ caps \in 1..caps
    BY <2>1, AdmissionAssumption
  <2> QED
    BY <2>2, AdmissionAssumption
<1>8. \A b \in capped : \E k \in LimitsOf(b) : Len(Pruned(buckets[b])) < k
  <2>1. \A b \in capped : Len(Pruned(buckets[b])) < Config[caps].cap
    BY <1>5, <1>6, <1>7, RoomLeft DEF AdmissionInv
  <2>2. \A b \in capped : Config[caps].cap \in LimitsOf(b)
    BY <1>6, <1>7 DEF LimitsOf
  <2> QED
    BY <2>1, <2>2
<1>9. /\ buckets' \in [Bucket -> Seq(Nat)] /\ spent' \in [Bucket -> Seq(Nat)]
      /\ BucketsInv'
      /\ \A b \in Bucket \ capped : spent'[b] = spent[b]
  BY <1>5, <1>6, <1>8, ChargeStep DEF AdmissionInv
<1>10. row \in Rows /\ row.pc = "budget"
  BY <1>4, AtRow DEF Lists
<1>11. /\ handlers' \in [Handler -> HandlerRow \union {Free}] /\ handlers'[h] = row
       /\ \A g \in Handler : g # h => handlers'[g] = handlers[g]
  BY <1>5, <1>10, BecomeRow DEF AdmissionInv
<1>12. AdmissionTypes'
  BY <1>5, <1>9, <1>11 DEF AdmissionInv, AdmissionTypes
<1>13. FoundInv'
  <2>1. ASSUME NEW g \in Handler PROVE Found(handlers[g])'
    <3>1. Found(handlers'[g])
      BY <1>10, <1>11 DEF AdmissionInv, FoundInv, Found
    <3> QED
      BY <1>5, <3>1 DEF Found, Expands, Answers
  <2>2. (\A o \in 1..Len(admitted) : Expands(admitted[o]) /\ Answers(admitted[o]))'
    BY <1>5 DEF AdmissionInv, FoundInv, Expands, Answers
  <2> QED
    BY <2>1, <2>2 DEF FoundInv
<1>14. Accounted'
  <2>1. \A b : Holding(b)' = Holding(b)
    BY <1>5, <1>10, <1>11, FreeRow DEF Holding, Capped
  <2>2. \A b : CountedIn(b)' = CountedIn(b) /\ WastedOn(b)' = WastedOn(b)
    BY <1>5 DEF CountedIn, WastedOn
  <2>3. \A b \in Bucket \ Environment : spent'[b] = spent[b]
    BY <1>6, <1>9
  <2> QED
    BY <2>1, <2>2, <2>3 DEF AdmissionInv, Accounted
<1> QED
  BY <1>9, <1>12, <1>13, <1>14 DEF AdmissionInv

LEMMA CappedPolicies ==
  ASSUME AdmissionInv, NEW h \in Handler, handlers[h].pc \in {"evaluated", "admitted"}
  PROVE  /\ Capped(h) \in SUBSET Bucket /\ Capped(h) \in SUBSET (Bucket \ Environment)
         /\ \A b \in Capped(h) : /\ CapsOf(h)[b] \in Nat
                                 /\ CapsOf(h)[b] \in LimitsOf(b)
<1>1. Expands(handlers[h]) /\ Answers(handlers[h])
  BY DEF AdmissionInv, FoundInv, Found
<1>2. PICK c \in 1..live : c = handlers[h].cfg
  BY <1>1 DEF Expands
<1>3. c \in DOMAIN Config
  BY <1>2, AdmissionAssumption DEF AdmissionInv, AdmissionTypes
<1>4. \A b \in Capped(h) : /\ b \in Policies(c)
                           /\ CapsOf(h)[b] = Config[c].policies[b].cap
  BY <1>1, <1>2 DEF Capped, CapsOf, Answers, MatchedBy
<1>5. \A b \in Capped(h) : b \in PolicyName /\ b \in Bucket /\ b \notin Environment
  BY <1>3, <1>4, AdmissionAssumption DEF PolicyName, Bucket
<1>6. \A b \in Capped(h) : Config[c].policies[b].cap \in LimitsOf(b)
  BY <1>4, <1>5 DEF LimitsOf
<1> QED
  BY <1>3, <1>4, <1>5, <1>6, AdmissionAssumption

\* A submission is charged to all its capped policies and holds the charges, or
\* to none and is gone.
LEMMA PolicyChargedStep ==
  ASSUME AdmissionInv, NEW h \in Handler, PolicyCharged(h)
  PROVE  AdmissionInv'
<1> DEFINE f == handlers[h]
<1>1. PICK bs : bs = Capped(h)
  OBVIOUS
<1>2. PICK charged : charged = check_and_record(Capped(h), CapsOf(h))
  OBVIOUS
<1>3. PICK row : row = At("admitted", f.req, f.cfg, f.list, f.matched)
  OBVIOUS
<1>4. /\ f.pc = "evaluated" /\ Charge(charged)
      /\ Become(h, IF charged = bs THEN row ELSE Free)
      /\ UNCHANGED <<live, caps, clock, admitted, wasted>>
  BY <1>1, <1>2, <1>3 DEF PolicyCharged
<1>5. /\ bs \in SUBSET Bucket /\ bs \in SUBSET (Bucket \ Environment)
      /\ \A b \in bs : CapsOf(h)[b] \in Nat /\ CapsOf(h)[b] \in LimitsOf(b)
  BY <1>1, <1>4, CappedPolicies
<1>6. /\ charged = bs \/ (bs # {} /\ charged = {})
      /\ charged = bs => \A b \in bs : Len(Pruned(buckets[b])) < CapsOf(h)[b]
  BY <1>1, <1>2, <1>5, RoomLeft DEF AdmissionInv
<1>7. CASE charged # bs
  <2>1. buckets' = buckets /\ spent' = spent
    BY <1>4, <1>6, <1>7 DEF Charge, AdmissionInv, AdmissionTypes
  <2>2. Become(h, Free) /\ Free.pc # "admitted" /\ f.pc # "admitted"
    BY <1>4, <1>7, FreeRow
  <2> QED
    BY <1>4, <2>1, <2>2, FreeRow, HandlerMoves
<1>8. CASE charged = bs
  <2>1. \A b \in bs : \E k \in LimitsOf(b) : Len(Pruned(buckets[b])) < k
    BY <1>5, <1>6, <1>8
  <2>2. /\ buckets' \in [Bucket -> Seq(Nat)] /\ spent' \in [Bucket -> Seq(Nat)]
        /\ BucketsInv'
        /\ \A b \in bs : Len(spent'[b]) = Len(spent[b]) + 1
        /\ \A b \in Bucket \ bs : spent'[b] = spent[b]
    BY <1>4, <1>5, <1>8, <2>1, ChargeStep DEF AdmissionInv
  <2>3. /\ f.req \in DOMAIN Request /\ f.cfg \in Nat /\ f.list \in Lists
        /\ f.matched \in SUBSET PolicyName
    BY <1>4, HandlerTypes DEF AdmissionInv
  <2>4. /\ row \in Rows /\ row.pc = "admitted" /\ row.req = f.req /\ row.cfg = f.cfg
        /\ row.list = f.list /\ row.matched = f.matched
    BY <1>3, <2>3, AtRow
  <2>5. Become(h, row)
    BY <1>4, <1>8
  <2>6. /\ handlers' \in [Handler -> HandlerRow \union {Free}] /\ handlers'[h] = row
        /\ \A g \in Handler : g # h => handlers'[g] = handlers[g]
    BY <2>4, <2>5, BecomeRow DEF AdmissionInv
  <2>7. AdmissionTypes'
    BY <1>4, <2>2, <2>6 DEF AdmissionInv, AdmissionTypes
  <2>8. FoundInv'
    <3>1. Found(row)
      BY <1>4, <2>4 DEF AdmissionInv, FoundInv, Found, Expands, Answers
    <3>2. ASSUME NEW g \in Handler PROVE Found(handlers[g])'
      <4>1. Found(handlers'[g])
        BY <2>6, <3>1 DEF AdmissionInv, FoundInv
      <4> QED
        BY <1>4, <4>1 DEF Found, Expands, Answers
    <3>3. (\A o \in 1..Len(admitted) : Expands(admitted[o]) /\ Answers(admitted[o]))'
      BY <1>4 DEF AdmissionInv, FoundInv, Expands, Answers
    <3> QED
      BY <3>2, <3>3 DEF FoundInv
  <2>9. Accounted'
    <3> SUFFICES ASSUME NEW b \in Bucket \ Environment
                 PROVE  Len(spent'[b]) = Cardinality(Holding(b)') + Cardinality(CountedIn(b))
                                         + Cardinality(WastedOn(b))
      BY <1>4 DEF Accounted, CountedIn, WastedOn
    <3>1. /\ Len(spent[b]) = Cardinality(Holding(b)) + Cardinality(CountedIn(b))
                             + Cardinality(WastedOn(b))
      BY DEF AdmissionInv, Accounted
    <3>2. /\ IsFiniteSet(Holding(b)) /\ Cardinality(Holding(b)) \in Nat
          /\ Cardinality(CountedIn(b)) \in Nat /\ Cardinality(WastedOn(b)) \in Nat
      BY CountsFinite DEF AdmissionInv
    <3>3. h \notin Holding(b)
      BY <1>4 DEF Holding
    <3>4. CASE b \in bs
      <4>1. Holding(b)' = Holding(b) \union {h}
        BY <1>1, <2>4, <2>6, <3>4 DEF Holding, Capped
      <4>2. Cardinality(Holding(b)') = Cardinality(Holding(b)) + 1
        BY <3>2, <3>3, <4>1, FS_AddElement
      <4> QED
        BY <2>2, <3>1, <3>2, <3>4, <4>2
    <3>5. CASE b \notin bs
      <4>1. Holding(b)' = Holding(b)
        BY <1>1, <1>4, <2>4, <2>6, <3>5 DEF Holding, Capped
      <4> QED
        BY <2>2, <3>1, <3>5, <4>1
    <3> QED
      BY <3>4, <3>5
  <2> QED
    BY <2>2, <2>7, <2>8, <2>9 DEF AdmissionInv
<1> QED
  BY <1>7, <1>8

\* What the handler held goes to the operation, or is wasted.
LEMMA CreatedStep ==
  ASSUME AdmissionInv, NEW h \in Handler, Created(h)
  PROVE  AdmissionInv'
<1> DEFINE f == handlers[h]
<1>1. PICK held \in BOOLEAN : held = \E p \in f.matched : Config[f.cfg].policies[p].requires_approval
  OBVIOUS
<1>2. PICK row : row = [list |-> f.list, req |-> f.req, cfg |-> f.cfg, matched |-> f.matched,
                        status |-> IF held THEN "pending_approval" ELSE "running"]
  OBVIOUS
<1>3. /\ f.pc = "admitted" /\ Become(h, Free)
      /\ \/ admitted' = Append(admitted, row) /\ wasted' = wasted
         \/ wasted' = Append(wasted, Capped(h)) /\ admitted' = admitted
      /\ UNCHANGED <<live, caps, clock, buckets, spent>>
  BY <1>1, <1>2 DEF Created
<1>4. /\ f.req \in DOMAIN Request /\ f.cfg \in Nat /\ f.list \in Lists
      /\ f.matched \in SUBSET PolicyName
  BY <1>3, HandlerTypes DEF AdmissionInv
<1>5. /\ row \in AdmittedRow /\ row.list = f.list /\ row.req = f.req /\ row.cfg = f.cfg
      /\ row.matched = f.matched
  BY <1>2, <1>4 DEF AdmittedRow
<1>6. Expands(row) /\ Answers(row)
  <2>1. Expands(f) /\ Answers(f)
    BY <1>3 DEF AdmissionInv, FoundInv, Found
  <2> QED
    BY <1>5, <2>1 DEF Expands, Answers
<1>7. /\ handlers' \in [Handler -> HandlerRow \union {Free}] /\ handlers'[h] = Free
      /\ \A g \in Handler : g # h => handlers'[g] = handlers[g]
  BY <1>3, FreeRow, BecomeRow DEF AdmissionInv
<1>8. Capped(h) \in SUBSET PolicyName
  BY <1>4 DEF Capped
<1>9. /\ admitted \in Seq(AdmittedRow) /\ wasted \in Seq(SUBSET PolicyName)
      /\ Len(admitted) \in Nat /\ Len(wasted) \in Nat
  BY DEF AdmissionInv, AdmissionTypes
<1>10. AdmissionTypes'
  <2>1. admitted' \in Seq(AdmittedRow) /\ wasted' \in Seq(SUBSET PolicyName)
    <3>1. Append(admitted, row) \in Seq(AdmittedRow)
          /\ Append(wasted, Capped(h)) \in Seq(SUBSET PolicyName)
      BY <1>5, <1>8, <1>9
    <3> QED
      BY <1>3, <1>9, <3>1
  <2> QED
    BY <1>3, <1>7, <2>1 DEF AdmissionInv, AdmissionTypes
<1>11. FoundInv'
  <2>1. ASSUME NEW g \in Handler PROVE Found(handlers[g])'
    <3>1. Found(handlers'[g])
      BY <1>7, FreeRow DEF AdmissionInv, FoundInv
    <3> QED
      BY <1>3, <3>1 DEF Found, Expands, Answers
  <2>2. ASSUME NEW o \in 1..Len(admitted') PROVE (Expands(admitted[o]) /\ Answers(admitted[o]))'
    <3>1. admitted'[o] = row \/ (o \in 1..Len(admitted) /\ admitted'[o] = admitted[o])
      <4>1. CASE admitted' = admitted
        BY <4>1
      <4>2. CASE admitted' = Append(admitted, row)
        BY <1>5, <1>9, <4>2
      <4> QED
        BY <1>3, <4>1, <4>2
    <3>2. Expands(admitted'[o]) /\ Answers(admitted'[o])
      BY <1>6, <3>1 DEF AdmissionInv, FoundInv
    <3> QED
      BY <1>3, <3>2 DEF Expands, Answers
  <2> QED
    BY <2>1, <2>2 DEF FoundInv
<1>12. BucketsInv'
  BY <1>3, NoChargeStep DEF AdmissionInv, AdmissionTypes
<1>13. Accounted'
  <2> SUFFICES ASSUME NEW b \in Bucket \ Environment
               PROVE  Len(spent[b]) = Cardinality(Holding(b)') + Cardinality(CountedIn(b)')
                                      + Cardinality(WastedOn(b)')
    BY <1>3 DEF Accounted
  <2>1. /\ Len(spent[b]) = Cardinality(Holding(b)) + Cardinality(CountedIn(b))
                           + Cardinality(WastedOn(b))
    BY DEF AdmissionInv, Accounted
  <2>2. /\ IsFiniteSet(Holding(b)) /\ IsFiniteSet(CountedIn(b)) /\ IsFiniteSet(WastedOn(b))
        /\ Cardinality(Holding(b)) \in Nat /\ Cardinality(CountedIn(b)) \in Nat
        /\ Cardinality(WastedOn(b)) \in Nat
    BY CountsFinite DEF AdmissionInv
  <2>3. Holding(b)' = Holding(b) \ {h}
    BY <1>7, FreeRow DEF Holding, Capped
  <2>4. b \in Capped(h) <=> h \in Holding(b)
    BY <1>3 DEF Holding
  <2>5. Cardinality(Holding(b)') = Cardinality(Holding(b)) - (IF b \in Capped(h) THEN 1 ELSE 0)
    <3>1. Cardinality(Holding(b) \ {h})
            = IF h \in Holding(b) THEN Cardinality(Holding(b)) - 1 ELSE Cardinality(Holding(b))
      BY <2>2, FS_RemoveElement
    <3> QED
      BY <2>2, <2>3, <2>4, <3>1
  <2>6. CASE admitted' = Append(admitted, row) /\ wasted' = wasted
    <3>1. WastedOn(b)' = WastedOn(b)
      BY <2>6 DEF WastedOn
    <3>2. PICK n : n = Len(admitted) + 1
      OBVIOUS
    <3>3. /\ DOMAIN admitted = 1..Len(admitted) /\ DOMAIN admitted' = 1..n
          /\ 1..n = 1..Len(admitted) \union {n} /\ n \notin 1..Len(admitted)
          /\ \A o \in 1..Len(admitted) : admitted'[o] = admitted[o]
          /\ admitted'[n] = row
      BY <1>5, <1>9, <2>6, <3>2, Appended
    <3>4. b \in Capped(h) <=> b \in row.matched /\ Config[row.cfg].policies[b].cap > 0
      BY <1>5 DEF Capped
    <3>5. CountedIn(b)' = IF b \in Capped(h) THEN CountedIn(b) \union {n} ELSE CountedIn(b)
      BY <3>3, <3>4 DEF CountedIn
    <3>6. n \notin CountedIn(b)
      BY <3>3 DEF CountedIn
    <3>7. Cardinality(CountedIn(b)')
            = Cardinality(CountedIn(b)) + (IF b \in Capped(h) THEN 1 ELSE 0)
      <4>1. Cardinality(CountedIn(b) \union {n}) = Cardinality(CountedIn(b)) + 1
        BY <2>2, <3>6, FS_AddElement
      <4> QED
        BY <2>2, <3>5, <4>1
    <3> QED
      BY <2>1, <2>2, <2>5, <3>1, <3>7
  <2>7. CASE wasted' = Append(wasted, Capped(h)) /\ admitted' = admitted
    <3>1. CountedIn(b)' = CountedIn(b)
      BY <2>7 DEF CountedIn
    <3>2. PICK n : n = Len(wasted) + 1
      OBVIOUS
    <3>3. /\ DOMAIN wasted = 1..Len(wasted) /\ DOMAIN wasted' = 1..n
          /\ 1..n = 1..Len(wasted) \union {n} /\ n \notin 1..Len(wasted)
          /\ \A i \in 1..Len(wasted) : wasted'[i] = wasted[i]
          /\ wasted'[n] = Capped(h)
      BY <1>8, <1>9, <2>7, <3>2, Appended
    <3>4. WastedOn(b)' = IF b \in Capped(h) THEN WastedOn(b) \union {n} ELSE WastedOn(b)
      BY <3>3 DEF WastedOn
    <3>5. n \notin WastedOn(b)
      BY <3>3 DEF WastedOn
    <3>6. Cardinality(WastedOn(b)')
            = Cardinality(WastedOn(b)) + (IF b \in Capped(h) THEN 1 ELSE 0)
      <4>1. Cardinality(WastedOn(b) \union {n}) = Cardinality(WastedOn(b)) + 1
        BY <2>2, <3>5, FS_AddElement
      <4> QED
        BY <2>2, <3>4, <4>1
    <3> QED
      BY <2>1, <2>2, <2>5, <3>1, <3>6
  <2> QED
    BY <1>3, <2>6, <2>7
<1> QED
  BY <1>10, <1>11, <1>12, <1>13 DEF AdmissionInv

\* A decision changes the status of an operation only.
LEMMA DecidedStep ==
  ASSUME AdmissionInv, NEW o \in DOMAIN admitted, NEW st \in {"running", "rejected"},
         Decided(o, st)
  PROVE  AdmissionInv'
<1>1. /\ admitted' = [admitted EXCEPT ![o].status = st]
      /\ UNCHANGED <<live, caps, clock, buckets, handlers, spent, wasted>>
  BY DEF Decided
<1>2. admitted \in Seq(AdmittedRow) /\ DOMAIN admitted = 1..Len(admitted)
  BY DEF AdmissionInv, AdmissionTypes
<1>3. PICK row : row = [admitted[o] EXCEPT !.status = st]
  OBVIOUS
<1>4. /\ row \in AdmittedRow /\ row.list = admitted[o].list /\ row.req = admitted[o].req
      /\ row.cfg = admitted[o].cfg /\ row.matched = admitted[o].matched
  <2>1. admitted[o] \in AdmittedRow
    BY <1>2
  <2> QED
    BY <1>3, <2>1 DEF AdmittedRow
<1>5. admitted' = [admitted EXCEPT ![o] = row]
  BY <1>1, <1>3
<1>6. /\ admitted' \in Seq(AdmittedRow) /\ Len(admitted') = Len(admitted)
      /\ DOMAIN admitted' = DOMAIN admitted
      /\ \A p \in 1..Len(admitted) : /\ admitted'[p].list = admitted[p].list
                                     /\ admitted'[p].req = admitted[p].req
                                     /\ admitted'[p].cfg = admitted[p].cfg
                                     /\ admitted'[p].matched = admitted[p].matched
  <2>1. /\ admitted' \in Seq(AdmittedRow) /\ Len(admitted') = Len(admitted)
        /\ \A p \in 1..Len(admitted) : admitted'[p] = IF p = o THEN row ELSE admitted[p]
    BY <1>2, <1>4, <1>5, Replaced
  <2> QED
    BY <1>2, <1>4, <1>5, <2>1
<1>7. AdmissionTypes'
  BY <1>1, <1>6 DEF AdmissionInv, AdmissionTypes
<1>8. FoundInv'
  <2>1. (\A h \in Handler : Found(handlers[h]))'
    BY <1>1 DEF AdmissionInv, FoundInv, Found, Expands, Answers
  <2>2. (\A p \in 1..Len(admitted) : Expands(admitted[p]) /\ Answers(admitted[p]))'
    BY <1>1, <1>6 DEF AdmissionInv, FoundInv, Expands, Answers
  <2> QED
    BY <2>1, <2>2 DEF FoundInv
<1>9. BucketsInv'
  BY <1>1, NoChargeStep DEF AdmissionInv, AdmissionTypes
<1>10. Accounted'
  <2>1. \A b : CountedIn(b)' = CountedIn(b)
    BY <1>2, <1>6 DEF CountedIn
  <2>2. \A b : Holding(b)' = Holding(b) /\ WastedOn(b)' = WastedOn(b)
    BY <1>1 DEF Holding, Capped, WastedOn
  <2> QED
    BY <1>1, <2>1, <2>2 DEF AdmissionInv, Accounted
<1> QED
  BY <1>7, <1>8, <1>9, <1>10 DEF AdmissionInv

\* Time, a new configuration, and what the handlers do not touch.
LEMMA QuietStep ==
  ASSUME AdmissionInv, UNCHANGED <<buckets, handlers, admitted, spent, wasted>>,
         live' \in 1..Len(Config), caps' \in 1..Len(Config), clock' \in Nat,
         live' <= caps', live <= live', caps <= caps', clock <= clock'
  PROVE  AdmissionInv'
<1>1. AdmissionTypes'
  BY DEF AdmissionInv, AdmissionTypes
<1>2. live' \in Nat /\ caps' \in Nat /\ 1..live \subseteq 1..live'
  BY DEF AdmissionInv, AdmissionTypes
<1>3. FoundInv'
  BY <1>2 DEF AdmissionInv, FoundInv, Found, Expands, Answers
<1>4. BucketsInv'
  BY <1>2, NoChargeStep DEF AdmissionInv
<1>5. Accounted'
  <2>1. \A b : /\ Holding(b)' = Holding(b) /\ CountedIn(b)' = CountedIn(b)
               /\ WastedOn(b)' = WastedOn(b)
    BY DEF Holding, Capped, CountedIn, WastedOn
  <2> QED
    BY <2>1 DEF AdmissionInv, Accounted
<1> QED
  BY <1>1, <1>3, <1>4, <1>5 DEF AdmissionInv

LEMMA AdmissionInvInit == AdmissionInit => AdmissionInv
<1> SUFFICES ASSUME AdmissionInit PROVE AdmissionInv
  OBVIOUS
<1>1. /\ live = 1 /\ caps = 1 /\ clock = 0 /\ admitted = <<>> /\ wasted = <<>>
      /\ buckets = [b \in Bucket |-> <<>>] /\ spent = [b \in Bucket |-> <<>>]
      /\ handlers = [h \in Handler |-> Free]
  BY DEF AdmissionInit
<1>2. AdmissionTypes
  BY <1>1, AdmissionAssumption DEF AdmissionTypes
<1>3. FoundInv
  BY <1>1, FreeRow DEF FoundInv
<1>4. BucketsInv
  <2>1. \A b \in Bucket : spent[b] = <<>> /\ buckets[b] = <<>>
    BY <1>1
  <2>2. Len(<<>>) = 0 /\ 1..0 = {} /\ 0 \in 0..0
    OBVIOUS
  <2>3. InTime(<<>>) /\ Forgets(<<>>, <<>>, 0)
    BY <2>2 DEF InTime, Forgets
  <2> QED
    BY <2>1, <2>2, <2>3 DEF BucketsInv
<1>5. Accounted
  <2>1. \A b : Holding(b) = {} /\ CountedIn(b) = {} /\ WastedOn(b) = {}
    BY <1>1, FreeRow DEF Holding, CountedIn, WastedOn
  <2>2. \A b \in Bucket : Len(spent[b]) = 0
    BY <1>1
  <2> QED
    <3>1. Cardinality({}) = 0
      BY FS_EmptySet
    <3>2. \A b : /\ Cardinality(Holding(b)) = 0 /\ Cardinality(CountedIn(b)) = 0
                 /\ Cardinality(WastedOn(b)) = 0
      BY <2>1, <3>1, Zenon
    <3> QED
      BY <2>2, <3>2 DEF Accounted
<1> QED
  BY <1>2, <1>3, <1>4, <1>5 DEF AdmissionInv

LEMMA AdmissionInvNext == AdmissionInv /\ [AdmissionNext]_admissionVars => AdmissionInv'
<1> SUFFICES ASSUME AdmissionInv, [AdmissionNext]_admissionVars PROVE AdmissionInv'
  OBVIOUS
<1>1. /\ live \in 1..Len(Config) /\ caps \in 1..Len(Config) /\ live <= caps /\ clock \in Nat
      /\ Len(Config) \in Nat
  BY AdmissionAssumption DEF AdmissionInv, AdmissionTypes
<1>2. ASSUME NEW h \in Handler, NEW q \in DOMAIN Request, Arrive(h, q) PROVE AdmissionInv'
  BY <1>2, ArriveStep
<1>3. ASSUME NEW h \in Handler, submitStep(h) PROVE AdmissionInv'
  BY <1>3, SubmitMoves
<1>4. ASSUME NEW h \in Handler, PolicyCharged(h) PROVE AdmissionInv'
  BY <1>4, PolicyChargedStep
<1>5. ASSUME NEW h \in Handler, Created(h) PROVE AdmissionInv'
  BY <1>5, CreatedStep
<1>6. ASSUME NEW h \in Handler, Dropped(h) PROVE AdmissionInv'
  BY <1>6, DroppedStep
<1>7. ASSUME NEW o \in DOMAIN admitted, NEW u \in User, approve_op(u, o) PROVE AdmissionInv'
  BY <1>7, DecidedStep DEF approve_op
<1>8. ASSUME NEW o \in DOMAIN admitted, reject_op(o) PROVE AdmissionInv'
  BY <1>8, DecidedStep DEF reject_op
<1>9. ASSUME NEW o \in DOMAIN admitted, list_assignments(o) PROVE AdmissionInv'
  BY <1>1, <1>9, QuietStep DEF list_assignments
<1>10. CASE reload_config
  <2>1. /\ UNCHANGED <<buckets, handlers, admitted, spent, wasted, clock>>
        /\ \/ caps = live /\ live < Len(Config) /\ caps' = live + 1 /\ live' = live
           \/ live' = caps /\ caps' = caps
    BY <1>10 DEF reload_config, apply_config
  <2> QED
    BY <1>1, <2>1, QuietStep
<1>11. CASE ClockTicks
  BY <1>1, <1>11, QuietStep DEF ClockTicks
<1>12. CASE VaultChanges
  BY <1>1, <1>12, QuietStep DEF VaultChanges
<1>13. CASE UNCHANGED admissionVars
  BY <1>1, <1>13, QuietStep DEF admissionVars
<1> QED
  BY <1>2, <1>3, <1>4, <1>5, <1>6, <1>7, <1>8, <1>9, <1>10, <1>11, <1>12, <1>13, Zenon
  DEF AdmissionNext

LEMMA AdmissionInvCorrect == AdmissionSpec => []AdmissionInv
BY AdmissionInvInit, AdmissionInvNext, PTL DEF AdmissionSpec

\* The list and the policies of an operation are those of one configuration,
\* whenever a reload comes (submit, reload_config).
THEOREM OneConfigurationCorrect == AdmissionSpec => []OneConfiguration
<1>1. ASSUME AdmissionInv PROVE OneConfiguration
  <2> SUFFICES ASSUME NEW o \in DOMAIN admitted
               PROVE  \E c \in 1..live :
                        /\ admitted[o].list = Expansions[c][admitted[o].req].list
                        /\ admitted[o].matched = MatchedBy(c, admitted[o].req, admitted[o].list)
    BY DEF OneConfiguration
  <2>1. o \in 1..Len(admitted)
    BY <1>1 DEF AdmissionInv, AdmissionTypes
  <2> QED
    BY <1>1, <2>1 DEF AdmissionInv, FoundInv, Expands, Answers
<1> QED
  BY <1>1, AdmissionInvCorrect, PTL

\* Of charges in order, K places apart over a minute apart, a minute holds K:
\* those of a minute are among the K up to its last.
LEMMA AtMost ==
  ASSUME NEW ts \in Seq(Nat), NEW K \in Nat, NEW t \in Nat, InTime(ts),
         \A i \in 1..Len(ts) : \E k \in Nat : k <= K /\ SpacedAt(ts, i, k)
  PROVE  Cardinality({i \in DOMAIN ts : t <= ts[i] /\ ts[i] <= t + Window}) <= K
<1>1. PICK S : S = {i \in DOMAIN ts : t <= ts[i] /\ ts[i] <= t + Window}
  OBVIOUS
<1> SUFFICES Cardinality(S) <= K
  BY <1>1
<1>2. S \in SUBSET (1..Len(ts)) /\ Len(ts) \in Nat /\ Window \in Nat
  BY <1>1, AdmissionAssumption
<1>3. CASE S = {}
  BY <1>3, FS_EmptySet
<1>4. CASE S # {}
  <2>1. PICK m \in S : \A i \in S : i <= m
    BY <1>2, <1>4, Largest
  <2>2. m \in 1..Len(ts) /\ ts[m] \in Nat /\ ts[m] <= t + Window
    BY <1>1, <1>2
  <2>3. PICK k \in Nat : k <= K /\ SpacedAt(ts, m, k)
    BY <2>2
  <2>4. ASSUME NEW i \in S PROVE i > m - K
    <3> SUFFICES ASSUME i <= m - K PROVE FALSE
      BY <1>2, <2>2
    <3>1. i \in 1..Len(ts) /\ t <= ts[i] /\ ts[i] \in Nat
      BY <1>1, <1>2
    <3>2. m > k /\ m - k \in 1..Len(ts) /\ i <= m - k
      BY <1>2, <2>2, <2>3, <3>1
    <3>3. ts[m - k] + Window < ts[m] /\ ts[m - k] \in Nat
      BY <2>3, <3>2 DEF SpacedAt
    <3>4. ts[i] <= ts[m - k]
      BY <3>1, <3>2 DEF InTime
    <3>5. PICK x \in Nat, y \in Nat, z \in Nat : x = ts[i] /\ y = ts[m - k] /\ z = ts[m]
      BY <2>2, <3>1, <3>3
    <3>6. t <= x /\ x <= y /\ y + Window < z /\ z <= t + Window
      BY <2>2, <3>1, <3>3, <3>4, <3>5
    <3> QED
      BY <1>2, <3>6
  <2>5. S \in SUBSET ((m - K + 1)..m)
    BY <1>2, <2>1, <2>2, <2>4
  <2>6. IsFiniteSet((m - K + 1)..m) /\ Cardinality((m - K + 1)..m) <= K
    <3>1. m - K + 1 \in Int /\ m \in Int
      BY <2>2
    <3>2. /\ IsFiniteSet((m - K + 1)..m)
          /\ Cardinality((m - K + 1)..m) = IF m - K + 1 > m THEN 0 ELSE m - (m - K + 1) + 1
      BY <3>1, FS_Interval
    <3> QED
      BY <2>2, <3>2
  <2>7. IsFiniteSet(S) /\ Cardinality(S) <= Cardinality((m - K + 1)..m)
    BY <2>5, <2>6, FS_Subset
  <2>8. Cardinality(S) \in Nat /\ Cardinality((m - K + 1)..m) \in Nat
    BY <2>6, <2>7, FS_CardinalityType
  <2> QED
    BY <2>6, <2>7, <2>8
<1> QED
  BY <1>3, <1>4

LEMMA LimitsFinite ==
  ASSUME live \in 1..Len(Config), caps \in 1..Len(Config), NEW b
  PROVE  IsFiniteSet(LimitsOf(b))
<1> DEFINE D == IF b \in Environment THEN 1..caps ELSE {d \in 1..live : b \in Policies(d)}
           f == [c \in D |-> IF b \in Environment THEN Config[c].cap ELSE Config[c].policies[b].cap]
<1>1. IsFiniteSet(D)
  <2>1. live \in Int /\ caps \in Int
    OBVIOUS
  <2>2. IsFiniteSet(1..live) /\ IsFiniteSet(1..caps)
    BY <2>1, FS_Interval
  <2>3. {d \in 1..live : b \in Policies(d)} \in SUBSET (1..live)
    OBVIOUS
  <2>4. IsFiniteSet({d \in 1..live : b \in Policies(d)})
    BY <2>2, <2>3, FS_Subset
  <2> QED
    BY <2>2, <2>4
<1>2. f \in Surjection(D, LimitsOf(b))
  BY DEF Surjection, LimitsOf
<1> HIDE DEF D, f
<1> QED
  BY <1>1, <1>2, FS_Surjection

\* No minute holds more charges than the highest cap the bucket has had, and each
\* charge of a policy is for one submission that passed all its caps
\* (check_and_record_keyed_at, check_and_record_policies, apply_config).
THEOREM BudgetsHoldCorrect == AdmissionSpec => []BudgetsHold
<1>1. ASSUME AdmissionInv PROVE BudgetsHold
  <2> SUFFICES ASSUME NEW b \in Bucket
               PROVE  /\ \A t \in 0..clock : Cardinality(Used(b, t)) <= Max({0} \union LimitsOf(b))
                      /\ b \notin Environment =>
                           Len(spent[b]) = Cardinality(Holding(b)) + Cardinality(CountedIn(b))
                                           + Cardinality(WastedOn(b))
    BY DEF BudgetsHold
  <2>1. PICK ts \in Seq(Nat) : ts = spent[b]
    BY <1>1 DEF AdmissionInv, AdmissionTypes
  <2>2. PICK L : L = {0} \union LimitsOf(b)
    OBVIOUS
  <2>3. L \in SUBSET Nat /\ L # {} /\ IsFiniteSet(L)
    <3>1. live \in 1..Len(Config) /\ caps \in 1..Len(Config)
      BY <1>1 DEF AdmissionInv, AdmissionTypes
    <3>2. LimitsOf(b) \subseteq Nat /\ IsFiniteSet(LimitsOf(b))
      BY <3>1, LimitsType, LimitsFinite
    <3>3. IsFiniteSet(LimitsOf(b) \union {0})
      BY <3>2, FS_AddElement
    <3>4. L = LimitsOf(b) \union {0}
      BY <2>2
    <3> QED
      BY <3>2, <3>3, <3>4
  <2>4. Max(L) \in L /\ \A k \in L : k <= Max(L)
    BY <2>3, FiniteLargest
  <2>5. PICK K \in Nat : K = Max(L)
    BY <2>3, <2>4
  <2>6. InTime(ts) /\ \A i \in 1..Len(ts) : \E k \in Nat : k <= K /\ SpacedAt(ts, i, k)
    BY <1>1, <2>1, <2>2, <2>3, <2>4, <2>5 DEF AdmissionInv, BucketsInv
  <2>7. ASSUME NEW t \in 0..clock PROVE Cardinality(Used(b, t)) <= K
    <3>1. t \in Nat
      OBVIOUS
    <3> QED
      BY <2>1, <2>6, <3>1, AtMost DEF Used
  <2>8. b \notin Environment =>
          Len(spent[b]) = Cardinality(Holding(b)) + Cardinality(CountedIn(b))
                          + Cardinality(WastedOn(b))
    BY <1>1 DEF AdmissionInv, Accounted
  <2> QED
    BY <2>2, <2>5, <2>7, <2>8
<1> QED
  BY <1>1, AdmissionInvCorrect, PTL

(***************************************************************************)
(* Literals.                                                               *)
(*                                                                         *)
(* What a list refers to is a set that expansion does not enlarge, but for *)
(* what templates refer to by themselves.  FlattenSeq and Passes are       *)
(* recursive functions, which must first be shown to exist; each is the    *)
(* function of the next smaller argument, with one more value.             *)
(***************************************************************************)
\* A list of things that refer to what is in G.
Refers(l, G) == \E S : l \in Seq(S) /\ \A e \in S : e.ref \in G

LEMMA RefersTo ==
  ASSUME NEW l, NEW G, Refers(l, G)
  PROVE  \A i \in DOMAIN l : l[i].ref \in G
BY DEF Refers

LEMMA RefersBehind ==
  ASSUME NEW l, NEW k, NEW G, Refers(l, G), Refers(k, G)
  PROVE  Refers(l \o k, G)
<1>1. PICK S : l \in Seq(S) /\ \A e \in S : e.ref \in G  BY DEF Refers
<1>2. PICK T : k \in Seq(T) /\ \A e \in T : e.ref \in G  BY DEF Refers
<1>3. \A A, B : A \subseteq B => Seq(A) \subseteq Seq(B)  OBVIOUS
<1>4. S \subseteq S \union T /\ T \subseteq S \union T  OBVIOUS
<1>5. l \in Seq(S \union T) /\ k \in Seq(S \union T)  BY <1>1, <1>2, <1>3, <1>4
<1>6. l \o k \in Seq(S \union T)  BY <1>5
<1>7. \A e \in S \union T : e.ref \in G  BY <1>1, <1>2
<1> QED  BY <1>6, <1>7 DEF Refers

\* Concatenating the first i of the lists s: the function that FlattenSeq takes.
Flat(f, s, n) == f = [i \in 1..n |-> IF i = 1 THEN s[i] ELSE f[i - 1] \o s[i]]

LEMMA FlatExists ==
  ASSUME NEW s, NEW n \in Nat
  PROVE  \E f : Flat(f, s, n)
<1> DEFINE Bad == {k \in Nat : ~\E f : Flat(f, s, k)}
<1>1. SUFFICES ASSUME Bad # {} PROVE FALSE  OBVIOUS
<1>2. PICK k \in Bad : \A j \in Bad : k <= j
  <2>1. Bad \subseteq Nat  OBVIOUS
  <2> HIDE DEF Bad
  <2> QED  BY <1>1, <2>1, LeastOf
<1>3. k \in Nat /\ ~\E f : Flat(f, s, k)  OBVIOUS
<1>4. CASE k = 0
  <2> DEFINE f == [i \in 1..0 |-> 0]
  <2>1. f = [i \in 1..0 |-> IF i = 1 THEN s[i] ELSE f[i - 1] \o s[i]]  OBVIOUS
  <2>2. Flat(f, s, 0)  BY <2>1 DEF Flat
  <2> QED  BY <1>3, <1>4, <2>2
<1>5. CASE k # 0
  <2>1. k - 1 \in Nat /\ ~(k <= k - 1)  BY <1>3, <1>5
  <2>2. k - 1 \notin Bad  BY <1>2, <2>1
  <2>3. PICK f : Flat(f, s, k - 1)  BY <2>1, <2>2
  <2>4. /\ DOMAIN f = 1..(k - 1)
        /\ \A i \in 1..(k - 1) : f[i] = IF i = 1 THEN s[i] ELSE f[i - 1] \o s[i]
    BY <2>3 DEF Flat
  <2> DEFINE end == IF k = 1 THEN s[k] ELSE f[k - 1] \o s[k]
             g == [i \in 1..k |-> IF i = k THEN end ELSE f[i]]
  <2>5. ASSUME NEW i \in 1..k PROVE g[i] = IF i = 1 THEN s[i] ELSE g[i - 1] \o s[i]
    <3>1. CASE i = k
      <4>1. g[i] = end  BY <3>1
      <4>2. k # 1 => k - 1 \in 1..k /\ k - 1 # k  BY <2>1
      <4>3. k # 1 => g[k - 1] = f[k - 1]  BY <4>2
      <4> HIDE DEF g
      <4> QED  BY <3>1, <4>1, <4>3
    <3>2. CASE i # k
      <4>1. i \in 1..(k - 1)  BY <1>3, <3>2
      <4>2. g[i] = f[i]  BY <3>2
      <4>3. i # 1 => i - 1 \in 1..k /\ i - 1 # k  BY <1>3, <4>1
      <4>4. i # 1 => g[i - 1] = f[i - 1]  BY <4>3
      <4> HIDE DEF g
      <4> QED  BY <2>4, <4>1, <4>2, <4>4
    <3> QED  BY <3>1, <3>2
  <2>6. g = [i \in 1..k |-> g[i]]  OBVIOUS
  <2> HIDE DEF g
  <2>7. g = [i \in 1..k |-> IF i = 1 THEN s[i] ELSE g[i - 1] \o s[i]]  BY <2>5, <2>6
  <2>8. Flat(g, s, k)  BY <2>7 DEF Flat
  <2> QED  BY <1>3, <2>8
<1> QED  BY <1>4, <1>5

LEMMA FlattenRefers ==
  ASSUME NEW U, NEW s \in Seq(U), NEW G, \A l \in U : Refers(l, G)
  PROVE  Refers(FlattenSeq(s), G)
<1> DEFINE n == Len(s)
<1>0. n \in Nat /\ DOMAIN s = 1..n /\ \A i \in 1..n : Refers(s[i], G)  OBVIOUS
<1>1. CASE n = 0
  <2>1. FlattenSeq(s) = s  BY <1>1 DEF FlattenSeq
  <2>2. s \in Seq({})  BY <1>1
  <2> QED  BY <2>1, <2>2 DEF Refers
<1>2. CASE n # 0
  <2> DEFINE f == CHOOSE f_1 : f_1 = [i \in 1..n |-> IF i = 1 THEN s[i] ELSE f_1[i - 1] \o s[i]]
             g == CHOOSE u : Flat(u, s, n)
  <2>1. f = g  BY DEF Flat
  <2>2. FlattenSeq(s) = f[n]  BY <1>0, <1>2 DEF FlattenSeq
  <2>3. \E u : Flat(u, s, n)  BY <1>0, FlatExists
  <2>4. Flat(g, s, n)  BY <2>3
  <2> HIDE DEF f, g, n
  <2>5. \A i \in 1..n : g[i] = IF i = 1 THEN s[i] ELSE g[i - 1] \o s[i]  BY <2>4 DEF Flat
  <2> DEFINE Bad == {k \in 1..n : ~Refers(g[k], G)}
  <2>6. Bad = {}
    <3>1. SUFFICES ASSUME Bad # {} PROVE FALSE  OBVIOUS
    <3>2. Bad \subseteq Nat  BY <1>0
    <3>3. PICK k \in Bad : \A j \in Bad : k <= j
      <4> HIDE DEF Bad
      <4> QED  BY <3>1, <3>2, LeastOf
    <3>4. k \in 1..n /\ ~Refers(g[k], G)  OBVIOUS
    <3>5. CASE k = 1  BY <1>0, <2>5, <3>4, <3>5
    <3>6. CASE k # 1
      <4>1. k - 1 \in 1..n /\ ~(k <= k - 1)  BY <1>0, <3>4, <3>6
      <4>2. Refers(g[k - 1], G)  BY <3>3, <4>1
      <4>3. g[k] = g[k - 1] \o s[k] /\ Refers(s[k], G)  BY <1>0, <2>5, <3>4, <3>6
      <4>4. Refers(g[k - 1] \o s[k], G)  BY <4>2, <4>3, RefersBehind
      <4> QED  BY <3>4, <4>3, <4>4
    <3> QED  BY <3>5, <3>6
  <2>7. n \in 1..n  BY <1>0, <1>2
  <2> QED  BY <2>1, <2>2, <2>6, <2>7
<1> QED  BY <1>1, <1>2

\* What the templates of the modules ms refer to by themselves.
TemplateRefs(ms) == UNION {{ms[m].items[i].ref : i \in DOMAIN ms[m].items} : m \in DOMAIN ms}

LEMMA BuiltInItems ==
  ASSUME NEW kind \in BuiltIn, NEW ms
  PROVE  \E S : TemplateOf(kind, ms).items \in Seq(S) /\ \A e \in S : e.ref \in {NoRef, Passed}
<1> DEFINE S == {Primitive("docker.container", Passed), Primitive("nginx.vhost", NoRef),
                 Primitive("file", NoRef), Primitive("cron.job", Passed), Primitive("cron.job", NoRef)}
<1>1. \A k, r : Primitive(k, r).ref = r  BY DEF Primitive, Item
<1>2. \A e \in S : e.ref \in {NoRef, Passed}  BY <1>1
<1>3. \A a, b, i : Template(a, b, i).items = i  BY DEF Template
<1>4. Web \in Seq(S) /\ Cron \in Seq(S) /\ <<Primitive("file", NoRef), Primitive("cron.job", NoRef)>> \in Seq(S)
  <2>1. \A U : \A a, b \in U : <<a, b>> \in Seq(U)  OBVIOUS
  <2>2. /\ Primitive("docker.container", Passed) \in S /\ Primitive("nginx.vhost", NoRef) \in S
        /\ Primitive("file", NoRef) \in S /\ Primitive("cron.job", Passed) \in S
        /\ Primitive("cron.job", NoRef) \in S
    OBVIOUS
  <2> HIDE DEF S
  <2> QED  BY <2>1, <2>2 DEF Web, Cron
<1> HIDE DEF S
<1>5. Web \o <<Primitive("file", NoRef), Primitive("cron.job", NoRef)>> \in Seq(S)  BY <1>4
<1>6. TemplateOf(kind, ms) \in {expand_service, expand_cron_job_bundle, expand_web_with_monitoring}
  BY DEF BuiltIn, TemplateOf
<1>7. /\ expand_service.items = Web /\ expand_cron_job_bundle.items = Cron
      /\ expand_web_with_monitoring.items = Web \o <<Primitive("file", NoRef), Primitive("cron.job", NoRef)>>
  BY <1>3 DEF expand_service, expand_cron_job_bundle, expand_web_with_monitoring
<1>8. TemplateOf(kind, ms).items \in Seq(S)  BY <1>4, <1>5, <1>6, <1>7
<1> QED  BY <1>2, <1>8

\* A template refers to what its module does and to what its field holds.
LEMMA ModuleRefers ==
  ASSUME NEW ms, \A m \in DOMAIN ms : IsList(ms[m].items), NEW G, TemplateRefs(ms) \union {NoRef} \subseteq G,
         NEW r, r.ref \in G, is_composite_kind(r.kind, ms)
  PROVE  Refers(expand_module(r, ms), G)
<1> DEFINE items == TemplateOf(r.kind, ms).items
<1>1. \E S : items \in Seq(S) /\ \A i \in DOMAIN items : items[i].ref \in G \union {Passed}
  <2>1. CASE r.kind \in BuiltIn
    <3>1. PICK S : items \in Seq(S) /\ \A e \in S : e.ref \in {NoRef, Passed}  BY <2>1, BuiltInItems
    <3>2. \A i \in DOMAIN items : items[i] \in S  BY <3>1
    <3> HIDE DEF items
    <3> QED  BY <3>1, <3>2
  <2>2. CASE r.kind \notin BuiltIn
    <3>1. r.kind \in DOMAIN ms  BY <2>2 DEF is_composite_kind
    <3>2. items = ms[r.kind].items  BY <2>2 DEF TemplateOf, BuiltIn
    <3>3. items \in Seq(ToSet(items))  BY <3>1, <3>2 DEF IsList
    <3>4. \A i \in DOMAIN items : items[i].ref \in TemplateRefs(ms)  BY <3>1, <3>2 DEF TemplateRefs
    <3> HIDE DEF items
    <3> QED  BY <3>3, <3>4
  <2> QED  BY <2>1, <2>2
<1> HIDE DEF items
<1>2. DOMAIN items = 1..Len(items) /\ Len(items) \in Nat  BY <1>1
<1>3. \A i \in DOMAIN items : Rendered(items[i], r).ref \in G  BY <1>1 DEF Rendered
<1> DEFINE S == {Rendered(items[i], r) : i \in DOMAIN items}
           l == [i \in DOMAIN items |-> Rendered(items[i], r)]
<1>4. l \in Seq(S)
  <2>1. l \in [1..Len(items) -> S]  BY <1>2
  <2> QED  BY <1>2, <2>1
<1>5. \A e \in S : e.ref \in G  BY <1>3
<1>6. expand_module(r, ms) = l  BY DEF expand_module, items
<1> HIDE DEF S, l
<1> QED  BY <1>4, <1>5, <1>6 DEF Refers

LEMMA OnePassRefers ==
  ASSUME NEW ms, \A m \in DOMAIN ms : IsList(ms[m].items), NEW G, TemplateRefs(ms) \union {NoRef} \subseteq G,
         NEW rs, Refers(rs, G)
  PROVE  Refers(expand_resources_one_pass(rs, ms), G)
<1> DEFINE X(i) == IF is_composite_kind(rs[i].kind, ms) THEN expand_module(rs[i], ms) ELSE <<rs[i]>>
           s == [i \in DOMAIN rs |-> X(i)]
           U == {X(i) : i \in DOMAIN rs}
<1>1. PICK S : rs \in Seq(S) /\ \A e \in S : e.ref \in G  BY DEF Refers
<1>2. DOMAIN rs = 1..Len(rs) /\ Len(rs) \in Nat /\ \A i \in DOMAIN rs : rs[i] \in S  BY <1>1
<1>3. ASSUME NEW i \in DOMAIN rs PROVE Refers(X(i), G)
  <2>1. rs[i].ref \in G  BY <1>1, <1>2
  <2>2. CASE is_composite_kind(rs[i].kind, ms)
    <3>1. Refers(expand_module(rs[i], ms), G)  BY <2>1, <2>2, ModuleRefers
    <3> QED  BY <2>2, <3>1
  <2>3. CASE ~is_composite_kind(rs[i].kind, ms)
    <3>1. <<rs[i]>> \in Seq({rs[i]}) /\ \A e \in {rs[i]} : e.ref \in G  BY <2>1
    <3>2. Refers(<<rs[i]>>, G)  BY <3>1 DEF Refers
    <3> QED  BY <2>3, <3>2
  <2> QED  BY <2>2, <2>3
<1>4. expand_resources_one_pass(rs, ms) = FlattenSeq(s)  BY DEF expand_resources_one_pass
<1> HIDE DEF X
<1>5. s \in Seq(U)
  <2>1. s \in [1..Len(rs) -> U]  BY <1>2
  <2> QED  BY <1>2, <2>1
<1>6. \A l \in U : Refers(l, G)  BY <1>3
<1> HIDE DEF s, U
<1> QED  BY <1>4, <1>5, <1>6, FlattenRefers

\* The passes: the function that Passes takes.
Passing(f, rs, ms, max) ==
  f = [n \in 0..max |-> IF n = 0 THEN rs ELSE expand_resources_one_pass(f[n - 1], ms)]

LEMMA PassingExists ==
  ASSUME NEW rs, NEW ms, NEW max \in Nat
  PROVE  \E f : Passing(f, rs, ms, max)
<1> DEFINE Bad == {k \in Nat : ~\E f : Passing(f, rs, ms, k)}
<1>1. SUFFICES ASSUME Bad # {} PROVE FALSE  OBVIOUS
<1>2. PICK k \in Bad : \A j \in Bad : k <= j
  <2>1. Bad \subseteq Nat  OBVIOUS
  <2> HIDE DEF Bad
  <2> QED  BY <1>1, <2>1, LeastOf
<1>3. k \in Nat /\ ~\E f : Passing(f, rs, ms, k)  OBVIOUS
<1>4. CASE k = 0
  <2> DEFINE f == [n \in 0..0 |-> rs]
  <2>1. f = [n \in 0..0 |-> IF n = 0 THEN rs ELSE expand_resources_one_pass(f[n - 1], ms)]
    OBVIOUS
  <2>2. Passing(f, rs, ms, 0)  BY <2>1 DEF Passing
  <2> QED  BY <1>3, <1>4, <2>2
<1>5. CASE k # 0
  <2>1. k - 1 \in Nat /\ ~(k <= k - 1)  BY <1>3, <1>5
  <2>2. k - 1 \notin Bad  BY <1>2, <2>1
  <2>3. PICK f : Passing(f, rs, ms, k - 1)  BY <2>1, <2>2
  <2>4. /\ DOMAIN f = 0..(k - 1)
        /\ \A n \in 0..(k - 1) : f[n] = IF n = 0 THEN rs ELSE expand_resources_one_pass(f[n - 1], ms)
    BY <2>3 DEF Passing
  <2> DEFINE g == [n \in 0..k |-> IF n = k THEN expand_resources_one_pass(f[k - 1], ms) ELSE f[n]]
  <2>5. ASSUME NEW n \in 0..k
        PROVE  g[n] = IF n = 0 THEN rs ELSE expand_resources_one_pass(g[n - 1], ms)
    <3>1. CASE n = k
      <4>1. g[n] = expand_resources_one_pass(f[k - 1], ms)  BY <3>1
      <4>2. k - 1 \in 0..k /\ k - 1 # k  BY <2>1
      <4>3. g[k - 1] = f[k - 1]  BY <4>2
      <4> HIDE DEF g
      <4> QED  BY <1>5, <3>1, <4>1, <4>3
    <3>2. CASE n # k
      <4>1. n \in 0..(k - 1)  BY <1>3, <3>2
      <4>2. g[n] = f[n]  BY <3>2
      <4>3. n # 0 => n - 1 \in 0..k /\ n - 1 # k  BY <1>3, <4>1
      <4>4. n # 0 => g[n - 1] = f[n - 1]  BY <4>3
      <4> HIDE DEF g
      <4> QED  BY <2>4, <4>1, <4>2, <4>4
    <3> QED  BY <3>1, <3>2
  <2>6. g = [n \in 0..k |-> g[n]]  OBVIOUS
  <2> HIDE DEF g
  <2>7. g = [n \in 0..k |-> IF n = 0 THEN rs ELSE expand_resources_one_pass(g[n - 1], ms)]  BY <2>5, <2>6
  <2>8. Passing(g, rs, ms, k)  BY <2>7 DEF Passing
  <2> QED  BY <1>3, <2>8
<1> QED  BY <1>4, <1>5

\* What an expansion refers to is what the list and the modules refer to.
LEMMA ExpansionRefers ==
  ASSUME NEW ms, \A m \in DOMAIN ms : IsList(ms[m].items), NEW G, TemplateRefs(ms) \union {NoRef} \subseteq G,
         NEW rs, Refers(rs, G), NEW max \in Nat
  PROVE  Refers(Passes(rs, ms, max).list, G)
<1> DEFINE f == CHOOSE f_1 : f_1 = [n \in 0..max |-> IF n = 0 THEN rs ELSE expand_resources_one_pass(f_1[n - 1], ms)]
           g == CHOOSE u : Passing(u, rs, ms, max)
           unchanged(c) == {n \in 0..max : \A i \in DOMAIN c[n] : ~is_composite_kind(c[n][i].kind, ms)}
           malformed(c) == {n \in 0..max : \E i \in DOMAIN c[n] : Malformed(c[n][i], ms)}
<1>1. f = g  BY DEF Passing
<1>2. Passes(rs, ms, max) = IF unchanged(f) = {} \/ (\E n \in malformed(f) : n < Min(unchanged(f))) THEN Refused
                            ELSE [list |-> f[Min(unchanged(f))], ok |-> TRUE]
  BY Zenon DEF Passes
<1>3. \E u : Passing(u, rs, ms, max)  BY PassingExists
<1>4. Passing(g, rs, ms, max)  BY <1>3
<1> HIDE DEF f, g
<1>5. \A n \in 0..max : g[n] = IF n = 0 THEN rs ELSE expand_resources_one_pass(g[n - 1], ms)
  BY <1>4 DEF Passing
<1> DEFINE Bad == {k \in 0..max : ~Refers(g[k], G)}
<1>6. Bad = {}
  <2>1. SUFFICES ASSUME Bad # {} PROVE FALSE  OBVIOUS
  <2>2. Bad \subseteq Nat  OBVIOUS
  <2>3. PICK k \in Bad : \A j \in Bad : k <= j
    <3> HIDE DEF Bad
    <3> QED  BY <2>1, <2>2, LeastOf
  <2>4. k \in 0..max /\ ~Refers(g[k], G)  OBVIOUS
  <2>5. CASE k = 0  BY <1>5, <2>4, <2>5
  <2>6. CASE k # 0
    <3>1. k - 1 \in 0..max /\ ~(k <= k - 1)  BY <2>4, <2>6
    <3>2. Refers(g[k - 1], G)  BY <2>3, <3>1
    <3>3. g[k] = expand_resources_one_pass(g[k - 1], ms)  BY <1>5, <2>4, <2>6
    <3>4. Refers(expand_resources_one_pass(g[k - 1], ms), G)  BY <3>2, OnePassRefers
    <3> QED  BY <2>4, <3>3, <3>4
  <2> QED  BY <2>5, <2>6
<1>7. Refers(<<>>, G)
  <2>1. <<>> \in Seq({})  OBVIOUS
  <2> QED  BY <2>1 DEF Refers
<1>8. CASE Passes(rs, ms, max) = Refused  BY <1>7, <1>8 DEF Refused
<1>9. CASE unchanged(f) # {} /\ Passes(rs, ms, max) = [list |-> f[Min(unchanged(f))], ok |-> TRUE]
  <2>1. unchanged(f) \subseteq 0..max  OBVIOUS
  <2> DEFINE D == unchanged(f)
  <2> HIDE DEF D
  <2>2. D \subseteq Nat /\ D # {} /\ D \subseteq 0..max  BY <1>9, <2>1 DEF D
  <2>3. Min(D) \in 0..max  BY <2>2, Smallest
  <2>4. Refers(g[Min(D)], G)  BY <1>6, <2>3
  <2>5. Passes(rs, ms, max).list = f[Min(D)]  BY <1>9 DEF D
  <2> QED  BY <1>1, <2>4, <2>5
<1> HIDE DEF unchanged, malformed
<1> QED  BY <1>2, <1>8, <1>9

\* Nothing that needs a resolver has passed the probe.
Resolved(f) ==
  f.pc \in {"probed", "expanded", "evaluated", "admitted"} => Refs(Request[f.req].list) = {}

LiteralInv ==
  /\ ~registry => \A h \in Handler : Resolved(handlers[h])
  /\ ~registry => \A o \in 1..Len(admitted) : Refs(Request[admitted[o].req].list) = {}
  /\ \A x \in sent : ~registry /\ x[1] \in 1..Len(admitted) /\ x[2] \in Refs(admitted[x[1]].list)

LEMMA LiteralMoves ==
  ASSUME AdmissionTypes, LiteralInv, NEW h \in Handler, NEW f, Become(h, f), ~registry => Resolved(f),
         UNCHANGED <<registry, admitted, sent>>
  PROVE  LiteralInv'
<1>1. DOMAIN handlers = Handler  BY DEF AdmissionTypes
<1>2. \A g \in Handler : handlers'[g] = IF g = h THEN f ELSE handlers[g]  BY <1>1 DEF Become
<1>3. ~registry => \A g \in Handler : Resolved(handlers'[g])  BY <1>2 DEF LiteralInv
<1> QED  BY <1>3 DEF LiteralInv, Resolved

LEMMA LiteralSubmit ==
  ASSUME AdmissionTypes, LiteralInv, NEW h \in Handler, submitStep(h)
  PROVE  LiteralInv'
<1> DEFINE f == handlers[h]
<1>1. UNCHANGED <<registry, admitted, sent>>  BY DEF submitStep
<1>2. ~registry => Resolved(f)  BY DEF LiteralInv
<1>3. CASE Maintained(h)
  <2>1. PICK row : row = At("open", f.req, 0, <<>>, {})  OBVIOUS
  <2>2. Become(h, row)  BY <1>3, <2>1 DEF Maintained
  <2>3. Resolved(row)  BY <2>1, AtRow DEF Resolved
  <2> QED  BY <1>1, <2>2, <2>3, LiteralMoves
<1>4. CASE Probed(h)
  <2>1. PICK row : row = At("probed", f.req, 0, <<>>, {})  OBVIOUS
  <2>2. Become(h, row) /\ MayRefer(Refs(Request[f.req].list))  BY <1>4, <2>1 DEF Probed
  <2>3. row.req = f.req  BY <2>1, AtRow
  <2>4. ~registry => Resolved(row)  BY <2>2, <2>3 DEF Resolved, MayRefer
  <2> QED  BY <1>1, <2>2, <2>4, LiteralMoves
<1>5. CASE Expanded(h)
  <2>1. PICK row : row = At("expanded", f.req, live, Expansions[live][f.req].list, {})  OBVIOUS
  <2>2. Become(h, row) /\ f.pc = "probed"  BY <1>5, <2>1 DEF Expanded
  <2>3. row.req = f.req  BY <2>1, AtRow
  <2>4. ~registry => Resolved(row)  BY <1>2, <2>2, <2>3 DEF Resolved
  <2> QED  BY <1>1, <2>2, <2>4, LiteralMoves
<1>6. CASE Evaluated(h)
  <2>1. PICK row : row = At("evaluated", f.req, f.cfg, f.list, MatchedBy(f.cfg, f.req, f.list))  OBVIOUS
  <2>2. Become(h, row) /\ f.pc = "expanded"  BY <1>6, <2>1 DEF Evaluated
  <2>3. row.req = f.req  BY <2>1, AtRow
  <2>4. ~registry => Resolved(row)  BY <1>2, <2>2, <2>3 DEF Resolved
  <2> QED  BY <1>1, <2>2, <2>4, LiteralMoves
<1> QED  BY <1>3, <1>4, <1>5, <1>6 DEF submitStep

LEMMA LiteralHandler ==
  ASSUME AdmissionTypes, LiteralInv, NEW h \in Handler,
         (\E q \in DOMAIN Request : Arrive(h, q)) \/ PolicyCharged(h) \/ Dropped(h)
  PROVE  LiteralInv'
<1> DEFINE f == handlers[h]
<1>1. Resolved(Free)  BY FreeRow DEF Resolved
<1>2. CASE \E q \in DOMAIN Request : Arrive(h, q)
  <2>1. PICK q \in DOMAIN Request : Arrive(h, q)  BY <1>2
  <2>2. PICK row : row = At("budget", q, 0, <<>>, {})  OBVIOUS
  <2>3. Become(h, row) /\ UNCHANGED <<registry, admitted, sent>>  BY <2>1, <2>2 DEF Arrive
  <2>4. Resolved(row)  BY <2>2, AtRow DEF Resolved
  <2> QED  BY <2>3, <2>4, LiteralMoves
<1>3. CASE PolicyCharged(h)
  <2>1. PICK row : row = At("admitted", f.req, f.cfg, f.list, f.matched)  OBVIOUS
  <2>2. PICK b : b = IF check_and_record(Capped(h), CapsOf(h)) = Capped(h) THEN row ELSE Free  OBVIOUS
  <2>3. Become(h, b) /\ f.pc = "evaluated" /\ UNCHANGED <<registry, admitted, sent>>
    BY <1>3, <2>1, <2>2 DEF PolicyCharged
  <2>4. row.req = f.req  BY <2>1, AtRow
  <2>5. ~registry => Resolved(row)  BY <2>3, <2>4 DEF LiteralInv, Resolved
  <2>6. b = row \/ b = Free  BY <2>2
  <2> QED  BY <1>1, <2>3, <2>5, <2>6, LiteralMoves
<1>4. CASE Dropped(h)
  <2>1. Become(h, Free) /\ UNCHANGED <<registry, admitted, sent>>  BY <1>4 DEF Dropped
  <2> QED  BY <1>1, <2>1, LiteralMoves
<1> QED  BY <1>2, <1>3, <1>4

LEMMA LiteralCreated ==
  ASSUME AdmissionTypes, LiteralInv, NEW h \in Handler, Created(h)
  PROVE  LiteralInv'
<1> DEFINE f == handlers[h]
           held == \E p \in f.matched : Config[f.cfg].policies[p].requires_approval
<1>1. f.pc = "admitted" /\ Become(h, Free) /\ UNCHANGED <<registry, sent>>  BY DEF Created
<1>2. ~registry => Refs(Request[f.req].list) = {}  BY <1>1 DEF LiteralInv, Resolved
<1>3. Resolved(Free)  BY FreeRow DEF Resolved
<1>4. CASE UNCHANGED admitted  BY <1>1, <1>3, <1>4, LiteralMoves
<1>5. CASE ~UNCHANGED admitted
  <2>1. PICK row : row = [list |-> f.list, req |-> f.req, cfg |-> f.cfg, matched |-> f.matched,
                          status |-> IF held THEN "pending_approval" ELSE "running"]
    OBVIOUS
  <2>2. admitted' = Append(admitted, row)  BY <1>5, <2>1 DEF Created
  <2>3. row.req = f.req  BY <2>1
  <2>4. admitted \in Seq(AdmittedRow)  BY DEF AdmissionTypes
  <2>5. PICK n \in Nat : n = Len(admitted)  BY <2>4
  <2>6. Len(admitted') = n + 1 /\ admitted'[n + 1] = row /\ \A o \in 1..n : admitted'[o] = admitted[o]
    BY <2>2, <2>4, <2>5
  <2>7. \A g \in Handler : handlers'[g] = IF g = h THEN Free ELSE handlers[g]
    BY <1>1 DEF Become, AdmissionTypes
  <2>8. ~registry => \A g \in Handler : Resolved(handlers'[g])  BY <1>3, <2>7 DEF LiteralInv
  <2>9. ~registry => \A o \in 1..(n + 1) : Refs(Request[admitted'[o].req].list) = {}
    <3>1. \A o \in 1..(n + 1) : o \in 1..n \/ o = n + 1  OBVIOUS
    <3> QED  BY <1>2, <2>3, <2>5, <2>6, <3>1 DEF LiteralInv
  <2>10. \A x \in sent : ~registry /\ x[1] \in 1..(n + 1) /\ x[2] \in Refs(admitted'[x[1]].list)
    <3>1. \A o \in 1..n : o \in 1..(n + 1)  OBVIOUS
    <3> QED  BY <2>5, <2>6, <3>1 DEF LiteralInv
  <2> QED  BY <1>1, <2>6, <2>8, <2>9, <2>10 DEF LiteralInv, Resolved
<1> QED  BY <1>4, <1>5

LEMMA LiteralDecided ==
  ASSUME AdmissionTypes, LiteralInv, NEW o \in DOMAIN admitted, NEW status, Decided(o, status)
  PROVE  LiteralInv'
<1>1. admitted \in Seq(AdmittedRow) /\ DOMAIN admitted = 1..Len(admitted)  BY DEF AdmissionTypes
<1>2. admitted' = [admitted EXCEPT ![o].status = status] /\ UNCHANGED <<registry, handlers, sent>>
  BY DEF Decided
<1>3. Len(admitted') = Len(admitted)  BY <1>1, <1>2
<1>4. \A p \in 1..Len(admitted) : admitted'[p].req = admitted[p].req /\ admitted'[p].list = admitted[p].list
  BY <1>1, <1>2 DEF AdmittedRow
<1>5. ~registry => \A p \in 1..Len(admitted) : Refs(Request[admitted'[p].req].list) = {}
  BY <1>4 DEF LiteralInv
<1>6. \A x \in sent : ~registry /\ x[1] \in 1..Len(admitted) /\ x[2] \in Refs(admitted'[x[1]].list)
  BY <1>4 DEF LiteralInv
<1> QED  BY <1>2, <1>3, <1>5, <1>6 DEF LiteralInv, Resolved

LEMMA LiteralSent ==
  ASSUME AdmissionTypes, LiteralInv, NEW o \in DOMAIN admitted, list_assignments(o)
  PROVE  LiteralInv'
<1>1. DOMAIN admitted = 1..Len(admitted)  BY DEF AdmissionTypes
<1> DEFINE refs == Refs(admitted[o].list)
<1>2. UNCHANGED <<registry, handlers, admitted>> /\ sent' = sent \cup (IF registry THEN {} ELSE {o} \X refs)
  BY DEF list_assignments
<1>3. \A x \in sent' : x \in sent \/ (~registry /\ x[1] = o /\ x[2] \in refs)  BY <1>2
<1>4. \A x \in sent' : ~registry /\ x[1] \in 1..Len(admitted) /\ x[2] \in Refs(admitted[x[1]].list)
  BY <1>1, <1>3 DEF LiteralInv
<1> QED  BY <1>2, <1>4 DEF LiteralInv, Resolved

\* LiteralsComeFromTemplates: submit refuses a list with references when there is
\* no registry, and what an expansion refers to is what the list and the modules
\* of its configuration refer to; so what list_assignments sends as it is stored
\* came from a template.
THEOREM LiteralsComeFromTemplatesCorrect == AdmissionSpec => []LiteralsComeFromTemplates
<1>1. AdmissionInit => LiteralInv
  <2>1. SUFFICES ASSUME AdmissionInit PROVE LiteralInv  OBVIOUS
  <2>2. \A h \in Handler : handlers[h] = Free  BY <2>1 DEF AdmissionInit
  <2>3. \A h \in Handler : Resolved(handlers[h])  BY <2>2, FreeRow DEF Resolved
  <2>4. admitted = <<>> /\ sent = {}  BY <2>1 DEF AdmissionInit
  <2> QED  BY <2>3, <2>4 DEF LiteralInv
<1>2. AdmissionInv /\ LiteralInv /\ [AdmissionNext]_admissionVars => LiteralInv'
  <2>1. SUFFICES ASSUME AdmissionInv, LiteralInv, [AdmissionNext]_admissionVars PROVE LiteralInv'
    OBVIOUS
  <2>2. AdmissionTypes  BY <2>1 DEF AdmissionInv
  <2>3. CASE UNCHANGED admissionVars
    <3>1. UNCHANGED <<registry, handlers, admitted, sent>>  BY <2>3 DEF admissionVars
    <3> QED  BY <2>1, <3>1 DEF LiteralInv, Resolved
  <2>4. CASE \E h \in Handler : \/ (\E q \in DOMAIN Request : Arrive(h, q))
                                \/ submitStep(h) \/ PolicyCharged(h) \/ Created(h) \/ Dropped(h)
    BY <2>1, <2>2, <2>4, LiteralSubmit, LiteralHandler, LiteralCreated
  <2>5. CASE \E o \in DOMAIN admitted : \/ \E u \in User : approve_op(u, o)
                                        \/ reject_op(o) \/ list_assignments(o)
    BY <2>1, <2>2, <2>5, LiteralDecided, LiteralSent DEF approve_op, reject_op
  <2>6. CASE reload_config \/ ClockTicks \/ VaultChanges
    <3>1. UNCHANGED <<registry, handlers, admitted, sent>>
      BY <2>6 DEF reload_config, ClockTicks, VaultChanges
    <3> QED  BY <2>1, <3>1 DEF LiteralInv, Resolved
  <2> QED  BY <2>1, <2>3, <2>4, <2>5, <2>6 DEF AdmissionNext
<1>3. AdmissionInv /\ LiteralInv => LiteralsComeFromTemplates
  <2>1. SUFFICES ASSUME AdmissionInv, LiteralInv, NEW x \in sent
                 PROVE  LET mods == Config[admitted[x[1]].cfg].modules IN
                        /\ ~registry
                        /\ \E m \in DOMAIN mods : \E i \in DOMAIN mods[m].items : mods[m].items[i].ref = x[2]
    BY DEF LiteralsComeFromTemplates
  <2>2. PICK a : a = admitted[x[1]]  OBVIOUS
  <2>3. /\ ~registry /\ x[1] \in 1..Len(admitted) /\ x[2] \in Refs(a.list)
        /\ Refs(Request[a.req].list) = {}
    BY <2>1, <2>2 DEF LiteralInv
  <2>4. /\ a.cfg \in 1..live /\ a.list = Expansions[a.cfg][a.req].list /\ a \in AdmittedRow
    BY <2>1, <2>2, <2>3 DEF AdmissionInv, FoundInv, Expands, AdmissionTypes
  <2>5. a.cfg \in DOMAIN Config /\ a.req \in DOMAIN Request
    <3>1. live \in 1..Len(Config) /\ DOMAIN Config = 1..Len(Config) /\ Len(Config) \in Nat
      BY <2>1, AdmissionAssumption DEF AdmissionInv, AdmissionTypes
    <3> QED  BY <2>4, <3>1 DEF AdmittedRow
  <2> DEFINE ms == Config[a.cfg].modules
             rs == Request[a.req].list
             G == TemplateRefs(ms) \union {NoRef}
  <2>6. a.list = Passes(rs, ms, MaxDepth).list
    BY <2>4, <2>5 DEF Expansions, expand_resources
  <2>7. (\A m \in DOMAIN ms : IsList(ms[m].items)) /\ IsList(rs) /\ MaxDepth \in Nat
    BY <2>5, AdmissionAssumption, ExpansionAssumption
  <2>8. Refers(rs, G)
    <3>1. \A i \in DOMAIN rs : rs[i].ref = NoRef  BY <2>3 DEF Refs
    <3>2. \A e \in ToSet(rs) : e.ref \in G  BY <3>1 DEF ToSet
    <3> HIDE DEF rs, G
    <3> QED  BY <2>7, <3>2 DEF IsList, Refers
  <2>9. TemplateRefs(ms) \union {NoRef} \subseteq G  OBVIOUS
  <2> HIDE DEF ms, rs, G
  <2>10. Refers(a.list, G)  BY <2>6, <2>7, <2>8, <2>9, ExpansionRefers
  <2>11. \A i \in DOMAIN a.list : a.list[i].ref \in G  BY <2>10, RefersTo
  <2>12. x[2] \in TemplateRefs(ms)  BY <2>3, <2>11 DEF Refs, G
  <2>13. PICK m \in DOMAIN ms : x[2] \in {ms[m].items[i].ref : i \in DOMAIN ms[m].items}
    BY <2>12 DEF TemplateRefs
  <2>14. PICK i \in DOMAIN ms[m].items : ms[m].items[i].ref = x[2]  BY <2>13
  <2>15. ms = Config[admitted[x[1]].cfg].modules  BY <2>2 DEF ms
  <2> QED  BY <2>3, <2>14, <2>15
<1> QED  BY <1>1, <1>2, <1>3, AdmissionInvCorrect, PTL DEF AdmissionSpec

(***************************************************************************)
(* Sort and layers.                                                        *)
(*                                                                         *)
(* A resource is queued when all it depends on is in the result,           *)
(* so the result is in the order of the dependencies (Sorting), and what   *)
(* is left when the queue is empty depends on what is left.  The function  *)
(* that compute_resource_layers is compared with is the only one with its  *)
(* equation, since there is no cycle; the layers found are another one.    *)
(***************************************************************************)

\* No two resources of a list have the same id.
DistinctIds == \A l \in IdList : \A i, j \in DOMAIN l : l[i] = l[j] => i = j

Taken == ToSet(order)
Waiting == ToSet(queue)

NoTwice(q) == \A i, j \in DOMAIN q : q[i] = q[j] => i = j

Clean == \A i \in Node : deps[i] \subseteq Node /\ i \notin deps[i]

\* A list of positions, each after those it depends on.
Ordered ==
  /\ order \in Seq(Node) /\ NoTwice(order)
  /\ \A k \in DOMAIN order : \A d \in deps[order[k]] : \E m \in DOMAIN order : m < k /\ order[m] = d

Sorting ==
  /\ queue \in Seq(Node) /\ NoTwice(queue) /\ Taken \cap Waiting = {}
  /\ \A i \in Node : inDegree[i] = Cardinality(deps[i] \ Taken)
  /\ \A i \in Node : i \in Taken \union Waiting <=> deps[i] \subseteq Taken

LayersFound ==
  /\ Taken = Node
  /\ Len(layers) \in 0..Len(order)
  /\ \A k \in 1..Len(layers) : layers[k] = NextLayer(order[k])

SortInv ==
  /\ ids \in Seq(Id) /\ \A i, j \in Node : ids[i] = ids[j] => i = j
  /\ dependsOn \in [Node -> SUBSET Id]
  /\ pc \in {"build", "sort", "layers", "done", "bad_request"}
  /\ pc = "build" => order = <<>> /\ layers = <<>> /\ inDegree \in [Node -> {0}]
  /\ pc = "sort" => Clean /\ Ordered /\ Sorting /\ layers = <<>>
  /\ pc \in {"layers", "done"} => Clean /\ Ordered /\ LayersFound
  /\ pc = "done" => Len(layers) = Len(order)
  /\ pc = "bad_request" => ~R!Sortable(deps)

\* The k-th of a finite set of numbers.
LEMMA RankFinds ==
  ASSUME NEW n \in Nat, NEW S \in SUBSET (1..n)
  PROVE  /\ IsFiniteSet(S) /\ Cardinality(S) \in Nat
         /\ \A k \in 1..Cardinality(S) : \E i \in S : Cardinality({j \in S : j <= i}) = k
<1> DEFINE c == Cardinality(S)
           Up(i) == {j \in S : j <= i}
           rank == [i \in S |-> Cardinality(Up(i))]
<1>1. IsFiniteSet(S) /\ c \in Nat
  <2>1. IsFiniteSet(1..n)  BY FS_Interval
  <2> QED  BY <2>1, FS_Subset, FS_CardinalityType
<1>2. \A i \in S : IsFiniteSet(Up(i)) /\ Cardinality(Up(i)) \in Nat /\ Cardinality(Up(i)) <= c /\ i \in Up(i)
  <2>1. ASSUME NEW i \in S
        PROVE  IsFiniteSet(Up(i)) /\ Cardinality(Up(i)) \in Nat /\ Cardinality(Up(i)) <= c /\ i \in Up(i)
    <3>1. Up(i) \in SUBSET S  OBVIOUS
    <3> HIDE DEF Up
    <3>2. IsFiniteSet(Up(i)) /\ Cardinality(Up(i)) <= c /\ Cardinality(Up(i)) \in Nat
      BY <1>1, <3>1, FS_Subset, FS_CardinalityType
    <3> QED  BY <3>2 DEF Up
  <2> QED  BY <2>1
<1>3. \A i \in S : Cardinality(Up(i)) # 0
  <2>1. ASSUME NEW i \in S PROVE Cardinality(Up(i)) # 0
    <3> DEFINE U == Up(i)
    <3>1. IsFiniteSet(U) /\ U # {}  BY <1>2
    <3> HIDE DEF U
    <3> QED  BY <3>1, FS_EmptySet DEF U
  <2> QED  BY <2>1
<1>4. \A a, b \in S : a < b => Cardinality(Up(a)) # Cardinality(Up(b))
  <2>1. ASSUME NEW a \in S, NEW b \in S, a < b PROVE Cardinality(Up(a)) # Cardinality(Up(b))
    <3> DEFINE U == Up(a)
               V == Up(b)
    <3>1. IsFiniteSet(V) /\ b \in V /\ b \notin U  BY <1>2, <2>1
    <3>3. U \in SUBSET V
      <4>1. \A j \in S : j \in Nat  OBVIOUS
      <4>2. ASSUME NEW j \in U PROVE j \in V
        <5>1. j \in S /\ j <= a  OBVIOUS
        <5>2. j \in Nat /\ a \in Nat /\ b \in Nat  BY <4>1, <5>1
        <5> QED  BY <2>1, <5>1, <5>2
      <4> QED  BY <4>2
    <3> HIDE DEF U, V
    <3>2. Cardinality(U) # Cardinality(V)  BY <3>1, <3>3, FS_Subset
    <3> QED  BY <3>2 DEF U, V
  <2> QED  BY <2>1
<1>5. rank \in [S -> 1..c]  BY <1>1, <1>2, <1>3
<1>6. \A a, b \in S : rank[a] = rank[b] => a = b
  <2>1. ASSUME NEW a \in S, NEW b \in S, rank[a] = rank[b] PROVE a = b
    <3>1. a \in Nat /\ b \in Nat  OBVIOUS
    <3>2. ~(a < b) /\ ~(b < a)  BY <1>4, <2>1
    <3> QED  BY <3>1, <3>2
  <2> QED  BY <2>1
<1> HIDE DEF rank
<1>7. rank \in Injection(S, 1..c)  BY <1>5, <1>6 DEF Injection, IsInjective
<1>8. IsFiniteSet(1..c) /\ Cardinality(1..c) = c  BY <1>1, FS_Interval
<1>9. rank \in Surjection(S, 1..c)  BY <1>7, <1>8, FS_Injection
<1>10. \A k \in 1..c : \E i \in S : rank[i] = k  BY <1>9 DEF Surjection
<1> QED  BY <1>1, <1>10 DEF rank

\* A set in the order of the list has every element once.
LEMMA InOrderLists ==
  ASSUME NEW n \in Nat, NEW S \in SUBSET (1..n)
  PROVE  InOrder(S) \in Seq(S) /\ NoTwice(InOrder(S)) /\ ToSet(InOrder(S)) = S
<1> DEFINE c == Cardinality(S)
           Is(i, k) == Cardinality({j \in S : j <= i}) = k
           q == [k \in 1..c |-> CHOOSE i \in S : Is(i, k)]
<1>1. IsFiniteSet(S) /\ c \in Nat /\ \A k \in 1..c : \E i \in S : Is(i, k)  BY RankFinds
<1> HIDE DEF c, Is
<1>2. \A k \in 1..c : q[k] \in S /\ Is(q[k], k)  BY <1>1
<1>3. InOrder(S) = q  BY DEF InOrder, c, Is
<1>4. DOMAIN q = 1..c  OBVIOUS
<1> HIDE DEF q
<1>5. \A a, b \in 1..c : q[a] = q[b] => a = b  BY <1>2 DEF Is
<1>6. q \in [1..c -> S]
  <2>1. q = [k \in 1..c |-> q[k]]  BY DEF q
  <2> QED  BY <1>2, <2>1
<1>7. q \in Injection(1..c, S)  BY <1>5, <1>6 DEF Injection, IsInjective
<1>8. Cardinality(1..c) = c /\ IsFiniteSet(1..c)  BY <1>1, FS_Interval
<1>9. q \in Surjection(1..c, S)  BY <1>1, <1>7, <1>8, FS_Injection DEF c
<1>10. \A x \in S : \E k \in 1..c : q[k] = x  BY <1>9 DEF Surjection
<1>11. q \in Seq(S)  BY <1>1, <1>6
<1>12. NoTwice(q)  BY <1>4, <1>5 DEF NoTwice
<1>13. ToSet(q) = S  BY <1>2, <1>4, <1>10 DEF ToSet
<1> QED  BY <1>3, <1>11, <1>12, <1>13


\* An id is resolved to the place of its resource.
LEMMA PlaceFinds ==
  ASSUME ids \in Seq(Id), \A i, j \in Node : ids[i] = ids[j] => i = j,
         NEW list \in Seq(Node), NoTwice(list), NEW k \in DOMAIN list
  PROVE  Place(list, ids[list[k]]) = k
<1> DEFINE P == {j \in 1..Len(list) : ids[list[j]] = ids[list[k]]}
<1>1. DOMAIN list = 1..Len(list) /\ k \in 1..Len(list)  OBVIOUS
<1>2. \A j \in DOMAIN list : list[j] \in Node  OBVIOUS
<1>3. P = {k}  BY <1>1, <1>2 DEF NoTwice
<1>4. R!Max({k}) = k
  <2>1. k \in Int  BY <1>1
  <2> QED  BY <2>1 DEF R!Max
<1> QED  BY <1>3, <1>4 DEF Place

\* What a resource depends on, as the sort resolves it.
LEMMA DepsAre ==
  ASSUME ids \in Seq(Id), \A i, j \in Node : ids[i] = ids[j] => i = j,
         dependsOn \in [Node -> SUBSET Id]
  PROVE  /\ Node = 1..Len(ids) /\ Len(ids) \in Nat /\ IsFiniteSet(Node) /\ Cardinality(Node) = Len(ids)
         /\ DOMAIN deps = Node
         /\ \A i \in Node : deps[i] \subseteq Node
              => /\ deps[i] = {d \in Node : ids[d] \in dependsOn[i]}
                 /\ \A id \in dependsOn[i] : Known(id)
<1>1. Node = 1..Len(ids) /\ Len(ids) \in Nat  BY DEF Node
<1>2. IsFiniteSet(Node) /\ Cardinality(Node) = Len(ids)
  <2>1. \A n \in Nat : IsFiniteSet(1..n) /\ Cardinality(1..n) = n  BY FS_Interval
  <2> QED  BY <1>1, <2>1
<1> DEFINE list == [j \in Node |-> j]
<1>3. list \in Seq(Node) /\ NoTwice(list) /\ DOMAIN list = Node /\ \A d \in Node : list[d] = d
  BY <1>1 DEF NoTwice
<1> HIDE DEF list
<1>4. \A d \in Node : Place(list, ids[d]) = d  BY <1>3, PlaceFinds
<1>5. ASSUME NEW i \in Node, deps[i] \subseteq Node
      PROVE  /\ deps[i] = {d \in Node : ids[d] \in dependsOn[i]}
             /\ \A id \in dependsOn[i] : Known(id)
  <2>1. deps[i] = {IF Known(id) THEN Place(list, id) ELSE 0 : id \in dependsOn[i]}  BY DEF deps, list
  <2>2. 0 \notin Node  BY <1>1
  <2>3. \A id \in dependsOn[i] : Known(id)  BY <1>5, <2>1, <2>2
  <2>4. \A id \in dependsOn[i] : \E d \in Node : ids[d] = id /\ Place(list, id) = d
    BY <1>4, <2>3 DEF Known
  <2>5. \A d \in deps[i] : d \in Node /\ ids[d] \in dependsOn[i]  BY <2>1, <2>3, <2>4
  <2>6. \A d \in Node : ids[d] \in dependsOn[i] => d \in deps[i]  BY <1>4, <2>1, <2>3
  <2> QED  BY <2>3, <2>5, <2>6
<1>6. DOMAIN deps = Node  BY DEF deps
<1> QED  BY <1>1, <1>2, <1>5, <1>6

\* Where the layering finds them.
LEMMA DepPlacesAre ==
  ASSUME ids \in Seq(Id), \A i, j \in Node : ids[i] = ids[j] => i = j,
         dependsOn \in [Node -> SUBSET Id], Clean, order \in Seq(Node), NoTwice(order), Taken = Node,
         NEW i \in Node
  PROVE  DepPlaces(i) = {k \in DOMAIN order : order[k] \in deps[i]}
<1>1. deps[i] = {d \in Node : ids[d] \in dependsOn[i]} /\ \A id \in dependsOn[i] : Known(id)
  BY DepsAre DEF Clean
<1>2. \A k \in DOMAIN order : order[k] \in Node /\ Place(order, ids[order[k]]) = k  BY PlaceFinds
<1>3. \A d \in Node : \E k \in DOMAIN order : order[k] = d  BY DEF Taken, ToSet
<1>4. ASSUME NEW k \in DepPlaces(i) PROVE k \in DOMAIN order /\ order[k] \in deps[i]
  <2>1. PICK id \in dependsOn[i] : k = Place(order, id)  BY <1>4 DEF DepPlaces
  <2>2. PICK d \in Node : ids[d] = id  BY <1>1, <2>1 DEF Known
  <2>3. PICK m \in DOMAIN order : order[m] = d  BY <1>3
  <2>4. k = m  BY <1>2, <2>1, <2>2, <2>3
  <2> QED  BY <1>1, <2>2, <2>3, <2>4
<1>5. ASSUME NEW k \in DOMAIN order, order[k] \in deps[i] PROVE k \in DepPlaces(i)
  <2>1. ids[order[k]] \in dependsOn[i] /\ k = Place(order, ids[order[k]])  BY <1>1, <1>2, <1>5
  <2> QED  BY <2>1 DEF DepPlaces
<1> QED  BY <1>4, <1>5

\* Each resource after those it depends on: no cycle.
LEMMA OrderedIsSortable ==
  ASSUME Clean, Ordered, Taken = Node
  PROVE  R!Sortable(deps)
<1>1. DOMAIN deps = Node  BY DEF deps
<1>2. R!KnownReferences(deps)  BY <1>1 DEF R!KnownReferences, Clean
<1>3. ASSUME NEW S \in SUBSET Node, S # {} PROVE \E r \in S : deps[r] \cap S = {}
  <2> DEFINE P == {k \in DOMAIN order : order[k] \in S}
  <2>1. order \in Seq(Node) /\ DOMAIN order \subseteq Nat  BY DEF Ordered
  <2>2. P # {}
    <3>1. \E k \in DOMAIN order : order[k] \in S  BY <1>3 DEF Taken, ToSet
    <3> QED  BY <3>1
  <2>3. PICK k \in P : \A m \in P : k <= m  BY <2>1, <2>2, LeastOf
  <2>4. order[k] \in S /\ k \in DOMAIN order  OBVIOUS
  <2>5. \A d \in deps[order[k]] : d \notin S
    <3>1. ASSUME NEW d \in deps[order[k]], d \in S PROVE FALSE
      <4>1. PICK m \in DOMAIN order : m < k /\ order[m] = d  BY <2>4 DEF Ordered
      <4>2. m \in P  BY <3>1, <4>1
      <4>3. k \in Nat /\ m \in Nat  BY <2>1, <2>4
      <4> QED  BY <2>3, <4>1, <4>2, <4>3
    <3> QED  BY <3>1
  <2> QED  BY <2>4, <2>5
<1>4. R!Acyclic(deps)  BY <1>1, <1>3 DEF R!Acyclic
<1> QED  BY <1>2, <1>4 DEF R!Sortable

\* The function of the layers is the only one with its equation.
LEMMA LayersAreUnique ==
  ASSUME R!Sortable(deps),
         NEW f, f = [r \in Node |-> R!Max({-1} \cup {f[d] : d \in deps[r]}) + 1]
  PROVE  f = R!compute_resource_layers(deps)
<1>1. DOMAIN deps = Node  BY DEF deps
<1> DEFINE g == R!compute_resource_layers(deps)
<1>2. g = [r \in Node |-> R!Max({-1} \cup {g[d] : d \in deps[r]}) + 1]
  <2> DEFINE Solves(u) == u = [r \in Node |-> R!Max({-1} \cup {u[d] : d \in deps[r]}) + 1]
  <2>1. g = CHOOSE u : Solves(u)  BY <1>1 DEF R!compute_resource_layers
  <2>2. Solves(f)  OBVIOUS
  <2> HIDE DEF g, Solves
  <2>3. Solves(g)  BY <2>1, <2>2
  <2> QED  BY <2>3 DEF Solves
<1> HIDE DEF g
<1> DEFINE S == {r \in Node : f[r] # g[r]}
<1>3. S = {}
  <2>1. SUFFICES ASSUME S # {} PROVE FALSE  OBVIOUS
  <2>2. PICK r \in S : deps[r] \cap S = {}  BY <1>1, <2>1 DEF R!Sortable, R!Acyclic
  <2>3. deps[r] \subseteq Node  BY <1>1 DEF R!Sortable, R!KnownReferences
  <2>4. \A d \in deps[r] : f[d] = g[d]  BY <2>2, <2>3
  <2>5. {f[d] : d \in deps[r]} = {g[d] : d \in deps[r]}  BY <2>4
  <2>6. f[r] = g[r]
    <3>1. f[r] = R!Max({-1} \cup {f[d] : d \in deps[r]}) + 1  BY <2>2
    <3>2. g[r] = R!Max({-1} \cup {g[d] : d \in deps[r]}) + 1  BY <1>2, <2>2
    <3> QED  BY <2>5, <3>1, <3>2
  <2> QED  BY <2>2, <2>6
<1>4. DOMAIN f = Node /\ DOMAIN g = Node  BY <1>2
<1>5. \A r \in Node : f[r] = g[r]  BY <1>3
<1>6. f = [r \in Node |-> f[r]] /\ g = [r \in Node |-> g[r]]  BY <1>2, <1>4
<1> QED  BY <1>5, <1>6 DEF g

\* One list behind another, without common elements.
LEMMA TwoLists ==
  ASSUME NEW S, NEW t \in Seq(S), NEW q \in Seq(S), NoTwice(t), NoTwice(q), ToSet(t) \cap ToSet(q) = {}
  PROVE  t \o q \in Seq(S) /\ NoTwice(t \o q) /\ ToSet(t \o q) = ToSet(t) \union ToSet(q)
<1> DEFINE z == t \o q
           m == Len(t)
           n == Len(q)
<1>1. /\ z \in Seq(S) /\ m \in Nat /\ n \in Nat /\ DOMAIN t = 1..m /\ DOMAIN q = 1..n /\ DOMAIN z = 1..(m + n)
      /\ \A k \in 1..m : z[k] = t[k]
      /\ \A k \in (m + 1)..(m + n) : z[k] = q[k - m]
  OBVIOUS
<1> HIDE DEF z, m, n
<1>2. \A k \in 1..m : z[k] \in ToSet(t)  BY <1>1 DEF ToSet
<1>3. \A k \in (m + 1)..(m + n) : k - m \in 1..n /\ z[k] \in ToSet(q)
  <2>1. \A k \in (m + 1)..(m + n) : k - m \in 1..n  BY <1>1
  <2> QED  BY <1>1, <2>1 DEF ToSet
<1>4. \A k \in 1..(m + n) : k \in 1..m \/ k \in (m + 1)..(m + n)  BY <1>1
<1>5. ASSUME NEW a \in 1..(m + n), NEW b \in 1..(m + n), z[a] = z[b] PROVE a = b
  <2>1. CASE a \in 1..m /\ b \in 1..m  BY <1>1, <1>5, <2>1 DEF NoTwice
  <2>2. CASE a \in (m + 1)..(m + n) /\ b \in (m + 1)..(m + n)
    <3>1. a - m \in DOMAIN q /\ b - m \in DOMAIN q /\ q[a - m] = q[b - m]  BY <1>1, <1>3, <1>5, <2>2
    <3>2. a - m = b - m  BY <3>1 DEF NoTwice
    <3> QED  BY <1>1, <3>2
  <2> QED  BY <1>2, <1>3, <1>4, <1>5, <2>1, <2>2
<1>6. NoTwice(z)  BY <1>1, <1>5 DEF NoTwice
<1>7. ToSet(z) \subseteq ToSet(t) \union ToSet(q)  BY <1>1, <1>2, <1>3, <1>4 DEF ToSet
<1>8. ASSUME NEW x \in ToSet(t) PROVE x \in ToSet(z)
  <2>1. PICK k \in 1..m : x = t[k]  BY <1>1 DEF ToSet
  <2>2. k \in DOMAIN z /\ z[k] = x  BY <1>1, <2>1
  <2> QED  BY <2>2 DEF ToSet
<1>9. ASSUME NEW x \in ToSet(q) PROVE x \in ToSet(z)
  <2>1. PICK k \in 1..n : x = q[k]  BY <1>1 DEF ToSet
  <2>2. k + m \in (m + 1)..(m + n) /\ (k + m) - m = k /\ k + m \in DOMAIN z  BY <1>1
  <2>3. z[k + m] = x  BY <1>1, <2>1, <2>2
  <2> QED  BY <2>2, <2>3 DEF ToSet
<1> QED  BY <1>1, <1>6, <1>7, <1>8, <1>9 DEF z


LEMMA BuildKeepsInv ==
  ASSUME SortInv, Build
  PROVE  SortInv'
<1>1. /\ pc = "build" /\ order = <<>> /\ layers = <<>> /\ UNCHANGED <<ids, dependsOn, order, layers>>
      /\ ids \in Seq(Id) /\ (\A i, j \in Node : ids[i] = ids[j] => i = j)
      /\ dependsOn \in [Node -> SUBSET Id]
  BY DEF Build, SortInv
<1>2. /\ Node = 1..Len(ids) /\ Len(ids) \in Nat /\ IsFiniteSet(Node) /\ DOMAIN deps = Node
  BY <1>1, DepsAre
<1>3. deps' = deps /\ Node' = Node  BY <1>1 DEF deps, Known, Place, Node
<1>4. CASE (\E i \in Node : i \in deps[i] \/ ~(deps[i] \subseteq Node)) /\ pc' = "bad_request"
  <2>1. ~R!Sortable(deps)
    <3>1. PICK i \in Node : i \in deps[i] \/ ~(deps[i] \subseteq Node)  BY <1>4
    <3>2. CASE ~(deps[i] \subseteq Node)  BY <1>2, <3>2 DEF R!Sortable, R!KnownReferences
    <3>3. CASE i \in deps[i]
      <4>1. {i} \in SUBSET DOMAIN deps /\ {i} # {} /\ \A r \in {i} : deps[r] \cap {i} # {}
        BY <1>2, <3>3
      <4> QED  BY <4>1 DEF R!Sortable, R!Acyclic
    <3> QED  BY <3>1, <3>2, <3>3
  <2>2. ~R!Sortable(deps)'  BY <1>3, <2>1 DEF R!Sortable, R!KnownReferences, R!Acyclic
  <2> QED  BY <1>1, <1>3, <1>4, <2>2 DEF SortInv, Node
<1>5. CASE /\ \A i \in Node : i \notin deps[i] /\ deps[i] \subseteq Node
           /\ pc' = "sort" /\ inDegree' = [i \in Node |-> Cardinality(deps[i])]
           /\ queue' = InOrder({i \in Node : deps[i] = {}})
  <2> DEFINE S == {i \in Node : deps[i] = {}}
  <2>1. S \in SUBSET (1..Len(ids))  BY <1>2
  <2>2. queue' \in Seq(S) /\ NoTwice(queue') /\ ToSet(queue') = S  BY <1>2, <1>5, <2>1, InOrderLists
  <2>3. queue' \in Seq(Node)  BY <2>2
  <2>4. Taken' = {} /\ Waiting' = S  BY <1>1, <2>2 DEF Taken, Waiting, ToSet
  <2>5. Clean'  BY <1>3, <1>5 DEF Clean
  <2>6. Ordered'
    <3>1. order' = <<>> /\ DOMAIN order' = {}  BY <1>1
    <3> QED  BY <3>1 DEF Ordered, NoTwice
  <2>7. Sorting'
    <3>1. \A i \in Node : inDegree'[i] = Cardinality(deps[i] \ {})
      <4>1. \A i \in Node : deps[i] \ {} = deps[i]  OBVIOUS
      <4> QED  BY <1>5, <4>1
    <3>2. \A i \in Node : i \in {} \union S <=> deps[i] \subseteq {}  OBVIOUS
    <3> QED  BY <1>3, <2>2, <2>3, <2>4, <3>1, <3>2 DEF Sorting
  <2> QED  BY <1>1, <1>3, <1>5, <2>5, <2>6, <2>7 DEF SortInv, Node
<1> QED  BY <1>4, <1>5 DEF Build

\* What is queued when the first of the queue has been taken.
LEMMA PopKeepsInv ==
  ASSUME SortInv, Pop
  PROVE  SortInv'
<1> DEFINE idx == Head(queue)
           next == {i \in Node : idx \in deps[i]}
           free == {i \in next : inDegree[i] = 1}
<1>1. /\ pc = "sort" /\ queue # <<>> /\ order' = Append(order, idx)
      /\ inDegree' = [i \in Node |-> IF i \in next THEN inDegree[i] - 1 ELSE inDegree[i]]
      /\ queue' = Tail(queue) \o InOrder(free)
      /\ UNCHANGED <<ids, dependsOn, pc, layers>>
  BY DEF Pop
<1>2. /\ ids \in Seq(Id) /\ (\A i, j \in Node : ids[i] = ids[j] => i = j) /\ layers = <<>>
      /\ dependsOn \in [Node -> SUBSET Id] /\ Clean /\ Ordered /\ Sorting
  BY <1>1 DEF SortInv
<1>3. /\ Node = 1..Len(ids) /\ Len(ids) \in Nat /\ IsFiniteSet(Node) /\ DOMAIN deps = Node
  BY <1>2, DepsAre
<1>4. deps' = deps /\ Node' = Node  BY <1>1 DEF deps, Known, Place, Node
<1>5. /\ queue \in Seq(Node) /\ NoTwice(queue) /\ Taken \cap Waiting = {}
      /\ \A i \in Node : inDegree[i] = Cardinality(deps[i] \ Taken)
      /\ \A i \in Node : i \in Taken \union Waiting <=> deps[i] \subseteq Taken
  BY <1>2 DEF Sorting
<1>6. order \in Seq(Node) /\ NoTwice(order)
      /\ \A k \in DOMAIN order : \A d \in deps[order[k]] : \E m \in DOMAIN order : m < k /\ order[m] = d
  BY <1>2 DEF Ordered
<1>7. idx \in Node /\ idx \in Waiting /\ idx \notin Taken /\ deps[idx] \subseteq Taken
  <2>1. 1 \in DOMAIN queue /\ idx = queue[1]  BY <1>1, <1>5
  <2>2. idx \in Waiting /\ idx \in Node  BY <1>5, <2>1 DEF Waiting, ToSet
  <2> QED  BY <1>5, <2>2
<1>8. Taken' = Taken \union {idx}
  <2>1. DOMAIN order' = 1..(Len(order) + 1) /\ DOMAIN order = 1..Len(order) /\ Len(order) \in Nat
        /\ order'[Len(order) + 1] = idx /\ \A k \in 1..Len(order) : order'[k] = order[k]
    BY <1>1, <1>6, <1>7
  <2> HIDE DEF idx
  <2>2. \A x \in Taken' : x \in Taken \union {idx}  BY <2>1 DEF Taken, ToSet
  <2>3. \A x \in Taken : x \in Taken'  BY <2>1 DEF Taken, ToSet
  <2>4. idx \in Taken'  BY <2>1 DEF Taken, ToSet
  <2> QED  BY <2>2, <2>3, <2>4
<1>9. \A i \in Node : /\ IsFiniteSet(deps[i] \ Taken) /\ Cardinality(deps[i] \ Taken) \in Nat
                      /\ deps[i] \ Taken' = (deps[i] \ Taken) \ {idx}
  <2>1. ASSUME NEW i \in Node PROVE IsFiniteSet(deps[i] \ Taken) /\ Cardinality(deps[i] \ Taken) \in Nat
    <3>1. deps[i] \ Taken \in SUBSET Node  BY <1>2 DEF Clean
    <3> QED  BY <1>3, <3>1, FS_Subset, FS_CardinalityType
  <2> QED  BY <1>8, <2>1
<1>10. \A i \in Node : inDegree'[i] = Cardinality(deps[i] \ Taken')
  <2>1. ASSUME NEW i \in Node PROVE inDegree'[i] = Cardinality(deps[i] \ Taken')
    <3> DEFINE D == deps[i] \ Taken
    <3>1. IsFiniteSet(D) /\ deps[i] \ Taken' = D \ {idx} /\ inDegree[i] = Cardinality(D)  BY <1>5, <1>9
    <3>2. idx \in D <=> i \in next  BY <1>7
    <3>3. inDegree'[i] = IF i \in next THEN inDegree[i] - 1 ELSE inDegree[i]  BY <1>1
    <3> HIDE DEF D, idx, next
    <3>4. Cardinality(D \ {idx}) = IF idx \in D THEN Cardinality(D) - 1 ELSE Cardinality(D)
      BY <3>1, FS_RemoveElement
    <3> QED  BY <3>1, <3>2, <3>3, <3>4
  <2> QED  BY <2>1
<1>11. free = {i \in Node : deps[i] \subseteq Taken' /\ ~(deps[i] \subseteq Taken)}
  <2>1. ASSUME NEW i \in Node PROVE i \in free <=> deps[i] \subseteq Taken' /\ ~(deps[i] \subseteq Taken)
    <3> DEFINE D == deps[i] \ Taken
    <3>1. IsFiniteSet(D) /\ inDegree[i] = Cardinality(D)  BY <1>5, <1>9
    <3>2. i \in free <=> idx \in D /\ Cardinality(D) = 1  BY <1>7, <3>1
    <3>3. deps[i] \subseteq Taken' <=> D \subseteq {idx}  BY <1>8
    <3>4. ~(deps[i] \subseteq Taken) <=> D # {}  OBVIOUS
    <3> HIDE DEF D, idx, free
    <3>5. Cardinality(D) = 1 <=> \E x : D = {x}  BY <3>1, FS_Singleton
    <3> QED  BY <3>2, <3>3, <3>4, <3>5
  <2>2. free \subseteq Node  OBVIOUS
  <2> HIDE DEF free
  <2> QED  BY <2>1, <2>2
<1>12. free \in SUBSET (1..Len(ids)) /\ free \subseteq Node  BY <1>3
<1> HIDE DEF next, free
<1>13. InOrder(free) \in Seq(free) /\ NoTwice(InOrder(free)) /\ ToSet(InOrder(free)) = free
  BY <1>3, <1>12, InOrderLists
<1> DEFINE q == InOrder(free)
<1> HIDE DEF q
<1>14. q \in Seq(Node) /\ NoTwice(q) /\ ToSet(q) = free
  <2>1. \A A, B : A \subseteq B => Seq(A) \subseteq Seq(B)  OBVIOUS
  <2>2. q \in Seq(free) /\ NoTwice(q) /\ ToSet(q) = free  BY <1>13 DEF q
  <2>3. q \in Seq(Node)  BY <1>12, <2>1, <2>2
  <2> QED  BY <2>2, <2>3
<1>15. free \cap (Taken \union Waiting) = {}  BY <1>5, <1>11
<1>16. /\ Tail(queue) \in Seq(Node) /\ NoTwice(Tail(queue)) /\ ToSet(Tail(queue)) = Waiting \ {idx}
  <2>1. /\ Tail(queue) \in Seq(Node) /\ DOMAIN queue = 1..Len(queue) /\ Len(queue) \in Nat \ {0}
        /\ DOMAIN Tail(queue) = 1..(Len(queue) - 1) /\ \A k \in 1..(Len(queue) - 1) : Tail(queue)[k] = queue[k + 1]
        /\ idx = queue[1]
    BY <1>1, <1>5
  <2> DEFINE t == Tail(queue)
             n == Len(queue)
  <2> HIDE DEF t, n, idx
  <2>2. /\ t \in Seq(Node) /\ DOMAIN queue = 1..n /\ n \in Nat \ {0}
        /\ DOMAIN t = 1..(n - 1) /\ \A k \in 1..(n - 1) : t[k] = queue[k + 1] /\ idx = queue[1]
    BY <2>1 DEF t, n
  <2>3. NoTwice(t)
    <3>1. ASSUME NEW a \in 1..(n - 1), NEW b \in 1..(n - 1), t[a] = t[b] PROVE a = b
      <4>1. a + 1 \in DOMAIN queue /\ b + 1 \in DOMAIN queue /\ queue[a + 1] = queue[b + 1]  BY <2>2, <3>1
      <4>2. a + 1 = b + 1  BY <1>5, <4>1 DEF NoTwice
      <4> QED  BY <4>2
    <3> QED  BY <2>2, <3>1 DEF NoTwice
  <2>4. ASSUME NEW x \in ToSet(t) PROVE x \in Waiting /\ x # idx
    <3>1. PICK k \in 1..(n - 1) : x = t[k]  BY <2>2, <2>4 DEF ToSet
    <3>2. k + 1 \in DOMAIN queue /\ 1 \in DOMAIN queue /\ x = queue[k + 1] /\ k + 1 # 1 /\ idx = queue[1]
      BY <2>2, <3>1
    <3>3. x # idx  BY <1>5, <3>2 DEF NoTwice
    <3>4. x \in Waiting  BY <3>2 DEF Waiting, ToSet
    <3> QED  BY <3>3, <3>4
  <2>5. ASSUME NEW x \in Waiting, x # idx PROVE x \in ToSet(t)
    <3>1. PICK k \in DOMAIN queue : x = queue[k]  BY DEF Waiting, ToSet
    <3>2. k # 1  BY <2>1, <2>5, <3>1
    <3>3. k - 1 \in 1..(n - 1) /\ t[k - 1] = queue[(k - 1) + 1] /\ (k - 1) + 1 = k  BY <2>2, <3>2
    <3>4. k - 1 \in DOMAIN t /\ t[k - 1] = x  BY <2>2, <3>1, <3>3
    <3> QED  BY <3>4 DEF ToSet
  <2>6. ToSet(t) = Waiting \ {idx}  BY <2>4, <2>5
  <2> QED  BY <2>2, <2>3, <2>6 DEF t
<1>17. /\ queue' \in Seq(Node) /\ NoTwice(queue') /\ Waiting' = (Waiting \ {idx}) \union free
  <2> DEFINE t == Tail(queue)
  <2>1. t \in Seq(Node) /\ NoTwice(t) /\ ToSet(t) = Waiting \ {idx} /\ queue' = t \o q  BY <1>1, <1>16 DEF q
  <2>2. ToSet(t) \cap ToSet(q) = {}  BY <1>14, <1>15, <2>1
  <2> HIDE DEF t
  <2>3. queue' \in Seq(Node) /\ NoTwice(queue') /\ ToSet(queue') = ToSet(t) \union ToSet(q)
    BY <1>14, <2>1, <2>2, TwoLists
  <2> QED  BY <1>14, <2>1, <2>3 DEF Waiting
<1> HIDE DEF idx
<1>18. Sorting'
  <2>1. Taken' \cap Waiting' = {}  BY <1>5, <1>7, <1>8, <1>15, <1>17
  <2>2. \A i \in Node : i \in Taken' \union Waiting' <=> deps[i] \subseteq Taken'
    <3>1. ASSUME NEW i \in Node PROVE i \in Taken' \union Waiting' <=> deps[i] \subseteq Taken'
      <4>1. i \in Taken' \union Waiting' <=> i \in Taken \union Waiting \union free
        BY <1>7, <1>8, <1>17
      <4>2. i \in free <=> deps[i] \subseteq Taken' /\ ~(deps[i] \subseteq Taken)  BY <1>11
      <4>3. i \in Taken \union Waiting <=> deps[i] \subseteq Taken  BY <1>5
      <4>4. deps[i] \subseteq Taken => deps[i] \subseteq Taken'  BY <1>8
      <4> QED  BY <4>1, <4>2, <4>3, <4>4
    <3> QED  BY <3>1
  <2> QED  BY <1>4, <1>10, <1>17, <2>1, <2>2 DEF Sorting
<1>19. Ordered'
  <2> DEFINE n == Len(order)
  <2>1. order' \in Seq(Node) /\ DOMAIN order' = 1..(n + 1) /\ DOMAIN order = 1..n /\ n \in Nat
        /\ order'[n + 1] = idx /\ \A k \in 1..n : order'[k] = order[k]
    BY <1>1, <1>6, <1>7
  <2> HIDE DEF n
  <2>2. \A k \in 1..n : order[k] \in Taken  BY <2>1 DEF Taken, ToSet
  <2>3. ASSUME NEW a \in 1..(n + 1), NEW b \in 1..(n + 1), order'[a] = order'[b] PROVE a = b
    <3>1. CASE a \in 1..n /\ b \in 1..n  BY <1>6, <2>1, <2>3, <3>1 DEF NoTwice
    <3>2. CASE a = n + 1 /\ b \in 1..n  BY <1>7, <2>1, <2>2, <2>3, <3>2
    <3>3. CASE b = n + 1 /\ a \in 1..n  BY <1>7, <2>1, <2>2, <2>3, <3>3
    <3> QED  BY <2>1, <3>1, <3>2, <3>3
  <2>4. NoTwice(order')  BY <2>1, <2>3 DEF NoTwice
  <2>5. ASSUME NEW k \in 1..(n + 1), NEW d \in deps[order'[k]] PROVE \E m \in 1..(n + 1) : m < k /\ order'[m] = d
    <3>1. CASE k \in 1..n
      <4>1. PICK m \in 1..n : m < k /\ order[m] = d  BY <1>6, <2>1, <2>5, <3>1
      <4>2. m \in 1..(n + 1) /\ order'[m] = d  BY <2>1, <4>1
      <4> QED  BY <4>1, <4>2
    <3>2. CASE k = n + 1
      <4>1. d \in Taken  BY <1>7, <2>1, <2>5, <3>2
      <4>2. PICK m \in 1..n : order[m] = d  BY <2>1, <4>1 DEF Taken, ToSet
      <4>3. m \in 1..(n + 1) /\ m < k /\ order'[m] = d  BY <2>1, <3>2, <4>2
      <4> QED  BY <4>3
    <3> QED  BY <2>1, <3>1, <3>2
  <2> QED  BY <1>4, <2>1, <2>4, <2>5 DEF Ordered
<1>20. Clean'  BY <1>2, <1>4 DEF Clean
<1> QED  BY <1>1, <1>2, <1>4, <1>18, <1>19, <1>20 DEF SortInv, Node

\* The queue is empty: everything is sorted, or what is left has a cycle.
LEMMA SortedKeepsInv ==
  ASSUME SortInv, Sorted
  PROVE  SortInv'
<1>1. /\ pc = "sort" /\ queue = <<>> /\ UNCHANGED <<ids, dependsOn, inDegree, queue, order, layers>>
      /\ pc' = IF Len(order) = Cardinality(Node) THEN "layers" ELSE "bad_request"
  BY DEF Sorted
<1>2. /\ ids \in Seq(Id) /\ (\A i, j \in Node : ids[i] = ids[j] => i = j) /\ layers = <<>>
      /\ dependsOn \in [Node -> SUBSET Id] /\ Clean /\ Ordered /\ Sorting
  BY <1>1 DEF SortInv
<1>3. Node = 1..Len(ids) /\ IsFiniteSet(Node) /\ DOMAIN deps = Node
  BY <1>2, DepsAre
<1>4. deps' = deps /\ Node' = Node /\ Taken' = Taken
  BY <1>1 DEF deps, Known, Place, Node, Taken
<1>5. order \in Seq(Node) /\ NoTwice(order)  BY <1>2 DEF Ordered
<1> DEFINE n == Len(order)
<1>6. DOMAIN order = 1..n /\ n \in Nat /\ (\A k \in 1..n : order[k] \in Node)
      /\ order = [k \in 1..n |-> order[k]]
  BY <1>5
<1>7. Taken \subseteq Node  BY <1>6 DEF Taken, ToSet
<1>8. CASE n = Cardinality(Node)
  <2>1. order \in [1..n -> Node]  BY <1>6
  <2>2. \A a, b \in 1..n : order[a] = order[b] => a = b  BY <1>5, <1>6 DEF NoTwice
  <2>3. order \in Injection(1..n, Node)  BY <2>1, <2>2 DEF Injection, IsInjective
  <2>4. IsFiniteSet(1..n) /\ Cardinality(1..n) = n  BY <1>6, FS_Interval
  <2>5. order \in Surjection(1..n, Node)  BY <1>3, <1>8, <2>3, <2>4, FS_Injection
  <2>6. \A x \in Node : \E k \in 1..n : order[k] = x  BY <2>5 DEF Surjection
  <2>7. Taken = Node  BY <1>6, <1>7, <2>6 DEF Taken, ToSet
  <2>8. LayersFound'
    <3>1. layers' = <<>> /\ order' = order /\ Len(<<>>) = 0  BY <1>1, <1>2
    <3> QED  BY <1>4, <1>6, <2>7, <3>1 DEF LayersFound
  <2>9. Clean' /\ Ordered'  BY <1>1, <1>2, <1>4 DEF Clean, Ordered
  <2> QED  BY <1>1, <1>2, <1>4, <1>8, <2>8, <2>9 DEF SortInv, Node
<1>9. CASE n # Cardinality(Node)
  <2> DEFINE S == Node \ Taken
  <2>1. S # {}
    <3>1. SUFFICES ASSUME Taken = Node PROVE FALSE  BY <1>7
    <3>2. order \in [1..n -> Node] /\ \A a, b \in 1..n : order[a] = order[b] => a = b
      BY <1>5, <1>6 DEF NoTwice
    <3>3. \A x \in Node : \E k \in 1..n : order[k] = x  BY <1>6, <3>1 DEF Taken, ToSet
    <3>4. order \in Bijection(1..n, Node)
      BY <3>2, <3>3 DEF Bijection, Injection, IsInjective, Surjection
    <3>5. IsFiniteSet(1..n) /\ Cardinality(1..n) = n  BY <1>6, FS_Interval
    <3>6. ExistsBijection(1..n, Node)  BY <3>4 DEF ExistsBijection
    <3>7. Cardinality(Node) = n  BY <1>3, <3>5, <3>6, FS_Bijection
    <3> QED  BY <1>9, <3>7
  <2>2. \A i \in S : deps[i] \cap S # {}
    <3>1. Waiting = {}  BY <1>1 DEF Waiting, ToSet
    <3>2. \A i \in S : ~(deps[i] \subseteq Taken)  BY <1>2, <3>1 DEF Sorting
    <3>3. \A i \in S : deps[i] \subseteq Node  BY <1>2 DEF Clean
    <3> QED  BY <3>2, <3>3
  <2>3. ~R!Sortable(deps)  BY <1>3, <2>1, <2>2 DEF R!Sortable, R!Acyclic
  <2>4. ~R!Sortable(deps)'  BY <1>4, <2>3 DEF R!Sortable, R!KnownReferences, R!Acyclic
  <2> QED  BY <1>1, <1>2, <1>4, <1>9, <2>4 DEF SortInv, Node
<1> QED  BY <1>8, <1>9

\* The dependencies of a resource come before it, so that their layers are known.
LEMMA LayerKeepsInv ==
  ASSUME SortInv, Layer
  PROVE  SortInv'
<1> DEFINE n == Len(layers)
           i == order[n + 1]
<1>1. pc = "layers" /\ n < Len(order) /\ UNCHANGED <<ids, dependsOn, inDegree, queue, order>>
  BY DEF Layer
<1>2. /\ ids \in Seq(Id) /\ (\A a, b \in Node : ids[a] = ids[b] => a = b)
      /\ dependsOn \in [Node -> SUBSET Id] /\ Clean /\ Ordered /\ LayersFound
  BY <1>1 DEF SortInv
<1>3. /\ order \in Seq(Node) /\ NoTwice(order) /\ Taken = Node /\ n \in 0..Len(order)
      /\ \A k \in 1..n : layers[k] = NextLayer(order[k])
  BY <1>2 DEF Ordered, LayersFound
<1>4. /\ deps' = deps /\ Node' = Node /\ Taken' = Taken /\ order' = order
      /\ \A r : DepPlaces(r)' = DepPlaces(r)
  BY <1>1 DEF deps, Known, Place, Node, Taken, DepPlaces
<1>5. \A r \in Node : DepPlaces(r) = {k \in DOMAIN order : order[k] \in deps[r]}
  BY <1>2, <1>3, DepPlacesAre
<1>6. Len(order) \in Nat /\ DOMAIN order = 1..Len(order) /\ \A k \in DOMAIN order : order[k] \in Node
  BY <1>3
<1>7. \A k \in DOMAIN order : \A m \in DepPlaces(order[k]) : m < k /\ m \in 1..Len(order)
  <2>1. ASSUME NEW k \in DOMAIN order, NEW m \in DepPlaces(order[k]) PROVE m < k /\ m \in 1..Len(order)
    <3>1. m \in DOMAIN order /\ order[m] \in deps[order[k]]  BY <1>5, <1>6, <2>1
    <3>2. PICK p \in DOMAIN order : p < k /\ order[p] = order[m]  BY <1>2, <3>1 DEF Ordered
    <3>3. p = m  BY <1>3, <3>1, <3>2 DEF NoTwice
    <3> QED  BY <1>6, <3>1, <3>2, <3>3
  <2> QED  BY <2>1
<1>8. n + 1 \in DOMAIN order /\ i \in Node  BY <1>1, <1>3, <1>6
<1>9. \A m \in DepPlaces(i) : m <= n
  <2>1. \A m \in DepPlaces(i) : m < n + 1 /\ m \in 1..Len(order)  BY <1>7, <1>8
  <2> QED  BY <1>3, <1>6, <2>1
<1>10. layers' = Append(layers, NextLayer(i)) /\ pc' = pc  BY <1>9 DEF Layer
<1>11. Len(layers') = n + 1 /\ layers'[n + 1] = NextLayer(i) /\ \A k \in 1..n : layers'[k] = layers[k]
  BY <1>3, <1>10 DEF LayersFound
<1>12. \A k \in 1..(n + 1) : NextLayer(order[k])' = NextLayer(order[k])
  <2>1. ASSUME NEW k \in 1..(n + 1) PROVE NextLayer(order[k])' = NextLayer(order[k])
    <3>1. k \in DOMAIN order /\ n \in Nat  BY <1>1, <1>3, <1>6
    <3>2. \A m \in DepPlaces(order[k]) : m \in 1..n
      <4>1. \A m \in DepPlaces(order[k]) : m < k /\ m \in 1..Len(order)  BY <1>7, <3>1
      <4> QED  BY <1>6, <2>1, <3>1, <4>1
    <3>3. \A m \in DepPlaces(order[k]) : layers'[m] = layers[m]  BY <1>11, <3>2
    <3>4. {layers'[m] : m \in DepPlaces(order[k])} = {layers[m] : m \in DepPlaces(order[k])}
      BY <3>3
    <3> QED  BY <1>4, <3>4 DEF NextLayer
  <2> QED  BY <2>1
<1>13. LayersFound'
  <2>1. n + 1 \in 0..Len(order)  BY <1>1, <1>3, <1>6
  <2>2. \A k \in 1..(n + 1) : layers'[k] = NextLayer(order[k])
    <3>1. n \in Nat  BY <1>3
    <3>2. \A k \in 1..(n + 1) : k \in 1..n \/ k = n + 1  BY <3>1
    <3> QED  BY <1>3, <1>11, <3>2
  <2>3. \A k \in 1..(n + 1) : layers'[k] = NextLayer(order[k])'  BY <1>12, <2>2
  <2> QED  BY <1>3, <1>4, <1>11, <2>1, <2>3 DEF LayersFound
<1>14. Clean' /\ Ordered'  BY <1>1, <1>2, <1>4 DEF Clean, Ordered
<1> QED  BY <1>1, <1>2, <1>4, <1>10, <1>13, <1>14 DEF SortInv, Node

\* All layers are found.
LEMMA LayeredKeepsInv ==
  ASSUME SortInv, Layered
  PROVE  SortInv'
<1>1. /\ pc = "layers" /\ pc' = "done" /\ Len(layers) = Len(order)
      /\ UNCHANGED <<ids, dependsOn, inDegree, queue, order, layers>>
  BY DEF Layered
<1>2. Clean /\ Ordered /\ LayersFound  BY <1>1 DEF SortInv
<1>3. deps' = deps /\ Node' = Node /\ Taken' = Taken
  BY <1>1 DEF deps, Known, Place, Node, Taken
<1>4. \A r : NextLayer(r)' = NextLayer(r)  BY <1>1 DEF NextLayer, DepPlaces, Place
<1>5. Clean' /\ Ordered' /\ LayersFound'  BY <1>1, <1>2, <1>3, <1>4 DEF Clean, Ordered, LayersFound
<1> QED  BY <1>1, <1>3, <1>5 DEF SortInv, Node

\* What the layering computed is the depth.
LEMMA LayersAreDepths ==
  ASSUME SortInv, pc = "done"
  PROVE  \A j \in 1..Len(order) : layers[j] = R!compute_resource_layers(deps)[order[j]]
<1>1. /\ ids \in Seq(Id) /\ (\A a, b \in Node : ids[a] = ids[b] => a = b)
      /\ dependsOn \in [Node -> SUBSET Id] /\ Clean /\ Ordered /\ LayersFound /\ Len(layers) = Len(order)
  BY DEF SortInv
<1>2. /\ order \in Seq(Node) /\ NoTwice(order) /\ Taken = Node
      /\ \A k \in 1..Len(order) : layers[k] = NextLayer(order[k])
  BY <1>1 DEF Ordered, LayersFound
<1>3. \A r \in Node : DepPlaces(r) = {k \in DOMAIN order : order[k] \in deps[r]}
  BY <1>1, <1>2, DepPlacesAre
<1>4. R!Sortable(deps)  BY <1>1, <1>2, OrderedIsSortable
<1>5. DOMAIN order = 1..Len(order) /\ (\A k \in DOMAIN order : order[k] \in Node)
      /\ \A r \in Node : \E k \in DOMAIN order : order[k] = r
  BY <1>2 DEF Taken, ToSet
<1> DEFINE PlaceOf(r) == CHOOSE k \in DOMAIN order : order[k] = r
           L == [r \in Node |-> layers[PlaceOf(r)]]
<1>6. \A r \in Node : PlaceOf(r) \in DOMAIN order /\ order[PlaceOf(r)] = r  BY <1>5
<1>7. \A k \in DOMAIN order : PlaceOf(order[k]) = k  BY <1>2, <1>5, <1>6 DEF NoTwice
<1> HIDE DEF PlaceOf
<1>8. \A k \in DOMAIN order : L[order[k]] = layers[k]  BY <1>5, <1>7
<1>9. ASSUME NEW r \in Node PROVE L[r] = R!Max({-1} \cup {L[d] : d \in deps[r]}) + 1
  <2>1. L[r] = NextLayer(r)  BY <1>2, <1>5, <1>6
  <2> HIDE DEF L
  <2>2. \A d \in deps[r] : \E m \in DepPlaces(r) : order[m] = d
    <3>1. deps[r] \subseteq Node  BY <1>1 DEF Clean
    <3> QED  BY <1>3, <1>5, <3>1
  <2>3. \A m \in DepPlaces(r) : order[m] \in deps[r] /\ layers[m] = L[order[m]]  BY <1>3, <1>8
  <2>4. {layers[m] : m \in DepPlaces(r)} = {L[d] : d \in deps[r]}  BY <2>2, <2>3
  <2> QED  BY <2>1, <2>4 DEF NextLayer
<1>10. L = [r \in Node |-> R!Max({-1} \cup {L[d] : d \in deps[r]}) + 1]
  <2>1. L = [r \in Node |-> L[r]]  OBVIOUS
  <2> HIDE DEF L
  <2> QED  BY <1>9, <2>1
<1> HIDE DEF L
<1>11. L = R!compute_resource_layers(deps)  BY <1>4, <1>10, LayersAreUnique
<1> QED  BY <1>5, <1>8, <1>11

\* SortAndLayersAgree, for the lists without a repeated id: the sort refuses
\* exactly the lists with an unknown name or a cycle, the layering finds each
\* dependency before the resource that has it, and computes the depth of each.
\* A list with a repeated id is resolved twice, to different resources, and can
\* end in the internal error.
THEOREM SortAndLayersAgreeCorrect ==
  ASSUME DistinctIds
  PROVE  Spec => []SortAndLayersAgree
<1>1. Init => SortInv
  <2>1. SUFFICES ASSUME Init PROVE SortInv  OBVIOUS
  <2>2. ids \in Seq(Id) /\ \A i, j \in Node : ids[i] = ids[j] => i = j
    BY <2>1, DepSortAssumption DEF Init, DistinctIds, Node
  <2> QED  BY <2>1, <2>2 DEF Init, SortInv
<1>2. SortInv /\ [Next]_vars => SortInv'
  <2>1. SUFFICES ASSUME SortInv, [Next]_vars PROVE SortInv'  OBVIOUS
  <2>2. CASE UNCHANGED vars
    <3>1. UNCHANGED <<ids, dependsOn, pc, inDegree, queue, order, layers>>  BY <2>2 DEF vars
    <3>2. deps' = deps /\ Node' = Node /\ Taken' = Taken /\ Waiting' = Waiting
      BY <3>1 DEF deps, Known, Place, Node, Taken, Waiting
    <3>3. \A r : NextLayer(r)' = NextLayer(r)  BY <3>1 DEF NextLayer, DepPlaces, Place
    <3>4. (Clean => Clean') /\ (Ordered => Ordered')  BY <3>1, <3>2 DEF Clean, Ordered
    <3>5. Sorting => Sorting'  BY <3>1, <3>2 DEF Sorting
    <3>6. LayersFound => LayersFound'  BY <3>1, <3>2, <3>3 DEF LayersFound
    <3>7. R!Sortable(deps)' <=> R!Sortable(deps)
      BY <3>2 DEF R!Sortable, R!KnownReferences, R!Acyclic
    <3> QED  BY <2>1, <3>1, <3>2, <3>4, <3>5, <3>6, <3>7 DEF SortInv, Node
  <2>3. CASE Build  BY <2>1, <2>3, BuildKeepsInv
  <2>4. CASE Pop  BY <2>1, <2>4, PopKeepsInv
  <2>5. CASE Sorted  BY <2>1, <2>5, SortedKeepsInv
  <2>6. CASE Layer  BY <2>1, <2>6, LayerKeepsInv
  <2>7. CASE Layered  BY <2>1, <2>7, LayeredKeepsInv
  <2> QED  BY <2>1, <2>2, <2>3, <2>4, <2>5, <2>6, <2>7 DEF Next
<1>3. SortInv => SortAndLayersAgree
  <2>1. SUFFICES ASSUME SortInv PROVE SortAndLayersAgree  OBVIOUS
  <2>2. pc \in {"layers", "done"} => R!Sortable(deps)
    BY <2>1, OrderedIsSortable DEF SortInv, LayersFound
  <2>3. pc # "internal_error" /\ (pc = "bad_request" => ~R!Sortable(deps))  BY <2>1 DEF SortInv
  <2>4. pc = "done" => \A j \in 1..Len(order) : layers[j] = R!compute_resource_layers(deps)[order[j]]
    BY <2>1, LayersAreDepths
  <2> QED  BY <2>2, <2>3, <2>4 DEF SortAndLayersAgree
<1> QED  BY <1>1, <1>2, <1>3, PTL DEF Spec

=============================================================================
