--------------------------- MODULE ExecutorProofs ---------------------------
(***************************************************************************)
(* What an operation has changed can be undone at every moment, and a      *)
(* rollback that returns Ok has undone it, for every set of resources,     *)
(* every manifest and any number of operations, failing calls and stops.   *)
(*                                                                         *)
(* Neither property is inductive. A step may change a resource only since  *)
(* its checkpoint is there (ExecInv); a restore leads to what it should    *)
(* since checkpoints fit what their resource can be (FitsInv); a new       *)
(* operation begins without checkpoints (FreshInv); and rollback knows at  *)
(* its end that everything is back since, newest first, a resource whose   *)
(* oldest checkpoint is behind it is not restored again (UndoInv).         *)
(*                                                                         *)
(* And the records that apply leaves are true (RecordsInv).                *)
(*                                                                         *)
(* A call of an external provider has its own answer since an id is for    *)
(* one call for as long as anybody knows it (IdInv), and is carried out no *)
(* more often than it is tried since what was carried out, the children    *)
(* that still have it and the tries to come are no more than the tries     *)
(* (CountInv, CallerOK): a child that has a call does not get it again.    *)
(***************************************************************************)
EXTENDS Executor, Plugin, TLAPS, FiniteSetTheorems, SequenceTheorems, NaturalsInduction,
        WellFoundedInduction

(***************************************************************************)
(* Providers                                                               *)
(***************************************************************************)

\* A unit that can be enabled stays one that can, another one stays as it is.
SameKind(r, s, t) ==
  r \in Unit => s.file = t.file \/ {s.file, t.file} \subseteq {"enabled", "disabled"}

\* The steps that a plan for a resource in state s may have.
StepsFor(r, s) ==
  IF r \in File THEN {"file.write", "file.delete"}
  ELSE IF r \in Vhost THEN {"nginx.write", "nginx.remove"}
  ELSE IF s.file \in {"enabled", "disabled"} THEN {"enable", "disable", "start", "stop"}
  ELSE {"start", "stop"}

\* A checkpoint asks only a unit that can be enabled to be enabled.
DataFits(r, d, s) == r \in Unit /\ d.enabled => s.file \in {"enabled", "disabled"}

\* The kinds of resources exclude each other.
LEMMA Kinds ==
  ASSUME NEW r \in Resource
  PROVE  \/ r \in File /\ r \notin Unit /\ r \notin Vhost
         \/ r \in Unit /\ r \notin File /\ r \notin Vhost
         \/ r \in Vhost /\ r \notin Unit /\ r \notin File
BY ProvidersAssumption DEF Resource

\* Being of the same kind is symmetric, and nothing a step or a checkpoint may do
\* depends on more of the state than its kind.
LEMMA SameKindFacts ==
  ASSUME NEW r \in Resource, NEW s \in StateOf(r), NEW t \in StateOf(r), SameKind(r, s, t)
  PROVE  /\ StepsFor(r, s) = StepsFor(r, t)
         /\ \A d : DataFits(r, d, s) => DataFits(r, d, t)
<1>1. CASE r \notin Unit
  BY <1>1, Kinds DEF StepsFor, DataFits
<1>2. CASE r \in Unit
  <2>1. s.file = t.file \/ (s.file \in {"enabled", "disabled"} /\ t.file \in {"enabled", "disabled"})
    BY <1>2 DEF SameKind
  <2> QED  BY <1>2, <2>1, Kinds DEF StepsFor, DataFits
<1> QED  BY <1>1, <1>2

\* What rollback makes of a state depends only on its kind.
LEMMA RestoredByKind ==
  ASSUME NEW r \in Resource, NEW s \in StateOf(r), NEW t \in StateOf(r), SameKind(r, s, t),
         NEW d \in SavedOf(r)
  PROVE  Restored(r, d, s) = Restored(r, d, t)
<1>1. CASE r \notin Unit
  BY <1>1 DEF Restored
<1>2. CASE r \in Unit
  <2>1. s \in UnitState /\ t \in UnitState /\ d \in [enabled : BOOLEAN, active : BOOLEAN]
    BY <1>2, Kinds DEF StateOf, SavedOf
  <2>2. s.file = t.file \/ (s.file \in {"enabled", "disabled"} /\ t.file \in {"enabled", "disabled"})
    BY <1>2 DEF SameKind
  <2>3. d.enabled \in BOOLEAN
    BY <2>1
  <2>4. CASE d.enabled = TRUE
    BY <1>2, <2>1, <2>2, <2>4 DEF Restored, UnitToggled, Enabled, UnitState
  <2>5. CASE d.enabled = FALSE
    BY <1>2, <2>1, <2>2, <2>5 DEF Restored, UnitToggled, Enabled, UnitState
  <2> QED  BY <2>3, <2>4, <2>5
<1> QED  BY <1>1, <1>2

\* A checkpoint of a state takes that state to itself.
LEMMA SavedRestores ==
  ASSUME NEW r \in Resource, NEW s \in StateOf(r)
  PROVE  /\ Saved(r, s) \in SavedOf(r)
         /\ Restored(r, Saved(r, s), s) = s
         /\ DataFits(r, Saved(r, s), s)
<1>1. CASE r \notin Unit
  BY <1>1 DEF Saved, SavedOf, Restored, DataFits
<1>2. CASE r \in Unit
  <2>1. s \in UnitState
    BY <1>2, Kinds DEF StateOf
  <2>2. Enabled(s) \in BOOLEAN
    BY DEF Enabled
  <2> QED  BY <1>2, <2>1, <2>2 DEF Saved, SavedOf, Restored, DataFits, UnitToggled, Enabled, UnitState
<1> QED  BY <1>1, <1>2

\* rollback leads to a state of the same kind, also half way.
LEMMA RestoredState ==
  ASSUME NEW r \in Resource, NEW s \in StateOf(r), NEW d \in SavedOf(r), DataFits(r, d, s)
  PROVE  /\ Restored(r, d, s) \in StateOf(r) /\ SameKind(r, s, Restored(r, d, s))
         /\ r \in Unit => UnitToggled(d, s) \in StateOf(r) /\ SameKind(r, s, UnitToggled(d, s))
<1>1. CASE r \notin Unit
  BY <1>1 DEF Restored, SavedOf, SameKind
<1>2. CASE r \in Unit
  <2>1. s \in UnitState /\ d \in [enabled : BOOLEAN, active : BOOLEAN] /\ StateOf(r) = UnitState
    BY <1>2, Kinds DEF StateOf, SavedOf
  <2>3. d.enabled \in BOOLEAN
    BY <2>1
  <2>4. CASE d.enabled = TRUE
    BY <1>2, <2>1, <2>4 DEF Restored, UnitToggled, Enabled, UnitState, SameKind, DataFits
  <2>5. CASE d.enabled = FALSE
    BY <1>2, <2>1, <2>5 DEF Restored, UnitToggled, Enabled, UnitState, SameKind, DataFits
  <2> QED  BY <2>3, <2>4, <2>5
<1> QED  BY <1>1, <1>2

\* A step of a plan leads to a state of the same kind.
LEMMA AppliedState ==
  ASSUME NEW r \in Resource, NEW s \in StateOf(r), NEW spec \in SpecOf(r), NEW step \in StepsFor(r, s)
  PROVE  Applied(r, spec, step, s) \in StateOf(r) /\ SameKind(r, s, Applied(r, spec, step, s))
<1>1. CASE r \in File
  <2>1. spec \in FileSpec /\ StateOf(r) = FileState /\ r \notin Unit
    BY <1>1, Kinds DEF SpecOf, StateOf
  <2>2. step \in {"file.write", "file.delete"}
    BY <1>1 DEF StepsFor
  <2>3. Applied(r, spec, step, s) = FileApply(spec, step)
    BY <1>1, Kinds DEF Applied
  <2>4. FileApply(spec, step) \in FileState
    <3>1. CASE step = "file.delete"
      BY <3>1 DEF FileApply, FileState
    <3>2. CASE step # "file.delete"
      <4>1. spec.content \in Text \cup {Unmanaged} /\ spec.meta \in Meta \cup {Unmanaged}
        <5>1. CASE spec \in [present : {TRUE}, content : Text \cup {Unmanaged},
                             meta : Meta \cup {Unmanaged}]
          BY <5>1
        <5>2. CASE spec = [present |-> FALSE, content |-> Unmanaged, meta |-> Unmanaged]
          BY <5>2
        <5> QED  BY <2>1, <5>1, <5>2 DEF FileSpec
      <4> DEFINE c == IF spec.content = Unmanaged THEN Empty ELSE spec.content
      <4> DEFINE m == IF spec.meta = Unmanaged THEN NewMeta ELSE spec.meta
      <4>2. c \in Text /\ m \in Meta
        BY <4>1, ProvidersAssumption
      <4>3. FileApply(spec, step) = [present |-> TRUE, content |-> c, meta |-> m]
        BY <3>2 DEF FileApply
      <4> QED  BY <4>2, <4>3 DEF FileState
    <3> QED  BY <3>1, <3>2
  <2> QED  BY <2>1, <2>3, <2>4 DEF SameKind
<1>2. CASE r \in Vhost
  <2>1. spec \in VhostState /\ StateOf(r) = VhostState /\ r \notin Unit /\ r \notin File
    BY <1>2, Kinds DEF SpecOf, StateOf, VhostSpec
  <2>2. step \in {"nginx.write", "nginx.remove"}
    BY <1>2, <2>1 DEF StepsFor
  <2>3. Applied(r, spec, step, s) = VhostApply(spec, step)
    BY <1>2, <2>1 DEF Applied
  <2>4. VhostApply(spec, step) \in VhostState
    <3>1. spec.content \in Text
      <4>1. CASE spec \in [present : {TRUE}, content : Text]
        BY <4>1
      <4>2. CASE spec = AbsentVhost
        BY <4>2, ProvidersAssumption DEF AbsentVhost
      <4> QED  BY <2>1, <4>1, <4>2 DEF VhostState
    <3>2. CASE step = "nginx.remove"
      BY <3>2 DEF VhostApply, VhostState
    <3>3. CASE step # "nginx.remove"
      <4>1. VhostApply(spec, step) = [present |-> TRUE, content |-> spec.content]
        BY <3>3 DEF VhostApply
      <4> QED  BY <3>1, <4>1 DEF VhostState
    <3> QED  BY <3>2, <3>3
  <2> QED  BY <2>1, <2>3, <2>4 DEF SameKind
<1>3. CASE r \in Unit
  <2>1. s \in UnitState /\ StateOf(r) = UnitState /\ r \notin File /\ r \notin Vhost
    BY <1>3, Kinds DEF StateOf
  <2>2. Applied(r, spec, step, s) = UnitApply(step, s)
    BY <1>3, <2>1 DEF Applied
  <2>3. \/ step \in {"enable", "disable"} /\ s.file \in {"enabled", "disabled"}
        \/ step \in {"start", "stop"}
    BY <2>1 DEF StepsFor
  <2>4. UnitApply(step, s) \in UnitState /\ SameKind(r, s, UnitApply(step, s))
    BY <2>1, <2>3 DEF UnitApply, UnitState, SameKind
  <2> QED  BY <2>1, <2>2, <2>4
<1> QED  BY <1>1, <1>2, <1>3 DEF Resource

\* A plan has only steps that fit the state it was made for.
LEMMA PlanSteps ==
  ASSUME NEW r \in Resource, NEW s \in StateOf(r), NEW spec \in SpecOf(r)
  PROVE  Plan(r, spec, s) \in Seq(StepsFor(r, s))
<1>1. CASE r \in File
  <2> DEFINE n == IF spec.present THEN "file.write" ELSE "file.delete"
  <2>1. Plan(r, spec, s) = <<n>>
    BY <1>1, Kinds DEF Plan
  <2>2. n \in StepsFor(r, s)
    BY <1>1 DEF StepsFor
  <2> HIDE DEF n
  <2> QED  BY <2>1, <2>2
<1>2. CASE r \in Vhost
  <2> DEFINE n == IF spec.present THEN "nginx.write" ELSE "nginx.remove"
  <2>1. Plan(r, spec, s) = <<n>>
    BY <1>2, Kinds DEF Plan
  <2>2. n \in StepsFor(r, s)
    BY <1>2, Kinds DEF StepsFor
  <2> HIDE DEF n
  <2> QED  BY <2>1, <2>2
<1>3. CASE r \in Unit
  <2>1. s \in UnitState /\ r \notin File /\ r \notin Vhost
    BY <1>3, Kinds DEF StateOf
  <2>2. Plan(r, spec, s) = UnitPlan(spec, s)
    BY <1>3, <2>1 DEF Plan
  <2> DEFINE S == StepsFor(r, s)
  <2> DEFINE a == StepIf(WantsToggle(spec, s) /\ spec.enabled, "enable")
             b == StepIf(spec.active /\ ~s.active, "start")
             c == StepIf(~spec.active /\ s.active, "stop")
             d == StepIf(WantsToggle(spec, s) /\ ~spec.enabled, "disable")
  <2>3. "start" \in S /\ "stop" \in S
    BY <2>1 DEF StepsFor
  <2>4. b \in Seq(S) /\ c \in Seq(S)
    BY <2>3 DEF StepIf
  <2>5. s.file # "masked" => a \in Seq(S) /\ d \in Seq(S)
    <3>1. CASE s.file \in {"enabled", "disabled"}
      <4>1. "enable" \in S /\ "disable" \in S
        BY <2>1, <3>1 DEF StepsFor
      <4> QED  BY <4>1 DEF StepIf
    <3>2. CASE s.file = "static"
      <4>1. a = <<>> /\ d = <<>>
        BY <3>2 DEF StepIf, WantsToggle
      <4> HIDE DEF a, d
      <4> QED  BY <4>1
    <3> QED  BY <2>1, <3>1, <3>2 DEF UnitState
  <2>6. <<>> \in Seq(S)
    OBVIOUS
  <2>7. UnitPlan(spec, s) = IF s.file = "masked" THEN <<>> ELSE a \o b \o c \o d
    BY DEF UnitPlan
  <2> HIDE DEF S, a, b, c, d
  <2>8. s.file # "masked" => a \o b \o c \o d \in Seq(S)
    <3> SUFFICES ASSUME s.file # "masked" PROVE a \o b \o c \o d \in Seq(S)
      OBVIOUS
    <3>1. a \o b \in Seq(S)
      BY <2>4, <2>5
    <3>2. (a \o b) \o c \in Seq(S)
      BY <2>4, <3>1
    <3> QED  BY <2>5, <3>2
  <2>9. UnitPlan(spec, s) \in Seq(S)
    BY <2>6, <2>7, <2>8
  <2> QED  BY <2>2, <2>9 DEF S
<1> QED  BY <1>1, <1>2, <1>3 DEF Resource

(***************************************************************************)
(* State                                                                   *)
(***************************************************************************)

\* A host gives every resource a state of its kind.
LEMMA HostFacts ==
  ASSUME NEW h \in Host
  PROVE  /\ \A r \in Resource : h[r] \in StateOf(r)
         /\ \A r \in Resource : \A s \in StateOf(r) : [h EXCEPT ![r] = s] \in Host
<1>1. \A r \in Resource : h[r] \in StateOf(r)
  BY DEF Host
<1>2. ASSUME NEW r \in Resource, NEW s \in StateOf(r) PROVE [h EXCEPT ![r] = s] \in Host
  <2> DEFINE S == UNION {StateOf(q) : q \in Resource}
  <2>1. h \in [Resource -> S] /\ s \in S
    BY DEF Host
  <2> HIDE DEF S
  <2>2. [h EXCEPT ![r] = s] \in [Resource -> S]
    BY <2>1
  <2>3. \A q \in Resource : [h EXCEPT ![r] = s][q] \in StateOf(q)
    BY <1>1, <2>1
  <2> QED  BY <2>2, <2>3 DEF Host, S
<1> QED  BY <1>1, <1>2

\* Two hosts with the same state of every resource are the same.
LEMMA HostEqual ==
  ASSUME NEW h \in Host, NEW g \in Host, \A r \in Resource : h[r] = g[r]
  PROVE  h = g
<1> DEFINE S == UNION {StateOf(q) : q \in Resource}
<1>1. h \in [Resource -> S] /\ g \in [Resource -> S]
  BY DEF Host
<1> HIDE DEF S
<1> QED  BY <1>1

\* An item has a spec that fits its resource.
LEMMA ItemFacts ==
  ASSUME NEW x \in Item
  PROVE  x.res \in Resource /\ x.spec \in SpecOf(x.res)
BY DEF Item

\* A checkpoint has data that fits its resource.
LEMMA CheckpointFacts ==
  /\ \A c \in Checkpoint : c.res \in Resource /\ c.data \in SavedOf(c.res)
  /\ \A r \in Resource : \A d \in SavedOf(r) : [res |-> r, data |-> d] \in Checkpoint
BY DEF Checkpoint

\* Directories that are old enough to go have at least Keep newer operations.
LEMMA OldNotSupported ==
  ASSUME nops \in Nat, dirs \subseteq 1..nops, NEW o \in Old(dirs)
  PROVE  ~ Supported(o)
<1> SUFFICES ASSUME o > nops - Keep PROVE FALSE
  BY DEF Supported
<1>1. o \in 1..nops /\ Keep \in Nat
  BY ExecutorAssumption DEF Old
<1> DEFINE P == {p \in dirs : p > o}
<1>2. Cardinality(P) >= Keep
  BY DEF Old
<1>3. P \subseteq (o + 1)..nops
  <2> SUFFICES ASSUME NEW p \in P PROVE p \in (o + 1)..nops
    OBVIOUS
  <2>1. p \in 1..nops /\ p > o
    OBVIOUS
  <2>2. p \in Int /\ o \in Int /\ nops \in Int
    BY <1>1, <2>1
  <2> HIDE DEF P
  <2> QED  BY <2>1, <2>2
<1>4. IsFiniteSet((o + 1)..nops) /\ Cardinality((o + 1)..nops) = IF o + 1 > nops THEN 0 ELSE nops - (o + 1) + 1
  BY <1>1, FS_Interval
<1> HIDE DEF P
<1>5. Cardinality(P) <= Cardinality((o + 1)..nops) /\ Cardinality(P) \in Nat
  BY <1>3, <1>4, FS_Subset, FS_CardinalityType
<1>6. Cardinality((o + 1)..nops) = nops - o
  BY <1>1, <1>4
<1> HIDE DEF Old
<1> QED  BY <1>1, <1>2, <1>5, <1>6

(***************************************************************************)
(* The invariant                                                           *)
(***************************************************************************)

\* Where apply and rollback are. A step is taken only with a checkpoint.
ExecInv ==
  /\ exec.st \in {"next", "step", "apply", "verify"} =>
       exec.op \in 1..nops /\ undone[exec.op] = "no"
  /\ exec.st \in {"step", "apply", "verify"} => exec.todo # <<>>
  /\ exec.st \in {"step", "apply"} =>
       exec.steps # <<>> /\ exec.steps \in Seq(StepsFor(Res, host[Res]))
  /\ exec.st = "apply" => \E i \in 1..Len(ckpt[exec.op]) : ckpt[exec.op][i].res = Res
  /\ exec.st = "undo" =>
       /\ exec.op \in 1..nops /\ undone[exec.op] = "begun"
       /\ exec.left \in 0..Len(ckpt[exec.op])

\* Nothing is there of operations to come.
FreshInv == \A o \in Op : o > nops => ckpt[o] = <<>> /\ undone[o] = "no"

\* Checkpoints fit the kind of their resource.
FitsInv ==
  \A o \in Op : \A i \in 1..Len(ckpt[o]) :
    DataFits(ckpt[o][i].res, ckpt[o][i].data, host[ckpt[o][i].res])

\* s is t, but perhaps for mode and owner.
Back(lossy, r, s, t) ==
  IF lossy /\ r \in File THEN s.present = t.present /\ s.content = t.content ELSE s = t

\* A rollback that has met no error yet has put back the resources whose oldest
\* checkpoint is behind it.
UndoInv ==
  exec.st = "undo" /\ Supported(exec.op) /\ exec.op \notin touched /\ ~exec.err =>
    \A i \in 1..Len(ckpt[exec.op]) :
      i > exec.left /\ Oldest(exec.op, i) =>
        LET r == ckpt[exec.op][i].res IN Back(exec.lossy, r, host[r], before[exec.op][r])

Inv == /\ TypeOK /\ ExecInv /\ FreshInv /\ FitsInv
       /\ Undoable /\ UndoInv /\ RollbackRestores

(***************************************************************************)
(* Changes of the host                                                     *)
(***************************************************************************)

\* What a change does to the typed parts of the state.
LEMMA ChangeTyped ==
  ASSUME TypeOK, NEW r \in Resource, NEW s \in StateOf(r), NEW o, Change(r, s, o)
  PROVE  /\ host' \in Host /\ touched' \subseteq 1..nops /\ dirty' \subseteq Resource
         /\ host'[r] = s /\ \A q \in Resource : q # r => host'[q] = host[q]
<1>1. host \in Host /\ host' = [host EXCEPT ![r] = s]
  BY DEF TypeOK, Change
<1>2. host' \in Host
  BY <1>1, HostFacts
<1>3. DOMAIN host = Resource
  BY <1>1 DEF Host
<1>4. touched' \subseteq 1..nops /\ dirty' \subseteq Resource
  BY DEF TypeOK, Change
<1> QED  BY <1>1, <1>2, <1>3, <1>4

\* A change leaves the operations alone that it is not for, or touches them.
LEMMA ChangeTouches ==
  ASSUME TypeOK, NEW r \in Resource, NEW s \in StateOf(r), NEW o, Change(r, s, o),
         NEW p \in 1..nops, p \notin touched'
  PROVE  p \notin touched /\ (host' = host \/ p = o)
<1>1. host \in Host /\ host' = [host EXCEPT ![r] = s]
  BY DEF TypeOK, Change
<1>2. CASE s = host[r]
  <2>1. host' = host
    BY <1>1, <1>2 DEF Host
  <2> QED  BY <1>2, <2>1 DEF Change
<1>3. CASE s # host[r]
  BY <1>3 DEF Change
<1> QED  BY <1>2, <1>3

\* A change to a state of the same kind keeps checkpoints fitting.
LEMMA ChangeFits ==
  ASSUME TypeOK, FitsInv, NEW r \in Resource, NEW s \in StateOf(r), NEW o, Change(r, s, o),
         SameKind(r, host[r], s), UNCHANGED ckpt
  PROVE  FitsInv'
<1> SUFFICES ASSUME NEW p \in Op, NEW i \in 1..Len(ckpt[p])
             PROVE  DataFits(ckpt[p][i].res, ckpt[p][i].data, host'[ckpt[p][i].res])
  BY DEF FitsInv
<1>1. ckpt[p] \in Seq(Checkpoint)
  BY DEF TypeOK
<1>2. ckpt[p][i] \in Checkpoint
  BY <1>1
<1>3. ckpt[p][i].res \in Resource
  BY <1>2, CheckpointFacts
<1>4. DataFits(ckpt[p][i].res, ckpt[p][i].data, host[ckpt[p][i].res])
  BY DEF FitsInv
<1>5. host[r] \in StateOf(r)
  BY HostFacts DEF TypeOK
<1>6. \A d : DataFits(r, d, host[r]) => DataFits(r, d, s)
  BY <1>5, SameKindFacts
<1>7. host'[r] = s /\ \A q \in Resource : q # r => host'[q] = host[q]
  BY ChangeTyped
<1> QED  BY <1>3, <1>4, <1>6, <1>7

\* A change to a state of the same kind can be undone if its operation has a
\* checkpoint of the resource, or if it is nobody's.
LEMMA ChangeUndoable ==
  ASSUME TypeOK, Undoable, NEW r \in Resource, NEW s \in StateOf(r), NEW o, Change(r, s, o),
         SameKind(r, host[r], s), UNCHANGED <<dirs, ckpt, nops, before>>,
         o = 0 \/ \E i \in 1..Len(ckpt[o]) : ckpt[o][i].res = r
  PROVE  Undoable'
<1>a. \A p : Supported(p)' <=> Supported(p)
  BY DEF Supported
<1>b. \A p, i : Oldest(p, i)' <=> Oldest(p, i)
  BY DEF Oldest
<1> SUFFICES ASSUME NEW p \in Op, Supported(p), p \notin touched'
             PROVE  /\ p \in dirs
                    /\ \A q \in Resource :
                         (\A i \in 1..Len(ckpt[p]) : ckpt[p][i].res # q) => host'[q] = before[p][q]
                    /\ \A i \in 1..Len(ckpt[p]) :
                         Oldest(p, i) => Restored(ckpt[p][i].res, ckpt[p][i].data, host'[ckpt[p][i].res])
                                           = before[p][ckpt[p][i].res]
  BY <1>a, <1>b DEF Undoable
<1>1. p \in 1..nops
  BY DEF Supported
<1>2. p \notin touched /\ (host' = host \/ p = o)
  BY <1>1, ChangeTouches
<1>3. /\ p \in dirs
      /\ \A q \in Resource :
           (\A i \in 1..Len(ckpt[p]) : ckpt[p][i].res # q) => host[q] = before[p][q]
      /\ \A i \in 1..Len(ckpt[p]) :
           Oldest(p, i) => Restored(ckpt[p][i].res, ckpt[p][i].data, host[ckpt[p][i].res])
                             = before[p][ckpt[p][i].res]
  BY <1>2 DEF Undoable
<1>4. CASE host' = host
  BY <1>3, <1>4
<1>5. CASE p = o
  <2>1. \E i \in 1..Len(ckpt[p]) : ckpt[p][i].res = r
    BY <1>1, <1>5
  <2>2. host'[r] = s /\ \A q \in Resource : q # r => host'[q] = host[q]
    BY ChangeTyped
  <2>3. \A q \in Resource :
          (\A i \in 1..Len(ckpt[p]) : ckpt[p][i].res # q) => host'[q] = before[p][q]
    BY <1>3, <2>1, <2>2
  <2>4. ASSUME NEW i \in 1..Len(ckpt[p]), Oldest(p, i)
        PROVE  Restored(ckpt[p][i].res, ckpt[p][i].data, host'[ckpt[p][i].res])
                 = before[p][ckpt[p][i].res]
    <3>1. ckpt[p] \in Seq(Checkpoint)
      BY DEF TypeOK
    <3>2. ckpt[p][i] \in Checkpoint
      BY <3>1
    <3>3. ckpt[p][i].res \in Resource /\ ckpt[p][i].data \in SavedOf(ckpt[p][i].res)
      BY <3>2, CheckpointFacts
    <3>4. CASE ckpt[p][i].res # r
      BY <1>3, <2>2, <2>4, <3>3, <3>4
    <3>5. CASE ckpt[p][i].res = r
      <4>1. host[r] \in StateOf(r)
        BY HostFacts DEF TypeOK
      <4>2. Restored(r, ckpt[p][i].data, host[r]) = Restored(r, ckpt[p][i].data, s)
        BY <3>3, <3>5, <4>1, RestoredByKind
      <4> QED  BY <1>3, <2>2, <2>4, <3>5, <4>2
    <3> QED  BY <3>4, <3>5
  <2> QED  BY <1>3, <2>3, <2>4
<1> QED  BY <1>2, <1>4, <1>5

\* A change for an operation that is not rolled back disturbs no rollback.
LEMMA ChangeRestores ==
  ASSUME TypeOK, RollbackRestores, NEW r \in Resource, NEW s \in StateOf(r), NEW o, Change(r, s, o),
         UNCHANGED <<nops, before, undone>>, o \in Op => undone[o] \in {"no", "begun"}
  PROVE  RollbackRestores'
<1> SUFFICES ASSUME NEW p \in Op, Supported(p), p \notin touched'
             PROVE  /\ undone[p] = "ok" => host' = before[p]
                    /\ undone[p] = "lossy" =>
                         \A q \in Resource :
                           IF q \in File
                           THEN /\ host'[q].present = before[p][q].present
                                /\ host'[q].content = before[p][q].content
                           ELSE host'[q] = before[p][q]
  BY DEF RollbackRestores, Supported
<1>1. p \in 1..nops
  BY DEF Supported
<1>2. p \notin touched /\ (host' = host \/ p = o)
  BY <1>1, ChangeTouches
<1>3. CASE host' = host
  BY <1>2, <1>3 DEF RollbackRestores
<1>4. CASE p = o
  BY <1>4
<1> QED  BY <1>2, <1>3, <1>4

(***************************************************************************)
(* Steps without a change of the host                                      *)
(***************************************************************************)

\* The resource at work.
LEMMA ResFacts ==
  ASSUME TypeOK, exec.todo # <<>>
  PROVE  /\ Res \in Resource /\ Spc \in SpecOf(Res) /\ host[Res] \in StateOf(Res)
         /\ Tail(exec.todo) \in Seq(Item)
<1>1. exec.todo \in Seq(Item)
  BY DEF TypeOK, Exec
<1>2. Head(exec.todo) \in Item /\ Tail(exec.todo) \in Seq(Item)
  BY <1>1
<1>3. Res \in Resource /\ Spc \in SpecOf(Res)
  BY <1>2, ItemFacts DEF Res, Spc
<1> QED  BY <1>2, <1>3, HostFacts DEF TypeOK

\* The next resource is taken.
LEMMA NextItemFacts ==
  ASSUME TypeOK, exec.todo # <<>>, NEW a \in BOOLEAN, NEW b \in BOOLEAN, NextItem(a, b)
  PROVE  exec' \in Exec /\ exec'.st = "next" /\ exec'.op = exec.op
<1>1. exec \in Exec
  BY DEF TypeOK
<1>2. Tail(exec.todo) \in Seq(Item)
  BY ResFacts
<1>3. exec' = [exec EXCEPT !.st = "next", !.todo = Tail(exec.todo), !.steps = <<>>,
                 !.failed = exec.failed \/ a, !.changed = exec.changed \/ b]
  BY DEF NextItem
<1>4. (exec.failed \/ a) \in BOOLEAN /\ (exec.changed \/ b) \in BOOLEAN /\ <<>> \in Seq(StepName)
  OBVIOUS
<1> DEFINE f == exec.failed \/ a
<1> DEFINE g == exec.changed \/ b
<1>5. f \in BOOLEAN /\ g \in BOOLEAN
  BY <1>4
<1>6. exec' = [exec EXCEPT !.st = "next", !.todo = Tail(exec.todo), !.steps = <<>>,
                 !.failed = f, !.changed = g]
  BY <1>3
<1> HIDE DEF f, g
<1> QED  BY <1>1, <1>2, <1>4, <1>5, <1>6 DEF Exec

\* The executor at rest.
LEMMA IdleFacts == Idle \in Exec /\ Idle.st = "idle"
BY DEF Idle, Exec

\* What is left to prove of a step that neither changes the host nor checkpoints.
LEMMA QuietStep ==
  ASSUME Inv, UNCHANGED <<host, dirs, ckpt, nops, before, touched, undone>>
  PROVE  FreshInv' /\ FitsInv' /\ Undoable' /\ RollbackRestores'
<1>1. FreshInv'
  BY DEF Inv, FreshInv
<1>2. FitsInv'
  BY DEF Inv, FitsInv
<1>3. Undoable'
  BY DEF Inv, Undoable, Supported, Oldest
<1>4. RollbackRestores'
  BY DEF Inv, RollbackRestores, Supported
<1> QED  BY <1>1, <1>2, <1>3, <1>4

\* Going on to the next resource, nothing is asked of the steps.
LEMMA NextItemExec ==
  ASSUME Inv, exec.st \in {"next", "step", "apply", "verify"}, exec'.st = "next", exec'.op = exec.op,
         UNCHANGED <<nops, undone>>
  PROVE  ExecInv' /\ UndoInv'
BY DEF Inv, ExecInv, UndoInv

\* An executor at rest is nowhere.
LEMMA IdleExec ==
  ASSUME exec' = Idle
  PROVE  ExecInv' /\ UndoInv'
BY IdleFacts DEF ExecInv, UndoInv

\* The invariant holds at the beginning: no operation is supported yet.
LEMMA InvInit == Init => Inv
<1> SUFFICES ASSUME Init PROVE Inv
  OBVIOUS
<1>1. TypeOK
  <2>1. host \in Host
    BY ExecutorAssumption DEF Init
  <2>2. loaded \in [Vhost -> VhostState]
    <3>1. \A v \in Vhost : host[v] \in VhostState
      <4> SUFFICES ASSUME NEW v \in Vhost PROVE host[v] \in VhostState
        OBVIOUS
      <4>1. v \in Resource
        BY DEF Resource
      <4> QED  BY <2>1, <4>1, Kinds, HostFacts DEF StateOf
    <3> QED  BY <3>1 DEF Init
  <2>3. exec \in Exec /\ before \in [Op -> Host] /\ ckpt \in [Op -> Seq(Checkpoint)]
        /\ items \in [Op -> Seq(Item)]
    BY <2>1, IdleFacts DEF Init
  <2>4. nops = 0 /\ dirs = {} /\ touched = {} /\ dirty = {} /\ trouble = 0 /\ torn = FALSE
    BY DEF Init
  <2>5. applied \in [Resource -> AnySpec \cup {NoSpec}]
        /\ result \in [Op -> {"none", "succeeded", "partially_applied", "failed"}]
        /\ undone \in [Op -> {"no", "begun", "ok", "lossy"}]
    BY DEF Init
  <2>6. nops \in 0..MaxOps /\ trouble \in 0..MaxTrouble
    BY <2>4, ExecutorAssumption
  <2>7. dirs \subseteq 1..nops /\ touched \subseteq 1..nops /\ dirty \subseteq Resource /\ torn \in BOOLEAN
    BY <2>4
  <2> QED  BY <2>1, <2>2, <2>3, <2>5, <2>6, <2>7 DEF TypeOK
<1>2. ExecInv /\ UndoInv
  BY IdleFacts DEF Init, ExecInv, UndoInv
<1>3. FreshInv /\ FitsInv
  BY DEF Init, FreshInv, FitsInv
<1>4. \A o \in Op : ~Supported(o)
  BY DEF Init, Supported
<1> QED  BY <1>1, <1>2, <1>3, <1>4 DEF Inv, Undoable, RollbackRestores

\* Start: the host is what it was before the new operation; the operation that
\* ceases to be supported is not looked at any more.
LEMMA StartInv ==
  ASSUME Inv, NEW m \in Manifest, Start(m)
  PROVE  Inv'
<1>0. TypeOK
  BY DEF Inv
<1>1. nops \in 0..MaxOps /\ nops' = nops + 1 /\ MaxOps \in Nat /\ nops < MaxOps /\ Keep \in Nat
  BY <1>0, ExecutorAssumption DEF TypeOK, Start
<1>2. nops' \in Op /\ nops' \in 0..MaxOps /\ nops' \in 1..nops' /\ 1..nops \subseteq 1..nops'
  BY <1>1 DEF Op
<1>3. m \in Seq(Item)
  BY ManifestAssumption DEF Item
<1>4. exec' \in Exec /\ exec'.st = "next" /\ exec'.op = nops'
  <2>1. exec' = [Idle EXCEPT !.st = "next", !.op = nops', !.todo = m]
    BY DEF Start
  <2>2. exec' = [st |-> "next", op |-> nops', todo |-> m, steps |-> <<>>, failed |-> FALSE,
                  changed |-> FALSE, left |-> 0, err |-> FALSE, lossy |-> FALSE]
    BY <2>1 DEF Idle
  <2>3. nops' \in Op \cup {0} /\ <<>> \in Seq(StepName)
    BY <1>2
  <2> QED  BY <1>3, <2>2, <2>3 DEF Exec
<1>5. before' \in [Op -> Host] /\ before'[nops'] = host
      /\ \A o \in Op : o # nops' => before'[o] = before[o]
  BY <1>0, <1>2 DEF TypeOK, Start
<1>6. UNCHANGED <<host, ckpt, touched, undone>> /\ dirs' = dirs \cup {nops'}
  BY DEF Start, marks
<1>7. TypeOK'
  <2>1. dirs' \subseteq 1..nops' /\ touched' \subseteq 1..nops'
    BY <1>0, <1>2, <1>6 DEF TypeOK
  <2>2. items' \in [Op -> Seq(Item)]
    BY <1>0, <1>2, <1>3 DEF TypeOK, Start
  <2> QED  BY <1>0, <1>2, <1>4, <1>5, <2>1, <2>2 DEF TypeOK, Start, marks
<1>8. ckpt[nops'] = <<>> /\ undone[nops'] = "no"
  BY <1>1, <1>2 DEF Inv, FreshInv
<1>9. ExecInv' /\ UndoInv'
  BY <1>2, <1>4, <1>6, <1>8 DEF ExecInv, UndoInv
<1>10. FreshInv'
  BY <1>1, <1>6 DEF Inv, FreshInv, Op
<1>11. FitsInv'
  BY <1>6 DEF Inv, FitsInv
<1>12. ASSUME NEW o \in Op, Supported(o)' PROVE o = nops' \/ (Supported(o) /\ o # nops')
  BY <1>1, <1>12 DEF Supported, Op
<1>13. Undoable'
  <2> SUFFICES ASSUME NEW o \in Op, Supported(o)', o \notin touched
               PROVE  /\ o \in dirs'
                      /\ \A r \in Resource :
                           (\A i \in 1..Len(ckpt[o]) : ckpt[o][i].res # r) => host[r] = before'[o][r]
                      /\ \A i \in 1..Len(ckpt[o]) :
                           Oldest(o, i) => Restored(ckpt[o][i].res, ckpt[o][i].data, host[ckpt[o][i].res])
                                             = before'[o][ckpt[o][i].res]
    BY <1>6 DEF Undoable, Oldest
  <2>1. CASE o = nops'
    BY <1>5, <1>6, <1>8, <2>1
  <2>2. CASE Supported(o) /\ o # nops'
    BY <1>5, <1>6, <2>2 DEF Inv, Undoable
  <2> QED  BY <1>12, <2>1, <2>2
<1>14. RollbackRestores'
  <2> SUFFICES ASSUME NEW o \in Op, Supported(o)', o \notin touched
               PROVE  /\ undone[o] = "ok" => host = before'[o]
                      /\ undone[o] = "lossy" =>
                           \A r \in Resource :
                             IF r \in File
                             THEN /\ host[r].present = before'[o][r].present
                                  /\ host[r].content = before'[o][r].content
                             ELSE host[r] = before'[o][r]
    BY <1>6 DEF RollbackRestores
  <2>1. CASE o = nops'
    BY <1>8, <2>1
  <2>2. CASE Supported(o) /\ o # nops'
    BY <1>5, <2>2 DEF Inv, RollbackRestores
  <2> QED  BY <1>12, <2>1, <2>2
<1> QED  BY <1>7, <1>9, <1>10, <1>11, <1>13, <1>14 DEF Inv

\* Observe: the plan has steps of the right kind.
LEMMA ObserveInv ==
  ASSUME Inv, Observe
  PROVE  Inv'
<1>0. TypeOK /\ exec.todo # <<>> /\ exec.st = "next"
  BY DEF Inv, Observe
<1>1. Res \in Resource /\ Spc \in SpecOf(Res) /\ host[Res] \in StateOf(Res)
  BY <1>0, ResFacts
<1>2. UNCHANGED <<host, loaded, dirs, ckpt, nops, trouble, before, items, result, undone, touched, torn>>
  BY DEF Observe, past
<1>3. FreshInv' /\ FitsInv' /\ Undoable' /\ RollbackRestores'
  BY <1>2, QuietStep
<1> DEFINE p == Plan(Res, Spc, host[Res])
<1>4. p \in Seq(StepsFor(Res, host[Res]))
  BY <1>1, PlanSteps
<1>5. StepsFor(Res, host[Res]) \subseteq StepName
  BY DEF StepsFor, StepName
<1>6. p \in Seq(StepName)
  BY <1>4, <1>5
<1>7. CASE Differs(Res, Spc, host[Res])
  <2> DEFINE t == IF p = <<>> THEN "verify" ELSE "step"
  <2>1. exec' = [exec EXCEPT !.steps = p, !.st = t] /\ UNCHANGED <<applied, dirty>>
    BY <1>7 DEF Observe
  <2>2. t \in {"verify", "step"} /\ (t = "step" => p # <<>>)
    OBVIOUS
  <2> HIDE DEF p, t
  <2>3. exec \in Exec
    BY <1>0 DEF TypeOK
  <2>4. exec' \in Exec /\ exec'.st = t /\ exec'.steps = p /\ exec'.op = exec.op /\ exec'.todo = exec.todo
    BY <1>6, <2>1, <2>2, <2>3 DEF Exec
  <2>5. TypeOK'
    BY <1>0, <1>2, <2>1, <2>4 DEF TypeOK
  <2>6. Res' = Res
    BY <2>4 DEF Res
  <2>7. exec.op \in 1..nops /\ undone[exec.op] = "no"
    BY <1>0 DEF Inv, ExecInv
  <2>8. ExecInv' /\ UndoInv'
    BY <1>0, <1>2, <1>4, <2>2, <2>4, <2>6, <2>7 DEF ExecInv, UndoInv
  <2> QED  BY <1>3, <2>5, <2>8 DEF Inv
<1>8. CASE ~Differs(Res, Spc, host[Res])
  <2>1. NextItem(FALSE, FALSE) /\ WriteApplied
    BY <1>8 DEF Observe
  <2>2. exec' \in Exec /\ exec'.st = "next" /\ exec'.op = exec.op
    BY <1>0, <2>1, NextItemFacts
  <2>3. applied' \in [Resource -> AnySpec \cup {NoSpec}] /\ dirty' \subseteq Resource
    <3>1. Spc \in AnySpec
      BY <1>1 DEF AnySpec
    <3> QED  BY <1>0, <2>1, <3>1 DEF TypeOK, WriteApplied
  <2>4. TypeOK'
    BY <1>0, <1>2, <2>2, <2>3 DEF TypeOK
  <2>5. ExecInv' /\ UndoInv'
    BY <1>0, <1>2, <2>2, NextItemExec
  <2> QED  BY <1>3, <2>4, <2>5 DEF Inv
<1> QED  BY <1>7, <1>8

\* Verify: only applied/ is written.
LEMMA VerifyInv ==
  ASSUME Inv, Verify
  PROVE  Inv'
<1>0. TypeOK /\ exec.todo # <<>> /\ exec.st = "verify"
  BY DEF Inv, ExecInv, Verify
<1>1. Res \in Resource /\ Spc \in SpecOf(Res)
  BY <1>0, ResFacts
<1>2. UNCHANGED <<host, loaded, dirs, ckpt, nops, trouble, before, items, result, undone, touched, torn>>
  BY DEF Verify, past
<1>3. FreshInv' /\ FitsInv' /\ Undoable' /\ RollbackRestores'
  BY <1>2, QuietStep
<1>4. \/ NextItem(FALSE, TRUE) /\ WriteApplied
      \/ NextItem(TRUE, FALSE) /\ UNCHANGED <<applied, dirty>>
  BY DEF Verify
<1>5. exec' \in Exec /\ exec'.st = "next" /\ exec'.op = exec.op
  BY <1>0, <1>4, NextItemFacts
<1>6. applied' \in [Resource -> AnySpec \cup {NoSpec}] /\ dirty' \subseteq Resource
  <2>1. Spc \in AnySpec
    BY <1>1 DEF AnySpec
  <2> QED  BY <1>0, <1>4, <2>1 DEF TypeOK, WriteApplied
<1>7. TypeOK'
  BY <1>0, <1>2, <1>5, <1>6 DEF TypeOK
<1>8. ExecInv' /\ UndoInv'
  BY <1>0, <1>2, <1>5, NextItemExec
<1> QED  BY <1>3, <1>7, <1>8 DEF Inv

\* Failures are counted up to their bound.
LEMMA TroubleTyped ==
  ASSUME TypeOK, Works \/ Fails
  PROVE  trouble' \in 0..MaxTrouble
BY ExecutorAssumption DEF TypeOK, Works, Fails

\* Abort: nothing but the executor changes.
LEMMA AbortInv ==
  ASSUME Inv, Abort
  PROVE  Inv'
<1>1. UNCHANGED <<host, loaded, dirs, ckpt, applied, nops, before, items, result, undone, touched, dirty, torn>>
  BY DEF Abort, disk, past, marks
<1>2. FreshInv' /\ FitsInv' /\ Undoable' /\ RollbackRestores'
  BY <1>1, QuietStep
<1>3. exec' = Idle /\ TypeOK /\ Fails
  BY DEF Abort, Inv
<1>4. trouble' \in 0..MaxTrouble /\ exec' \in Exec
  BY <1>3, TroubleTyped, IdleFacts
<1>5. TypeOK'
  BY <1>1, <1>3, <1>4 DEF TypeOK
<1> QED  BY <1>2, <1>3, <1>5, IdleExec DEF Inv

\* Finish: no supported operation loses its directory or its checkpoints.
LEMMA FinishInv ==
  ASSUME Inv, Finish
  PROVE  Inv'
<1>0. TypeOK /\ exec.st = "next" /\ exec' = Idle
  BY DEF Inv, Finish
<1>1. UNCHANGED <<host, loaded, applied, nops, before, items, undone, touched, dirty, torn>>
  BY DEF Finish, marks
<1>2. /\ \A o \in dirs \ Old(dirs) : o \in dirs'
      /\ dirs' \subseteq dirs
      /\ ckpt' \in [Op -> Seq(Checkpoint)]
      /\ \A o \in Op : ckpt'[o] = ckpt[o] \/ (o \in Old(dirs) /\ ckpt'[o] = <<>>)
      /\ Works \/ Fails
  <2>0. ckpt \in [Op -> Seq(Checkpoint)] /\ <<>> \in Seq(Checkpoint)
    BY <1>0 DEF TypeOK
  <2>1. CASE /\ Works
             /\ dirs' = dirs \ Old(dirs)
             /\ ckpt' = [o \in Op |-> IF o \in Old(dirs) THEN <<>> ELSE ckpt[o]]
    BY <2>0, <2>1
  <2>2. CASE /\ Fails
             /\ \E stay \in SUBSET Old(dirs), full \in SUBSET Old(dirs) :
                  /\ full \subseteq stay /\ stay # {}
                  /\ dirs' = dirs \ (Old(dirs) \ stay)
                  /\ ckpt' = [o \in Op |-> IF o \in Old(dirs) \ full THEN <<>> ELSE ckpt[o]]
    BY <2>0, <2>2
  <2> QED  BY <2>1, <2>2 DEF Finish
<1>3. trouble' \in 0..MaxTrouble /\ exec' \in Exec
  BY <1>0, <1>2, TroubleTyped, IdleFacts
<1>4. result' \in [Op -> {"none", "succeeded", "partially_applied", "failed"}]
  <2>1. \A f, g : Status(f, g) \in {"succeeded", "partially_applied", "failed"}
    BY DEF Status
  <2>2. result' = [result EXCEPT ![exec.op] = Status(exec.failed, exec.changed)]
    BY DEF Finish
  <2> QED  BY <1>0, <2>1, <2>2 DEF TypeOK
<1>5. TypeOK'
  BY <1>0, <1>1, <1>2, <1>3, <1>4 DEF TypeOK
<1>6. nops \in Nat /\ dirs \subseteq 1..nops
  BY <1>0, ExecutorAssumption DEF TypeOK
<1>7. \A o \in Op : Supported(o) => o \notin Old(dirs) /\ ckpt'[o] = ckpt[o]
  BY <1>2, <1>6, OldNotSupported
<1>8. FreshInv'
  BY <1>1, <1>2 DEF Inv, FreshInv
<1>9. FitsInv'
  <2> SUFFICES ASSUME NEW o \in Op, NEW i \in 1..Len(ckpt'[o])
               PROVE  DataFits(ckpt'[o][i].res, ckpt'[o][i].data, host[ckpt'[o][i].res])
    BY <1>1 DEF FitsInv
  <2>1. ckpt'[o] = ckpt[o]
    BY <1>2
  <2> QED  BY <2>1 DEF Inv, FitsInv
<1>10. Undoable'
  <2>a. \A o : Supported(o)' <=> Supported(o)
    BY <1>1 DEF Supported
  <2>b. \A o \in Op : Supported(o) => \A i : Oldest(o, i)' <=> Oldest(o, i)
    BY <1>7 DEF Oldest
  <2> SUFFICES ASSUME NEW o \in Op, Supported(o), o \notin touched
               PROVE  /\ o \in dirs'
                      /\ \A r \in Resource :
                           (\A i \in 1..Len(ckpt[o]) : ckpt[o][i].res # r) => host[r] = before[o][r]
                      /\ \A i \in 1..Len(ckpt[o]) :
                           Oldest(o, i) => Restored(ckpt[o][i].res, ckpt[o][i].data, host[ckpt[o][i].res])
                                             = before[o][ckpt[o][i].res]
    BY <1>1, <1>7, <2>a, <2>b DEF Undoable
  <2> QED  BY <1>2, <1>7 DEF Inv, Undoable
<1>11. RollbackRestores'
  BY <1>1 DEF Inv, RollbackRestores, Supported
<1> QED  BY <1>0, <1>5, <1>8, <1>9, <1>10, <1>11, IdleExec DEF Inv

\* Rollback: the last checkpoint is the first one to be restored.
LEMMA RollbackInv ==
  ASSUME Inv, NEW o \in Op, Rollback(o)
  PROVE  Inv'
<1>0. TypeOK /\ o \in 1..nops
  BY DEF Inv, TypeOK, Rollback
<1>1. UNCHANGED <<host, loaded, dirs, ckpt, applied, nops, trouble, before, items, result, touched, dirty, torn>>
  BY DEF Rollback, disk, marks
<1>2. undone' = [undone EXCEPT ![o] = "begun"]
  BY DEF Rollback
<1>3. undone' \in [Op -> {"no", "begun", "ok", "lossy"}] /\ undone'[o] = "begun"
      /\ \A p \in Op : p # o => undone'[p] = undone[p]
  BY <1>0, <1>2 DEF TypeOK
<1> DEFINE n == Len(ckpt[o])
<1>4. n \in Nat /\ n \in 0..n
  <2>1. ckpt[o] \in Seq(Checkpoint)
    BY <1>0 DEF TypeOK
  <2> QED  BY <2>1
<1>5. exec' \in Exec /\ exec'.st = "undo" /\ exec'.op = o /\ exec'.left = n
  <2>1. exec' = [Idle EXCEPT !.st = "undo", !.op = o, !.left = n]
    BY DEF Rollback
  <2> HIDE DEF n
  <2>2. exec' = [st |-> "undo", op |-> o, todo |-> <<>>, steps |-> <<>>, failed |-> FALSE,
                  changed |-> FALSE, left |-> n, err |-> FALSE, lossy |-> FALSE]
    BY <2>1 DEF Idle
  <2>3. <<>> \in Seq(StepName) /\ <<>> \in Seq(Item) /\ o \in Op \cup {0}
    OBVIOUS
  <2> QED  BY <1>4, <2>2, <2>3 DEF Exec
<1>6. TypeOK'
  BY <1>0, <1>1, <1>3, <1>5 DEF TypeOK
<1>7. ExecInv'
  BY <1>0, <1>1, <1>3, <1>4, <1>5 DEF ExecInv
<1>8. UndoInv'
  <2> SUFFICES ASSUME NEW i \in 1..n, i > n PROVE FALSE
    BY <1>1, <1>5 DEF UndoInv
  <2> HIDE DEF n
  <2> QED  BY <1>4
<1>9. FreshInv'
  <2>1. ~(o > nops)
    BY <1>0 DEF TypeOK
  <2> QED  BY <1>1, <1>3, <2>1 DEF Inv, FreshInv
<1>10. FitsInv'
  BY <1>1 DEF Inv, FitsInv
<1>11. Undoable'
  BY <1>1 DEF Inv, Undoable, Supported, Oldest
<1>12. RollbackRestores'
  <2> SUFFICES ASSUME NEW p \in Op, Supported(p), p \notin touched
               PROVE  /\ undone'[p] = "ok" => host = before[p]
                      /\ undone'[p] = "lossy" =>
                           \A r \in Resource :
                             IF r \in File
                             THEN /\ host[r].present = before[p][r].present
                                  /\ host[r].content = before[p][r].content
                             ELSE host[r] = before[p][r]
    BY <1>1 DEF RollbackRestores, Supported
  <2> QED  BY <1>3 DEF Inv, RollbackRestores
<1> QED  BY <1>6, <1>7, <1>8, <1>9, <1>10, <1>11, <1>12 DEF Inv

\* PreApply: the first checkpoint of a resource holds what it was before the
\* operation, for nothing has changed the resource since.
LEMMA PreApplyInv ==
  ASSUME Inv, PreApply
  PROVE  Inv'
<1>0. TypeOK /\ exec.st = "step" /\ exec.todo # <<>> /\ exec.op \in 1..nops /\ exec \in Exec
  BY DEF Inv, ExecInv, PreApply, TypeOK
<1>1. UNCHANGED <<host, loaded, dirs, applied, nops, before, items, result, undone, touched, dirty, torn>>
  BY DEF PreApply, past, marks
<1>2. Res \in Resource /\ host[Res] \in StateOf(Res)
  BY <1>0, ResFacts
<1>3. CASE Fails /\ NextItem(TRUE, FALSE) /\ UNCHANGED ckpt
  <2>1. FreshInv' /\ FitsInv' /\ Undoable' /\ RollbackRestores'
    BY <1>1, <1>3, QuietStep
  <2>2. exec' \in Exec /\ exec'.st = "next" /\ exec'.op = exec.op
    BY <1>0, <1>3, NextItemFacts
  <2>3. TypeOK'
    BY <1>0, <1>1, <1>3, <2>2, TroubleTyped DEF TypeOK
  <2> QED  BY <1>0, <1>1, <2>1, <2>2, <2>3, NextItemExec DEF Inv
<1>4. CASE /\ Works
           /\ ckpt' = Checkpointed(exec.op, [res |-> Res, data |-> Saved(Res, host[Res])])
           /\ exec' = [exec EXCEPT !.st = "apply"]
  <2> DEFINE o == exec.op
  <2> DEFINE c == [res |-> Res, data |-> Saved(Res, host[Res])]
  <2> DEFINE n == Len(ckpt[o])
  <2>1. o \in Op /\ ckpt[o] \in Seq(Checkpoint) /\ n \in Nat
    <3>1. o \in Op
      BY <1>0 DEF TypeOK, Op, Exec
    <3>2. ckpt[o] \in Seq(Checkpoint)
      BY <1>0, <3>1 DEF TypeOK
    <3> QED  BY <3>1, <3>2
  <2>2. c \in Checkpoint /\ c.res = Res /\ Restored(Res, c.data, host[Res]) = host[Res]
        /\ DataFits(Res, c.data, host[Res])
    BY <1>2, SavedRestores, CheckpointFacts
  <2>3. ckpt' = [ckpt EXCEPT ![o] = Append(ckpt[o], c)]
    BY <1>4 DEF Checkpointed
  <2> HIDE DEF c
  <2>4. /\ ckpt' \in [Op -> Seq(Checkpoint)]
        /\ \A p \in Op : p # o => ckpt'[p] = ckpt[p]
        /\ Len(ckpt'[o]) = n + 1 /\ ckpt'[o][n + 1] = c
        /\ \A i \in 1..n : ckpt'[o][i] = ckpt[o][i]
    <3>1. ckpt'[o] = Append(ckpt[o], c) /\ \A p \in Op : p # o => ckpt'[p] = ckpt[p]
      BY <1>0, <2>1, <2>3 DEF TypeOK
    <3>2. Append(ckpt[o], c) \in Seq(Checkpoint) /\ Len(Append(ckpt[o], c)) = n + 1
          /\ Append(ckpt[o], c)[n + 1] = c /\ \A i \in 1..n : Append(ckpt[o], c)[i] = ckpt[o][i]
      BY <2>1, <2>2
    <3>3. ckpt' \in [Op -> Seq(Checkpoint)]
      BY <1>0, <2>1, <2>3, <3>2 DEF TypeOK
    <3> QED  BY <3>1, <3>2, <3>3
  <2>5. exec' \in Exec /\ exec'.st = "apply" /\ exec'.op = o /\ exec'.todo = exec.todo
        /\ exec'.steps = exec.steps
    BY <1>0, <1>4 DEF Exec
  <2>6. TypeOK'
    BY <1>0, <1>1, <1>4, <2>4, <2>5 DEF TypeOK, Works
  <2> HIDE DEF n
  <2>7. n + 1 \in 1..(n + 1) /\ \A i \in 1..(n + 1) : i = n + 1 \/ i \in 1..n
    BY <2>1
  <2>8. ExecInv' /\ UndoInv'
    <3>1. Res' = Res
      BY <2>5 DEF Res
    <3>2. /\ undone[o] = "no" /\ exec.steps # <<>>
          /\ exec.steps \in Seq(StepsFor(Res, host[Res]))
      BY <1>0 DEF Inv, ExecInv
    <3>3. \E i \in 1..Len(ckpt'[o]) : ckpt'[o][i].res = Res
      BY <2>2, <2>4, <2>7
    <3> QED  BY <1>0, <1>1, <2>5, <3>1, <3>2, <3>3 DEF ExecInv, UndoInv
  <2>9. FreshInv'
    <3>1. ~(o > nops)
      BY <1>0 DEF TypeOK
    <3> QED  BY <1>1, <2>4, <3>1 DEF Inv, FreshInv
  <2>10. FitsInv'
    <3> SUFFICES ASSUME NEW p \in Op, NEW i \in 1..Len(ckpt'[p])
                 PROVE  DataFits(ckpt'[p][i].res, ckpt'[p][i].data, host[ckpt'[p][i].res])
      BY <1>1 DEF FitsInv
    <3>1. CASE p # o
      BY <2>4, <3>1 DEF Inv, FitsInv
    <3>2. CASE p = o /\ i = n + 1
      BY <2>2, <2>4, <3>2
    <3>3. CASE p = o /\ i \in 1..n
      BY <2>4, <3>3 DEF Inv, FitsInv, n
    <3> QED  BY <2>4, <2>7, <3>1, <3>2, <3>3
  <2>11. Undoable'
    <3> SUFFICES ASSUME NEW p \in Op, Supported(p), p \notin touched
                 PROVE  /\ p \in dirs
                        /\ \A r \in Resource :
                             (\A i \in 1..Len(ckpt'[p]) : ckpt'[p][i].res # r) => host[r] = before[p][r]
                        /\ \A i \in 1..Len(ckpt'[p]) :
                             (\A j \in 1..(i - 1) : ckpt'[p][j].res # ckpt'[p][i].res) =>
                               Restored(ckpt'[p][i].res, ckpt'[p][i].data, host[ckpt'[p][i].res])
                                 = before[p][ckpt'[p][i].res]
      BY <1>1 DEF Undoable, Supported, Oldest
    <3>0. /\ p \in dirs
          /\ \A r \in Resource :
               (\A i \in 1..Len(ckpt[p]) : ckpt[p][i].res # r) => host[r] = before[p][r]
          /\ \A i \in 1..Len(ckpt[p]) :
               Oldest(p, i) => Restored(ckpt[p][i].res, ckpt[p][i].data, host[ckpt[p][i].res])
                                 = before[p][ckpt[p][i].res]
      BY DEF Inv, Undoable
    <3>1. CASE p # o
      <4>1. ckpt'[p] = ckpt[p]
        BY <2>4, <3>1
      <4> QED  BY <3>0, <4>1 DEF Oldest
    <3>2. CASE p = o
      <4>0. Len(ckpt[p]) = n /\ Len(ckpt'[p]) = n + 1 /\ 1..n \subseteq 1..(n + 1)
        BY <2>1, <2>4, <3>2 DEF n
      <4>1. ASSUME NEW r \in Resource, \A i \in 1..(n + 1) : ckpt'[p][i].res # r
            PROVE  host[r] = before[p][r]
        <5>1. \A i \in 1..n : ckpt[p][i].res # r
          BY <2>4, <3>2, <4>0, <4>1
        <5> QED  BY <3>0, <4>0, <5>1
      <4>2. ASSUME NEW i \in 1..n, \A j \in 1..(i - 1) : ckpt'[p][j].res # ckpt'[p][i].res
            PROVE  Restored(ckpt'[p][i].res, ckpt'[p][i].data, host[ckpt'[p][i].res])
                     = before[p][ckpt'[p][i].res]
        <5>1. \A j \in 1..(i - 1) : j \in 1..n
          BY <2>1
        <5>2. Oldest(p, i)
          BY <2>4, <3>2, <4>2, <5>1 DEF Oldest
        <5> QED  BY <2>4, <3>0, <3>2, <4>0, <5>2
      <4>3. ASSUME \A j \in 1..((n + 1) - 1) : ckpt'[p][j].res # ckpt'[p][n + 1].res
            PROVE  Restored(Res, c.data, host[Res]) = before[p][Res]
        <5>1. (n + 1) - 1 = n
          BY <2>1
        <5>2. \A j \in 1..n : ckpt'[p][j].res # ckpt'[p][n + 1].res
          BY <4>3, <5>1
        <5>3. \A j \in 1..n : ckpt[p][j].res # Res
          BY <2>2, <2>4, <3>2, <5>2
        <5> QED  BY <1>2, <2>2, <3>0, <4>0, <5>3
      <4>4. ASSUME NEW i \in 1..(n + 1), \A j \in 1..(i - 1) : ckpt'[p][j].res # ckpt'[p][i].res
            PROVE  Restored(ckpt'[p][i].res, ckpt'[p][i].data, host[ckpt'[p][i].res])
                     = before[p][ckpt'[p][i].res]
        <5>1. CASE i = n + 1
          BY <2>2, <2>4, <3>2, <4>3, <4>4, <5>1
        <5>2. CASE i \in 1..n
          BY <4>2, <4>4, <5>2
        <5> QED  BY <2>7, <5>1, <5>2
      <4> QED  BY <3>0, <4>0, <4>1, <4>4
    <3> QED  BY <3>1, <3>2
  <2>12. RollbackRestores'
    BY <1>1 DEF Inv, RollbackRestores, Supported
  <2> QED  BY <2>6, <2>8, <2>9, <2>10, <2>11, <2>12 DEF Inv
<1> QED  BY <1>3, <1>4 DEF PreApply

(***************************************************************************)
(* Steps that change the host                                              *)
(***************************************************************************)

\* nginx is reloaded with the files of the virtual hosts, or not at all.
LEMMA NginxTyped ==
  ASSUME TypeOK, host' \in Host, Reload \/ NoReload \/ NoNginx
  PROVE  loaded' \in [Vhost -> VhostState] /\ torn' \in BOOLEAN
<1>1. \A v \in Vhost : host'[v] \in VhostState
  <2> SUFFICES ASSUME NEW v \in Vhost PROVE host'[v] \in VhostState
    OBVIOUS
  <2>1. v \in Resource
    BY DEF Resource
  <2> QED  BY <2>1, Kinds, HostFacts DEF StateOf
<1>2. CASE Reload
  BY <1>1, <1>2 DEF Reload
<1>3. CASE NoReload
  BY <1>3 DEF NoReload, TypeOK
<1>4. CASE NoNginx
  BY <1>4 DEF NoNginx, TypeOK
<1> QED  BY <1>2, <1>3, <1>4

\* A resource goes to a state of its kind, for an operation that has a checkpoint
\* of it, or for nobody.
Covered(r, s, o) ==
  /\ Change(r, s, o) /\ SameKind(r, host[r], s)
  /\ o = 0 \/ \E i \in 1..Len(ckpt[o]) : ckpt[o][i].res = r
  /\ o \in Op => undone[o] \in {"no", "begun"}

\* What is left to prove of a step that changes a resource like that, or none.
LEMMA HostStep ==
  ASSUME Inv, UNCHANGED <<disk, nops, past>>, Works \/ Fails, Reload \/ NoReload \/ NoNginx,
         exec' \in Exec,
         \/ UNCHANGED <<host, touched, dirty>>
         \/ \E r \in Resource : \E s \in StateOf(r) : \E o \in Op \cup {0} : Covered(r, s, o)
  PROVE  TypeOK' /\ FreshInv' /\ FitsInv' /\ Undoable' /\ RollbackRestores'
<1>0. TypeOK /\ FitsInv /\ Undoable /\ RollbackRestores
  BY DEF Inv
<1>1. UNCHANGED <<dirs, ckpt, applied, nops, before, items, result, undone>>
  BY DEF disk, past
<1>2. trouble' \in 0..MaxTrouble
  BY <1>0, TroubleTyped
<1>3. CASE UNCHANGED <<host, touched, dirty>>
  <2>1. loaded' \in [Vhost -> VhostState] /\ torn' \in BOOLEAN
    BY <1>0, <1>3, NginxTyped DEF TypeOK
  <2>2. TypeOK'
    BY <1>0, <1>1, <1>2, <1>3, <2>1 DEF TypeOK
  <2> QED  BY <1>1, <1>3, <2>2, QuietStep
<1>4. CASE \E r \in Resource : \E s \in StateOf(r) : \E o \in Op \cup {0} : Covered(r, s, o)
  <2>0. PICK r \in Resource : \E s \in StateOf(r) : \E o \in Op \cup {0} : Covered(r, s, o)
    BY <1>4
  <2>1. PICK s \in StateOf(r), o \in Op \cup {0} : Covered(r, s, o)
    BY <2>0
  <2>2. /\ Change(r, s, o) /\ SameKind(r, host[r], s)
        /\ o = 0 \/ \E i \in 1..Len(ckpt[o]) : ckpt[o][i].res = r
        /\ o \in Op => undone[o] \in {"no", "begun"}
    BY <2>1 DEF Covered
  <2>3. host' \in Host /\ touched' \subseteq 1..nops /\ dirty' \subseteq Resource
    BY <1>0, <2>2, ChangeTyped
  <2>4. loaded' \in [Vhost -> VhostState] /\ torn' \in BOOLEAN
    BY <1>0, <2>3, NginxTyped
  <2>5. TypeOK'
    BY <1>0, <1>1, <1>2, <2>3, <2>4 DEF TypeOK
  <2>6. FreshInv'
    BY <1>1 DEF Inv, FreshInv
  <2>7. FitsInv'
    BY <1>0, <1>1, <2>2, ChangeFits
  <2>8. Undoable'
    BY <1>0, <1>1, <2>2, ChangeUndoable
  <2>9. RollbackRestores'
    BY <1>0, <1>1, <2>2, ChangeRestores
  <2> QED  BY <2>5, <2>6, <2>7, <2>8, <2>9
<1> QED  BY <1>3, <1>4

\* What is known before a step of a plan is taken.
LEMMA ApplyFacts ==
  ASSUME Inv, exec.st = "apply"
  PROVE  /\ exec.todo # <<>> /\ exec.op \in Op /\ exec.op \in 1..nops /\ undone[exec.op] = "no"
         /\ exec.steps # <<>> /\ exec.steps \in Seq(StepsFor(Res, host[Res]))
         /\ \E i \in 1..Len(ckpt[exec.op]) : ckpt[exec.op][i].res = Res
         /\ Res \in Resource /\ host[Res] \in StateOf(Res)
         /\ New \in StateOf(Res) /\ SameKind(Res, host[Res], New)
<1>1. /\ exec.todo # <<>> /\ exec.op \in 1..nops /\ undone[exec.op] = "no"
      /\ exec.steps # <<>> /\ exec.steps \in Seq(StepsFor(Res, host[Res]))
      /\ \E i \in 1..Len(ckpt[exec.op]) : ckpt[exec.op][i].res = Res
  BY DEF Inv, ExecInv
<1>2. exec.op \in Op
  <2>1. exec.op \in Op \cup {0} /\ exec.op # 0
    BY <1>1 DEF Inv, TypeOK, Exec
  <2> QED  BY <2>1
<1>3. Res \in Resource /\ Spc \in SpecOf(Res) /\ host[Res] \in StateOf(Res)
  BY <1>1, ResFacts DEF Inv
<1>4. Head(exec.steps) \in StepsFor(Res, host[Res])
  BY <1>1
<1>5. New \in StateOf(Res) /\ SameKind(Res, host[Res], New)
  BY <1>3, <1>4, AppliedState DEF New
<1> QED  BY <1>1, <1>2, <1>3, <1>5

\* A step taken: the next steps still fit, unless there are none.
LEMMA StepDoneExec ==
  ASSUME Inv, exec.st = "apply", StepDone, UNCHANGED <<nops, undone>>,
         host'[Res] \in StateOf(Res), SameKind(Res, host[Res], host'[Res])
  PROVE  exec' \in Exec /\ ExecInv' /\ UndoInv'
<1>1. /\ exec.todo # <<>> /\ exec.op \in 1..nops /\ undone[exec.op] = "no"
      /\ exec.steps # <<>> /\ exec.steps \in Seq(StepsFor(Res, host[Res]))
      /\ Res \in Resource /\ host[Res] \in StateOf(Res)
  BY ApplyFacts
<1> DEFINE S == StepsFor(Res, host[Res])
<1> DEFINE t == IF Len(exec.steps) = 1 THEN "verify" ELSE "step"
<1>2. exec' = [exec EXCEPT !.steps = Tail(exec.steps), !.st = t]
  BY DEF StepDone
<1>3. t \in {"verify", "step"} /\ (t = "step" => Len(exec.steps) # 1)
  OBVIOUS
<1>4. exec.steps \in Seq(S) /\ S \subseteq StepName
  BY <1>1 DEF StepsFor, StepName
<1> HIDE DEF S, t
<1>5. Tail(exec.steps) \in Seq(S) /\ (Len(exec.steps) # 1 => Tail(exec.steps) # <<>>)
  <2>1. Tail(exec.steps) \in Seq(S) /\ Len(Tail(exec.steps)) = Len(exec.steps) - 1
    BY <1>1, <1>4, HeadTailProperties
  <2>2. Len(exec.steps) \in Nat
    BY <1>4
  <2>3. Tail(exec.steps) = <<>> => Len(Tail(exec.steps)) = 0
    <3>1. Len(<<>>) = 0
      OBVIOUS
    <3> QED  BY <3>1, Zenon
  <2>4. Len(exec.steps) - 1 = 0 => Len(exec.steps) = 1
    BY <2>2
  <2> QED  BY <2>1, <2>3, <2>4
<1>6. Tail(exec.steps) \in Seq(StepName)
  BY <1>4, <1>5
<1>7. exec \in Exec
  BY DEF Inv, TypeOK
<1>8. exec' \in Exec /\ exec'.st = t /\ exec'.op = exec.op /\ exec'.todo = exec.todo
      /\ exec'.steps = Tail(exec.steps)
  BY <1>2, <1>3, <1>6, <1>7 DEF Exec
<1>9. Res' = Res
  BY <1>8 DEF Res
<1>10. S = StepsFor(Res, host'[Res])
  BY <1>1, SameKindFacts DEF S
<1> QED  BY <1>1, <1>3, <1>5, <1>8, <1>9, <1>10 DEF ExecInv, UndoInv

\* ApplyPlain: whether or not the step has its effect, its checkpoint is there.
LEMMA ApplyPlainInv ==
  ASSUME Inv, ApplyPlain
  PROVE  Inv'
<1>0. exec.st = "apply" /\ UNCHANGED <<disk, nops, past>> /\ NoNginx
  BY DEF ApplyPlain
<1>1. UNCHANGED <<nops, undone>> /\ TypeOK
  BY <1>0 DEF past, Inv
<1>2. exec.todo # <<>> /\ exec.op \in Op /\ Res \in Resource /\ New \in StateOf(Res)
      /\ SameKind(Res, host[Res], New)
  BY <1>0, ApplyFacts
<1>3. Change(Res, New, exec.op) => Covered(Res, New, exec.op) /\ host'[Res] = New
  BY <1>0, <1>1, <1>2, ApplyFacts, ChangeTyped DEF Covered
<1>4. CASE Works /\ StepDone /\ Change(Res, New, exec.op)
  <2>1. exec' \in Exec /\ ExecInv' /\ UndoInv'
    BY <1>0, <1>1, <1>2, <1>3, <1>4, StepDoneExec
  <2>2. TypeOK' /\ FreshInv' /\ FitsInv' /\ Undoable' /\ RollbackRestores'
    BY <1>0, <1>2, <1>3, <1>4, <2>1, HostStep
  <2> QED  BY <2>1, <2>2 DEF Inv
<1>5. CASE Fails /\ NextItem(TRUE, FALSE)
           /\ (UNCHANGED <<host, touched, dirty>> \/ Change(Res, New, exec.op))
  <2>1. exec' \in Exec /\ exec'.st = "next" /\ exec'.op = exec.op
    BY <1>1, <1>2, <1>5, NextItemFacts
  <2>2. TypeOK' /\ FreshInv' /\ FitsInv' /\ Undoable' /\ RollbackRestores'
    BY <1>0, <1>2, <1>3, <1>5, <2>1, HostStep
  <2> QED  BY <1>0, <1>1, <2>1, <2>2, NextItemExec DEF Inv
<1> QED  BY <1>4, <1>5 DEF ApplyPlain

\* ApplyVhost: likewise, with the file as it was if it is taken back.
LEMMA ApplyVhostInv ==
  ASSUME Inv, ApplyVhost
  PROVE  Inv'
<1>0. exec.st = "apply" /\ UNCHANGED <<disk, nops, past>>
  BY DEF ApplyVhost
<1>1. UNCHANGED <<nops, undone>> /\ TypeOK
  BY <1>0 DEF past, Inv
<1>2. exec.todo # <<>> /\ exec.op \in Op /\ Res \in Resource /\ New \in StateOf(Res)
      /\ SameKind(Res, host[Res], New) /\ host[Res] \in StateOf(Res)
  BY <1>0, ApplyFacts
<1>3. Change(Res, New, exec.op) => Covered(Res, New, exec.op) /\ host'[Res] = New
  BY <1>0, <1>1, <1>2, ApplyFacts, ChangeTyped DEF Covered
<1>4. Change(Res, host[Res], exec.op) => Covered(Res, host[Res], exec.op)
  BY <1>0, ApplyFacts DEF Covered, SameKind
<1>5. CASE Works /\ StepDone /\ Change(Res, New, exec.op) /\ Reload
  <2>1. exec' \in Exec /\ ExecInv' /\ UndoInv'
    BY <1>0, <1>1, <1>2, <1>3, <1>5, StepDoneExec
  <2>2. TypeOK' /\ FreshInv' /\ FitsInv' /\ Undoable' /\ RollbackRestores'
    BY <1>0, <1>2, <1>3, <1>5, <2>1, HostStep
  <2> QED  BY <2>1, <2>2 DEF Inv
<1>6. CASE /\ NextItem(TRUE, FALSE) /\ (Works \/ Fails) /\ (NoReload \/ NoNginx)
           /\ \/ Change(Res, New, exec.op) \/ Change(Res, host[Res], exec.op)
              \/ UNCHANGED <<host, touched, dirty>>
  <2>1. exec' \in Exec /\ exec'.st = "next" /\ exec'.op = exec.op
    BY <1>1, <1>2, <1>6, NextItemFacts
  <2>2. TypeOK' /\ FreshInv' /\ FitsInv' /\ Undoable' /\ RollbackRestores'
    BY <1>0, <1>2, <1>3, <1>4, <1>6, <2>1, HostStep
  <2> QED  BY <1>0, <1>1, <2>1, <2>2, NextItemExec DEF Inv
<1> QED  BY <1>5, <1>6 DEF ApplyVhost, RefusedState

\* Crash: the step in which the process stops has its checkpoint, too.
LEMMA CrashInv ==
  ASSUME Inv, Crash
  PROVE  Inv'
<1>0. UNCHANGED <<disk, nops, past>> /\ Fails /\ exec' = Idle /\ exec' \in Exec
  BY IdleFacts DEF Crash
<1>1. CASE UNCHANGED <<host, loaded, touched, dirty, torn>>
  <2>1. TypeOK' /\ FreshInv' /\ FitsInv' /\ Undoable' /\ RollbackRestores'
    BY <1>0, <1>1, HostStep DEF NoNginx
  <2> QED  BY <1>0, <2>1, IdleExec DEF Inv
<1>2. CASE /\ exec.st = "apply" /\ Change(Res, New, exec.op)
           /\ IF Res \in Vhost THEN NoReload ELSE NoNginx
  <2>1. Covered(Res, New, exec.op) /\ Res \in Resource /\ New \in StateOf(Res) /\ exec.op \in Op
    BY <1>2, ApplyFacts DEF Covered
  <2>2. TypeOK' /\ FreshInv' /\ FitsInv' /\ Undoable' /\ RollbackRestores'
    BY <1>0, <1>2, <2>1, HostStep
  <2> QED  BY <1>0, <2>2, IdleExec DEF Inv
<1> QED  BY <1>1, <1>2 DEF Crash

\* Drift: all operations are touched, and the plan at work still fits.
LEMMA DriftInv ==
  ASSUME Inv, NEW r \in Resource, NEW s \in StateOf(r), Drift(r, s)
  PROVE  Inv'
<1>0. TypeOK /\ UNCHANGED <<disk, exec, nops, past>> /\ Fails /\ exec' \in Exec /\ Change(r, s, 0)
  BY DEF Inv, TypeOK, Drift
<1>1. UNCHANGED <<nops, undone, ckpt>> /\ s # host[r]
  BY <1>0 DEF past, disk, Drift
<1>2. Reload \/ NoReload \/ NoNginx
  BY DEF Drift
<1>3. SameKind(r, host[r], s)
  BY DEF Drift, SameKind
<1>4. Covered(r, s, 0)
  BY <1>0, <1>3 DEF Covered, Op
<1>5. TypeOK' /\ FreshInv' /\ FitsInv' /\ Undoable' /\ RollbackRestores'
  BY <1>0, <1>2, <1>4, HostStep
<1>6. UndoInv'
  <2>1. touched' = touched \cup (1..nops \ {0})
    BY <1>0, <1>1 DEF Change
  <2>2. exec.st = "undo" => exec.op \in 1..nops
    BY DEF Inv, ExecInv
  <2>3. exec.st = "undo" => exec.op \in touched'
    BY <2>1, <2>2
  <2> QED  BY <1>0, <2>3 DEF UndoInv
<1>7. exec.todo # <<>> => StepsFor(Res, host[Res]) = StepsFor(Res, host'[Res])
  <2> SUFFICES ASSUME exec.todo # <<>> PROVE StepsFor(Res, host[Res]) = StepsFor(Res, host'[Res])
    OBVIOUS
  <2>1. Res \in Resource /\ host[Res] \in StateOf(Res)
    BY <1>0, ResFacts
  <2>2. host'[r] = s /\ \A q \in Resource : q # r => host'[q] = host[q]
    BY <1>0, ChangeTyped
  <2>3. CASE Res = r
    BY <1>3, <2>1, <2>2, <2>3, SameKindFacts
  <2>4. CASE Res # r
    BY <2>1, <2>2, <2>4
  <2> QED  BY <2>3, <2>4
<1>8. ExecInv'
  <2>1. Res' = Res
    BY <1>0 DEF Res
  <2> QED  BY <1>0, <1>1, <1>7, <2>1 DEF Inv, ExecInv
<1> QED  BY <1>5, <1>6, <1>8 DEF Inv

\* Where rollback is, and what it restores next.
LEMMA UndoFacts ==
  ASSUME Inv, exec.st = "undo", exec.left > 0, NEW c, c = ckpt[exec.op][exec.left]
  PROVE  /\ exec.op \in 1..nops /\ exec.op \in Op /\ undone[exec.op] = "begun"
         /\ exec.left \in 1..Len(ckpt[exec.op]) /\ exec.left - 1 \in 0..Len(ckpt[exec.op])
         /\ c.res \in Resource /\ c.data \in SavedOf(c.res) /\ host[c.res] \in StateOf(c.res)
         /\ DataFits(c.res, c.data, host[c.res])
<1>1. /\ exec.op \in 1..nops /\ undone[exec.op] = "begun"
      /\ exec.left \in 0..Len(ckpt[exec.op])
  BY DEF Inv, ExecInv
<1>2. exec.op \in Op
  <2>1. exec.op \in Op \cup {0} /\ exec.op # 0
    BY <1>1 DEF Inv, TypeOK, Exec
  <2> QED  BY <2>1
<1>3. ckpt[exec.op] \in Seq(Checkpoint)
  BY <1>2 DEF Inv, TypeOK
<1>4. Len(ckpt[exec.op]) \in Nat
  BY <1>3
<1>5. exec.left \in 1..Len(ckpt[exec.op]) /\ exec.left - 1 \in 0..Len(ckpt[exec.op])
  BY <1>1, <1>4
<1>6. c \in Checkpoint
  BY <1>3, <1>5
<1>7. c.res \in Resource /\ c.data \in SavedOf(c.res)
  BY <1>6, CheckpointFacts
<1>8. host[c.res] \in StateOf(c.res)
  BY <1>7, HostFacts DEF Inv, TypeOK
<1>9. DataFits(c.res, c.data, host[c.res])
  BY <1>2, <1>5 DEF Inv, FitsInv
<1> QED  BY <1>1, <1>2, <1>5, <1>7, <1>8, <1>9

\* One checkpoint is restored, but perhaps for mode and owner, or an error is
\* noted. The resource goes back to what it was if the checkpoint was its oldest;
\* the resources that are back already have no more checkpoints, and stay.
LEMMA UndoTo ==
  ASSUME Inv, exec.st = "undo", exec.left > 0, UNCHANGED <<disk, nops, past>>,
         Works \/ Fails, Reload \/ NoReload \/ NoNginx,
         NEW c, c = ckpt[exec.op][exec.left], NEW a \in BOOLEAN, NEW b \in BOOLEAN,
         exec' = [exec EXCEPT !.left = exec.left - 1, !.err = exec.err \/ a, !.lossy = exec.lossy \/ b],
         NEW x \in StateOf(c.res), SameKind(c.res, host[c.res], x),
         Change(c.res, x, exec.op) \/ (a /\ UNCHANGED <<host, touched, dirty>>),
         a \/ Back(b, c.res, x, Restored(c.res, c.data, host[c.res]))
  PROVE  Inv'
<1>0. TypeOK /\ exec \in Exec
  BY DEF Inv, TypeOK
<1>1. /\ exec.op \in 1..nops /\ exec.op \in Op /\ undone[exec.op] = "begun"
      /\ exec.left \in 1..Len(ckpt[exec.op]) /\ exec.left - 1 \in 0..Len(ckpt[exec.op])
      /\ c.res \in Resource
  BY UndoFacts
<1>2. UNCHANGED <<ckpt, nops, before, undone>>
  BY DEF disk, past
<1>3. exec' \in Exec /\ exec'.st = "undo" /\ exec'.op = exec.op /\ exec'.left = exec.left - 1
      /\ exec'.err = (exec.err \/ a) /\ exec'.lossy = (exec.lossy \/ b)
  <2> DEFINE e == exec.err \/ a
  <2> DEFINE l == exec.lossy \/ b
  <2>1. e \in BOOLEAN /\ l \in BOOLEAN
    OBVIOUS
  <2>2. exec' = [exec EXCEPT !.left = exec.left - 1, !.err = e, !.lossy = l]
    OBVIOUS
  <2>3. exec.left - 1 \in Nat
    BY <1>0, <1>1 DEF Exec
  <2> HIDE DEF e, l
  <2>4. exec' \in Exec /\ exec'.st = "undo" /\ exec'.op = exec.op /\ exec'.left = exec.left - 1
        /\ exec'.err = e /\ exec'.lossy = l
    BY <1>0, <2>1, <2>2, <2>3 DEF Exec
  <2> QED  BY <2>4 DEF e, l
<1>4. Change(c.res, x, exec.op) => Covered(c.res, x, exec.op)
  BY <1>1 DEF Covered
<1>5. TypeOK' /\ FreshInv' /\ FitsInv' /\ Undoable' /\ RollbackRestores'
  BY <1>1, <1>3, <1>4, HostStep
<1>6. ExecInv'
  BY <1>1, <1>2, <1>3 DEF ExecInv
<1>7. UndoInv'
  <2> SUFFICES ASSUME Supported(exec.op)', exec'.op \notin touched', ~exec'.err,
                      NEW i \in 1..Len(ckpt'[exec'.op]), i > exec'.left, Oldest(exec.op, i)'
               PROVE  Back(exec'.lossy, ckpt'[exec'.op][i].res, host'[ckpt'[exec'.op][i].res],
                           before'[exec'.op][ckpt'[exec'.op][i].res])
    BY DEF UndoInv
  <2>0. /\ Supported(exec.op) /\ exec.op \notin touched'
        /\ i \in 1..Len(ckpt[exec.op]) /\ i > exec.left - 1 /\ Oldest(exec.op, i)
    BY <1>2, <1>3 DEF Supported, Oldest
  <2>1. ~exec.err /\ ~a
    BY <1>3
  <2>2. Change(c.res, x, exec.op) /\ Back(b, c.res, x, Restored(c.res, c.data, host[c.res]))
    BY <2>1
  <2>3. exec.op \notin touched
    BY <1>0, <1>1, <2>0, <2>2, ChangeTouches
  <2>4. host'[c.res] = x /\ \A q \in Resource : q # c.res => host'[q] = host[q]
    BY <1>0, <1>1, <2>2, ChangeTyped
  <2>5. i = exec.left \/ i > exec.left
    BY <1>1, <2>0
  <2>6. CASE i = exec.left
    <3>1. Restored(c.res, c.data, host[c.res]) = before[exec.op][c.res]
      BY <1>1, <2>0, <2>3, <2>6 DEF Inv, Undoable
    <3>2. Back(b, c.res, host'[c.res], before[exec.op][c.res])
      BY <2>2, <2>4, <3>1
    <3>3. Back(exec.lossy \/ b, c.res, host'[c.res], before[exec.op][c.res])
      BY <3>2 DEF Back
    <3> QED  BY <1>2, <1>3, <2>6, <3>3
  <2>7. CASE i > exec.left
    <3> DEFINE q == ckpt[exec.op][i].res
    <3>1. Back(exec.lossy, q, host[q], before[exec.op][q])
      BY <2>0, <2>1, <2>3, <2>7 DEF Inv, UndoInv
    <3>2. q # c.res
      <4>1. exec.left \in 1..(i - 1)
        BY <1>1, <2>0, <2>7
      <4> QED  BY <2>0, <4>1 DEF Oldest
    <3>3. q \in Resource
      <4>1. ckpt[exec.op] \in Seq(Checkpoint)
        BY <1>0, <1>1 DEF TypeOK
      <4>2. ckpt[exec.op][i] \in Checkpoint
        BY <2>0, <4>1
      <4> QED  BY <4>2, CheckpointFacts
    <3>4. Back(exec.lossy, q, host'[q], before[exec.op][q])
      BY <2>4, <3>1, <3>2, <3>3
    <3> HIDE DEF q
    <3>5. Back(exec.lossy \/ b, q, host'[q], before[exec.op][q])
      BY <3>4 DEF Back
    <3> QED  BY <1>2, <1>3, <3>5 DEF q
  <2> QED  BY <2>5, <2>6, <2>7
<1> QED  BY <1>5, <1>6, <1>7 DEF Inv

\* Undo: whatever a restore meets, it leads to a state of the same kind.
LEMMA UndoStep ==
  ASSUME Inv, Undo
  PROVE  Inv'
<1>0. exec.st = "undo" /\ exec.left > 0 /\ UNCHANGED <<disk, nops, past>>
  BY DEF Undo
<1>1. PICK c : c = ckpt[exec.op][exec.left]
  OBVIOUS
<1>2. /\ c.res \in Resource /\ c.data \in SavedOf(c.res) /\ host[c.res] \in StateOf(c.res)
      /\ DataFits(c.res, c.data, host[c.res])
  BY <1>0, <1>1, UndoFacts
<1> DEFINE back == Restored(c.res, c.data, host[c.res])
<1> DEFINE next(a, b) ==
      exec' = [exec EXCEPT !.left = exec.left - 1, !.err = exec.err \/ a, !.lossy = exec.lossy \/ b]
<1>3. back \in StateOf(c.res) /\ SameKind(c.res, host[c.res], back)
  BY <1>2, RestoredState
<1>4. c.res \in Unit => UnitToggled(c.data, host[c.res]) \in StateOf(c.res)
                         /\ SameKind(c.res, host[c.res], UnitToggled(c.data, host[c.res]))
  BY <1>2, RestoredState
<1>5. SameKind(c.res, host[c.res], host[c.res])
  BY DEF SameKind
<1>6. \/ /\ (Works \/ Fails) /\ (Reload \/ NoReload \/ NoNginx) /\ Change(c.res, back, exec.op)
         /\ next(FALSE, FALSE) \/ next(TRUE, FALSE)
      \/ /\ c.res \in File /\ c.data.present /\ Fails /\ NoNginx /\ next(FALSE, TRUE)
         /\ \E m \in Meta : Change(c.res, [back EXCEPT !.meta = m], exec.op)
      \/ /\ c.res \in Unit /\ Fails /\ NoNginx /\ next(TRUE, FALSE)
         /\ Change(c.res, UnitToggled(c.data, host[c.res]), exec.op)
      \/ Fails /\ NoNginx /\ next(TRUE, FALSE) /\ UNCHANGED <<host, touched, dirty>>
  BY <1>1 DEF Undo, NextUndo
<1>7. CASE /\ (Works \/ Fails) /\ (Reload \/ NoReload \/ NoNginx) /\ Change(c.res, back, exec.op)
           /\ next(FALSE, FALSE) \/ next(TRUE, FALSE)
  <2>1. Back(FALSE, c.res, back, back)
    BY DEF Back
  <2>2. CASE next(FALSE, FALSE)
    BY <1>0, <1>1, <1>3, <1>7, <2>1, <2>2, UndoTo
  <2>3. CASE next(TRUE, FALSE)
    BY <1>0, <1>1, <1>3, <1>7, <2>1, <2>3, UndoTo
  <2> QED  BY <1>7, <2>2, <2>3
<1>8. CASE /\ c.res \in File /\ c.data.present /\ Fails /\ NoNginx /\ next(FALSE, TRUE)
           /\ \E m \in Meta : Change(c.res, [back EXCEPT !.meta = m], exec.op)
  <2>1. PICK m \in Meta : Change(c.res, [back EXCEPT !.meta = m], exec.op)
    BY <1>8
  <2>2. back = c.data /\ c.data \in FileState /\ StateOf(c.res) = FileState /\ c.res \notin Unit
    BY <1>2, <1>8, Kinds DEF Restored, SavedOf, StateOf
  <2>3. c.data \in [present : {TRUE}, content : Text, meta : Meta]
    <3>1. CASE c.data = AbsentFile
      <4>1. ~c.data.present
        BY <3>1 DEF AbsentFile
      <4> QED  BY <1>8, <4>1
    <3> QED  BY <2>2, <3>1 DEF FileState
  <2> DEFINE x == [c.data EXCEPT !.meta = m]
  <2>4. x \in StateOf(c.res) /\ x.present = c.data.present /\ x.content = c.data.content
    BY <2>2, <2>3 DEF FileState
  <2>5. Back(TRUE, c.res, x, back) /\ SameKind(c.res, host[c.res], x)
    BY <1>8, <2>2, <2>4 DEF Back, SameKind
  <2>6. Change(c.res, x, exec.op)
    BY <2>1, <2>2
  <2> HIDE DEF x
  <2> QED  BY <1>0, <1>1, <1>8, <2>4, <2>5, <2>6, UndoTo
<1>9. CASE /\ c.res \in Unit /\ Fails /\ NoNginx /\ next(TRUE, FALSE)
           /\ Change(c.res, UnitToggled(c.data, host[c.res]), exec.op)
  BY <1>0, <1>1, <1>4, <1>9, UndoTo
<1>10. CASE Fails /\ NoNginx /\ next(TRUE, FALSE) /\ UNCHANGED <<host, touched, dirty>>
  BY <1>0, <1>1, <1>2, <1>5, <1>10, UndoTo
<1> HIDE DEF back, next
<1> QED  BY <1>6, <1>7, <1>8, <1>9, <1>10

\* Among the checkpoints of a resource there is an oldest one.
LEMMA OldestExists ==
  ASSUME TypeOK, NEW o \in Op, NEW r, NEW k \in 1..Len(ckpt[o]), ckpt[o][k].res = r
  PROVE  \E i \in 1..Len(ckpt[o]) : ckpt[o][i].res = r /\ Oldest(o, i)
<1> DEFINE S == {i \in 1..Len(ckpt[o]) : ckpt[o][i].res = r}
<1>1. ckpt[o] \in Seq(Checkpoint)
  BY DEF TypeOK
<1>2. Len(ckpt[o]) \in Nat
  BY <1>1
<1>3. S \subseteq Nat /\ S # {}
  BY <1>2
<1>4. \E R : IsWellFoundedOn(R, Nat) /\ \A x, y \in Nat : x < y => <<x, y>> \in R
  <2>1. \A x, y \in Nat : x < y => <<x, y>> \in OpToRel(<, Nat)
    BY DEF OpToRel
  <2> QED  BY <2>1, NatLessThanWellFounded, Zenon
<1>5. PICK R : IsWellFoundedOn(R, Nat) /\ \A x, y \in Nat : x < y => <<x, y>> \in R
  BY <1>4
<1> HIDE DEF S
<1>6. \E m \in S : \A x \in S : ~(<<x, m>> \in R)
  <2>1. \A Q, U, T : IsWellFoundedOn(Q, U) /\ T \subseteq U /\ T # {}
                       => \E x \in T : \A y \in T : ~(<<y, x>> \in Q)
    BY WFMin, Zenon
  <2> HIDE DEF IsWellFoundedOn
  <2> QED  BY <1>3, <1>5, <2>1
<1>7. PICK m \in S : \A x \in S : ~(x < m)
  BY <1>3, <1>5, <1>6, Zenon
<1>8. m \in 1..Len(ckpt[o]) /\ ckpt[o][m].res = r
  BY DEF S
<1>9. ASSUME NEW j \in 1..(m - 1), ckpt[o][j].res = r PROVE FALSE
  <2>1. j \in 1..Len(ckpt[o]) /\ j < m
    BY <1>2, <1>8
  <2>2. j \in S
    BY <1>9, <2>1 DEF S
  <2> QED  BY <1>7, <2>1, <2>2
<1> QED  BY <1>8, <1>9 DEF Oldest

\* UndoDone: without an error every resource with a checkpoint is back, and the
\* others were never changed.
LEMMA UndoDoneInv ==
  ASSUME Inv, UndoDone
  PROVE  Inv'
<1>0. TypeOK /\ exec.st = "undo" /\ exec.left = 0 /\ exec' = Idle
  BY DEF Inv, UndoDone
<1>1. UNCHANGED <<host, loaded, dirs, ckpt, applied, nops, trouble, before, items, result, touched, dirty, torn>>
  BY DEF UndoDone, disk, marks
<1>2. PICK o : o = exec.op
  OBVIOUS
<1>3. o \in 1..nops /\ o \in Op
  <2>1. exec.op \in 1..nops /\ exec.op \in Op \cup {0}
    BY <1>0 DEF Inv, ExecInv, TypeOK, Exec
  <2> QED  BY <1>2, <2>1
<1> DEFINE u == IF exec.err THEN "begun" ELSE IF exec.lossy THEN "lossy" ELSE "ok"
<1>4. undone' = [undone EXCEPT ![o] = u]
  BY <1>2 DEF UndoDone
<1>5. u \in {"begun", "lossy", "ok"} /\ (u # "begun" => ~exec.err) /\ (u = "ok" => ~exec.lossy)
  OBVIOUS
<1> HIDE DEF u
<1>6. undone' \in [Op -> {"no", "begun", "ok", "lossy"}] /\ undone'[o] = u
      /\ \A p \in Op : p # o => undone'[p] = undone[p]
  BY <1>0, <1>3, <1>4, <1>5 DEF TypeOK
<1>7. TypeOK'
  BY <1>0, <1>1, <1>6, IdleFacts DEF TypeOK
<1>8. FreshInv'
  <2>1. ~(o > nops)
    BY <1>0, <1>3 DEF TypeOK
  <2> QED  BY <1>1, <1>6, <2>1 DEF Inv, FreshInv
<1>9. FitsInv'
  BY <1>1 DEF Inv, FitsInv
<1>10. Undoable'
  BY <1>1 DEF Inv, Undoable, Supported, Oldest
<1>11. RollbackRestores'
  <2> SUFFICES ASSUME NEW p \in Op, Supported(p), p \notin touched
               PROVE  /\ undone'[p] = "ok" => host = before[p]
                      /\ undone'[p] = "lossy" =>
                           \A r \in Resource :
                             IF r \in File
                             THEN /\ host[r].present = before[p][r].present
                                  /\ host[r].content = before[p][r].content
                             ELSE host[r] = before[p][r]
    BY <1>1 DEF RollbackRestores, Supported
  <2>1. CASE p # o
    BY <1>6, <2>1 DEF Inv, RollbackRestores
  <2>2. CASE p = o /\ u = "begun"
    BY <1>6, <2>2
  <2>3. CASE p = o /\ u # "begun"
    <3>1. \A i \in 1..Len(ckpt[o]) : Oldest(o, i) =>
            Back(exec.lossy, ckpt[o][i].res, host[ckpt[o][i].res], before[o][ckpt[o][i].res])
      <4> SUFFICES ASSUME NEW i \in 1..Len(ckpt[o]), Oldest(o, i)
                   PROVE  Back(exec.lossy, ckpt[o][i].res, host[ckpt[o][i].res],
                               before[o][ckpt[o][i].res])
        OBVIOUS
      <4>1. ckpt[o] \in Seq(Checkpoint)
        BY <1>0, <1>3 DEF TypeOK
      <4>2. i > exec.left
        BY <1>0, <4>1
      <4> QED  BY <1>0, <1>2, <1>5, <2>3, <4>2 DEF Inv, UndoInv
    <3>2. ASSUME NEW r \in Resource PROVE Back(exec.lossy, r, host[r], before[o][r])
      <4>1. CASE \A i \in 1..Len(ckpt[o]) : ckpt[o][i].res # r
        <5>1. host[r] = before[o][r]
          BY <1>3, <2>3, <4>1 DEF Inv, Undoable
        <5> QED  BY <5>1 DEF Back
      <4>2. CASE \E i \in 1..Len(ckpt[o]) : ckpt[o][i].res = r
        <5>1. PICK i \in 1..Len(ckpt[o]) : ckpt[o][i].res = r /\ Oldest(o, i)
          BY <1>0, <1>3, <4>2, OldestExists
        <5> QED  BY <3>1, <5>1
      <4> QED  BY <4>1, <4>2
    <3>3. CASE u = "ok"
      <4>1. \A r \in Resource : host[r] = before[o][r]
        BY <1>5, <3>2, <3>3 DEF Back
      <4>2. host \in Host /\ before[o] \in Host
        BY <1>0, <1>3 DEF TypeOK
      <4>3. host = before[o]
        BY <4>1, <4>2, HostEqual
      <4> QED  BY <1>6, <2>3, <3>3, <4>3
    <3>4. CASE u = "lossy"
      <4>1. \A r \in Resource :
              IF r \in File
              THEN host[r].present = before[o][r].present /\ host[r].content = before[o][r].content
              ELSE host[r] = before[o][r]
        BY <3>2 DEF Back
      <4> QED  BY <1>6, <2>3, <3>4, <4>1
    <3> QED  BY <1>5, <2>3, <3>3, <3>4
  <2> QED  BY <2>1, <2>2, <2>3
<1> QED  BY <1>0, <1>7, <1>8, <1>9, <1>10, <1>11, IdleExec DEF Inv

(***************************************************************************)
(* Theorems                                                                *)
(***************************************************************************)

\* Every step keeps the invariant.
LEMMA InvNext == Inv /\ [Next]_vars => Inv'
<1> SUFFICES ASSUME Inv, [Next]_vars PROVE Inv'
  OBVIOUS
<1>1. CASE UNCHANGED vars
  BY <1>1 DEF vars, disk, past, marks, Inv, TypeOK, ExecInv, FreshInv, FitsInv, Undoable, UndoInv,
              RollbackRestores, Supported, Oldest, Res
<1>2. CASE \E m \in Manifest : Start(m)
  BY <1>2, StartInv
<1>3. CASE Observe \/ PreApply \/ Verify \/ Finish \/ Abort
  BY <1>3, ObserveInv, PreApplyInv, VerifyInv, FinishInv, AbortInv
<1>4. CASE ApplyPlain \/ ApplyVhost
  BY <1>4, ApplyPlainInv, ApplyVhostInv
<1>5. CASE \E o \in Op : Rollback(o)
  BY <1>5, RollbackInv
<1>6. CASE Undo \/ UndoDone
  BY <1>6, UndoStep, UndoDoneInv
<1>7. CASE Crash
  BY <1>7, CrashInv
<1>8. CASE \E r \in Resource : \E s \in StateOf(r) : Drift(r, s)
  BY <1>8, DriftInv
<1> QED  BY <1>1, <1>2, <1>3, <1>4, <1>5, <1>6, <1>7, <1>8 DEF Next

\* The state of the executor, its files and the host keep their types: no step of a
\* plan and no restore leads to a state that its resource cannot be in.
THEOREM TypeCorrect == Spec => []TypeOK
<1>1. Inv => TypeOK
  BY DEF Inv
<1> QED  BY <1>1, InvInit, InvNext, PTL DEF Spec

\* At every moment of executor.rs, whatever has failed and wherever the process has
\* stopped, the checkpoints of each of the newest Keep operations hold all that is
\* needed to undo what it has done.
THEOREM UndoableCorrect == Spec => []Undoable
<1>1. Inv => Undoable
  BY DEF Inv
<1> QED  BY <1>1, InvInit, InvNext, PTL DEF Spec

\* When rollback of executor.rs returns Ok the host is what it was before the
\* operation, unless something else has changed it since.
THEOREM RollbackRestoresCorrect == Spec => []RollbackRestores
<1>1. Inv => RollbackRestores
  BY DEF Inv
<1> QED  BY <1>1, InvInit, InvNext, PTL DEF Spec

(***************************************************************************)
(* Records.                                                                *)
(*                                                                         *)
(* That a succeeded operation left its manifest conforming is known item   *)
(* by item: TakenInv says that the items behind the executor conform as    *)
(* long as none has failed and nothing else changed the host. No later     *)
(* step of the operation undoes that, since no resource is in a manifest   *)
(* twice.                                                                  *)
(***************************************************************************)
AppliedTrue == \A r \in Resource \ dirty : applied[r] # NoSpec => ~Differs(r, applied[r], host[r])

NginxTrue == ~torn => Accepted(host) /\ loaded = [v \in Vhost |-> host[v]]

\* The first n items of operation o are on the host.
Conforms(o, n) ==
  \A i \in 1..n : ~Differs(items[o][i].res, items[o][i].spec, host[items[o][i].res])

ResultsTrue ==
  \A o \in Op : result[o] = "succeeded" /\ undone[o] = "no" /\ o \notin touched =>
    Conforms(o, Len(items[o]))

\* The items of its manifest that the executor has behind it.
Taken == Len(items[exec.op]) - Len(exec.todo)

TakenInv ==
  exec.st \in {"next", "step", "apply", "verify"} =>
    /\ result[exec.op] = "none" /\ items[exec.op] \in Manifest /\ Taken >= 0
    /\ \A i \in 1..Len(exec.todo) : exec.todo[i] = items[exec.op][Taken + i]
    /\ ~exec.failed /\ exec.op \notin touched => Conforms(exec.op, Taken)

NoResultYet == \A o \in Op : o > nops => result[o] = "none"

RecordsInv == AppliedTrue /\ NginxTrue /\ ResultsTrue /\ TakenInv /\ NoResultYet

\* The manifest at work: its resources, and the one the executor is at.
LEMMA TakenFacts ==
  ASSUME Inv, TakenInv, exec.st \in {"next", "step", "apply", "verify"}
  PROVE  /\ exec.op \in Op /\ exec.op \in 1..nops /\ undone[exec.op] = "no"
         /\ items[exec.op] \in Seq(Item) /\ exec.todo \in Seq(Item)
         /\ Taken \in Nat /\ Len(items[exec.op]) = Taken + Len(exec.todo)
         /\ \A i \in 1..Len(items[exec.op]) : items[exec.op][i].res \in Resource
         /\ exec.todo # <<>> =>
              /\ Len(exec.todo) \in Nat \ {0} /\ Taken + 1 \in 1..Len(items[exec.op])
              /\ items[exec.op][Taken + 1].res = Res /\ items[exec.op][Taken + 1].spec = Spc
              /\ \A i \in 1..Taken : items[exec.op][i].res # Res
<1>1. exec.op \in 1..nops /\ undone[exec.op] = "no"
  BY DEF Inv, ExecInv
<1>2. exec.op \in Op
  <2>1. exec.op \in Op \cup {0} /\ exec.op # 0
    BY <1>1 DEF Inv, TypeOK, Exec
  <2> QED  BY <2>1
<1>3. items[exec.op] \in Seq(Item) /\ exec.todo \in Seq(Item)
  BY <1>2 DEF Inv, TypeOK, Exec
<1>4. Len(items[exec.op]) \in Nat /\ Len(exec.todo) \in Nat
  BY <1>3
<1>5. Taken \in Nat /\ Len(items[exec.op]) = Taken + Len(exec.todo)
  <2>1. Taken >= 0
    BY DEF TakenInv
  <2>2. Taken = Len(items[exec.op]) - Len(exec.todo)
    BY DEF Taken
  <2> QED  BY <1>4, <2>1, <2>2
<1>6. \A i \in 1..Len(items[exec.op]) : items[exec.op][i] \in Item
  BY <1>3
<1>7. \A i \in 1..Len(items[exec.op]) : items[exec.op][i].res \in Resource
  BY <1>6, ItemFacts
<1>8. ASSUME exec.todo # <<>>
      PROVE  /\ Len(exec.todo) \in Nat \ {0} /\ Taken + 1 \in 1..Len(items[exec.op])
             /\ items[exec.op][Taken + 1].res = Res /\ items[exec.op][Taken + 1].spec = Spc
             /\ \A i \in 1..Taken : items[exec.op][i].res # Res
  <2>1. Len(exec.todo) \in Nat \ {0} /\ Head(exec.todo) = exec.todo[1]
    BY <1>3, <1>8
  <2>2. Taken + 1 \in 1..Len(items[exec.op])
    BY <1>5, <2>1
  <2>3. exec.todo[1] = items[exec.op][Taken + 1]
    BY <2>1 DEF TakenInv
  <2>4. items[exec.op][Taken + 1].res = Res /\ items[exec.op][Taken + 1].spec = Spc
    BY <2>1, <2>3 DEF Res, Spc
  <2>5. \A i, j \in 1..Len(items[exec.op]) :
          items[exec.op][i].res = items[exec.op][j].res => i = j
    BY ManifestAssumption DEF TakenInv
  <2>6. ASSUME NEW i \in 1..Taken PROVE i \in 1..Len(items[exec.op]) /\ i # Taken + 1
    BY <1>5, <2>1
  <2> QED  BY <2>1, <2>2, <2>4, <2>5, <2>6
<1> QED  BY <1>1, <1>2, <1>3, <1>5, <1>7, <1>8

\* The next item is taken: it has failed, or it conforms.
LEMMA NextTaken ==
  ASSUME Inv, TakenInv, exec.st \in {"next", "step", "apply", "verify"}, exec.todo # <<>>,
         NEW a \in BOOLEAN, NEW b \in BOOLEAN, NextItem(a, b), UNCHANGED <<items, result>>,
         a \/ (UNCHANGED <<host, touched>> /\ ~Differs(Res, Spc, host[Res]))
  PROVE  TakenInv'
<1>1. /\ exec.op \in Op /\ items[exec.op] \in Seq(Item) /\ exec.todo \in Seq(Item)
      /\ Taken \in Nat /\ Len(items[exec.op]) = Taken + Len(exec.todo)
      /\ Len(exec.todo) \in Nat \ {0} /\ Taken + 1 \in 1..Len(items[exec.op])
      /\ items[exec.op][Taken + 1].res = Res /\ items[exec.op][Taken + 1].spec = Spc
  BY TakenFacts
<1>2. exec \in Exec
  BY DEF Inv, TypeOK
<1>3. exec'.op = exec.op /\ exec'.todo = Tail(exec.todo) /\ exec'.failed = (exec.failed \/ a)
  BY <1>2 DEF NextItem, Exec
<1>4. /\ Len(Tail(exec.todo)) = Len(exec.todo) - 1
      /\ \A i \in 1..Len(Tail(exec.todo)) : Tail(exec.todo)[i] = exec.todo[i + 1]
  BY <1>1
<1>5. Taken' = Taken + 1
  <2>1. Taken' = Len(items[exec.op]) - Len(Tail(exec.todo))
    BY <1>3 DEF Taken
  <2>2. Len(items[exec.op]) = Taken + Len(exec.todo) /\ Len(Tail(exec.todo)) = Len(exec.todo) - 1
    BY <1>1, <1>4
  <2>3. PICK n \in Nat, m \in Nat : n = Taken /\ m = Len(exec.todo)
    BY <1>1
  <2>4. (n + m) - (m - 1) = n + 1
    OBVIOUS
  <2>5. Taken' = (n + m) - (m - 1)
    BY <2>1, <2>2, <2>3
  <2> QED  BY <2>3, <2>4, <2>5, Zenon
<1>6. \A i \in 1..Len(exec'.todo) : exec'.todo[i] = items'[exec'.op][Taken' + i]
  <2> SUFFICES ASSUME NEW i \in 1..Len(Tail(exec.todo))
               PROVE  Tail(exec.todo)[i] = items[exec.op][Taken + 1 + i]
    BY <1>3, <1>5
  <2>1. i + 1 \in 1..Len(exec.todo) /\ Taken + (i + 1) = Taken + 1 + i
    BY <1>1, <1>4
  <2> QED  BY <1>4, <2>1 DEF TakenInv
<1>7. ASSUME ~exec'.failed, exec'.op \notin touched' PROVE Conforms(exec.op, Taken)'
  <2>1. ~exec.failed /\ UNCHANGED <<host, touched, items>> /\ ~Differs(Res, Spc, host[Res])
    BY <1>3, <1>7
  <2>2. Conforms(exec.op, Taken)
    BY <1>3, <1>7, <2>1 DEF TakenInv
  <2> SUFFICES ASSUME NEW i \in 1..(Taken + 1)
               PROVE  ~Differs(items[exec.op][i].res, items[exec.op][i].spec,
                               host[items[exec.op][i].res])
    BY <1>3, <1>5, <2>1 DEF Conforms
  <2>3. i \in 1..Taken \/ i = Taken + 1
    BY <1>1
  <2> QED  BY <1>1, <2>1, <2>2, <2>3 DEF Conforms
<1>8. result'[exec'.op] = "none" /\ items'[exec'.op] \in Manifest /\ Taken' >= 0
  BY <1>1, <1>3, <1>5 DEF TakenInv
<1> QED  BY <1>3, <1>5, <1>6, <1>7, <1>8 DEF TakenInv

\* The executor stays at its item, and nothing it has taken is changed.
LEMMA SameTaken ==
  ASSUME Inv, TakenInv, UNCHANGED <<items, result>>,
         exec'.op = exec.op, exec'.todo = exec.todo, exec'.failed = exec.failed,
         exec'.st \in {"next", "step", "apply", "verify"} =>
           exec.st \in {"next", "step", "apply", "verify"},
         \/ UNCHANGED <<host, touched>>
         \/ exec.op \in touched'
         \/ /\ exec.st \in {"next", "step", "apply", "verify"} /\ exec.todo # <<>>
            /\ \A q \in Resource : q # Res => host'[q] = host[q]
            /\ exec.op \in touched => exec.op \in touched'
  PROVE  TakenInv'
<1> SUFFICES ASSUME exec'.st \in {"next", "step", "apply", "verify"}
             PROVE  /\ result'[exec'.op] = "none" /\ items'[exec'.op] \in Manifest /\ Taken' >= 0
                    /\ \A i \in 1..Len(exec'.todo) : exec'.todo[i] = items'[exec'.op][Taken' + i]
                    /\ ~exec'.failed /\ exec'.op \notin touched' => Conforms(exec.op, Taken)'
  BY DEF TakenInv
<1>1. exec.st \in {"next", "step", "apply", "verify"}
  OBVIOUS
<1>2. Taken' = Taken
  BY DEF Taken
<1>3. /\ result'[exec'.op] = "none" /\ items'[exec'.op] \in Manifest /\ Taken' >= 0
      /\ \A i \in 1..Len(exec'.todo) : exec'.todo[i] = items'[exec'.op][Taken' + i]
  BY <1>1, <1>2 DEF TakenInv
<1>4. ASSUME ~exec'.failed, exec'.op \notin touched' PROVE Conforms(exec.op, Taken)'
  <2>1. Conforms(exec.op, Taken)
    BY <1>1, <1>4 DEF TakenInv
  <2>2. Taken \in Nat /\ Len(items[exec.op]) = Taken + Len(exec.todo) /\ Len(exec.todo) \in Nat
        /\ (\A i \in 1..Len(items[exec.op]) : items[exec.op][i].res \in Resource)
        /\ (exec.todo # <<>> => \A i \in 1..Taken : items[exec.op][i].res # Res)
    <3>1. exec.todo \in Seq(Item)
      BY <1>1, TakenFacts
    <3> QED  BY <1>1, <3>1, TakenFacts
  <2>3. ASSUME NEW i \in 1..Taken PROVE host'[items[exec.op][i].res] = host[items[exec.op][i].res]
    <3>1. i \in 1..Len(items[exec.op])
      BY <2>2
    <3> QED  BY <1>4, <2>2, <3>1
  <2> QED  BY <1>2, <2>1, <2>3 DEF Conforms
<1> QED  BY <1>3, <1>4

\* Before the next item the executor is behind none.
LEMMA NotTaken ==
  ASSUME exec'.st \in {"idle", "undo"}
  PROVE  TakenInv'
BY DEF TakenInv

\* A change of r on behalf of o, as far as the records see it: not of a succeeded
\* operation that stands, and nginx is reloaded, or torn, or not concerned.
Recorded(r, s, o) ==
  /\ Change(r, s, o)
  /\ o \in Op => result[o] # "succeeded" \/ undone[o] # "no"
  /\ \/ Reload /\ Accepted(host')
     \/ NoReload
     \/ NoNginx /\ (r \notin Vhost \/ host' = host)

\* Nobody writes a record: what applied/ says of the resource is not looked at, the
\* other operations are touched, and nginx still runs with the files.
LEMMA RecordsHost ==
  ASSUME TypeOK, RecordsInv, UNCHANGED <<disk, nops, past>>,
         \/ UNCHANGED <<host, loaded, touched, dirty, torn>>
         \/ \E r \in Resource : \E s, o : Recorded(r, s, o)
  PROVE  AppliedTrue' /\ NginxTrue' /\ ResultsTrue' /\ NoResultYet'
<1>1. UNCHANGED <<applied, nops, items, result, undone>>
  BY DEF disk, past
<1>2. NoResultYet'
  BY <1>1 DEF RecordsInv, NoResultYet
<1>3. CASE UNCHANGED <<host, loaded, touched, dirty, torn>>
  BY <1>1, <1>2, <1>3 DEF RecordsInv, AppliedTrue, NginxTrue, ResultsTrue, Conforms, Accepted
<1>4. CASE \E r \in Resource : \E s, o : Recorded(r, s, o)
  <2>0. PICK r \in Resource : \E s, o : Recorded(r, s, o)
    BY <1>4
  <2>1. PICK s, o : Recorded(r, s, o)
    BY <2>0
  <2>2. /\ host' = [host EXCEPT ![r] = s] /\ dirty' = dirty \cup {r}
        /\ touched' = IF s = host[r] THEN touched ELSE touched \cup ((1..nops) \ {o})
        /\ o \in Op => result[o] # "succeeded" \/ undone[o] # "no"
    BY <2>1 DEF Recorded, Change
  <2>3. DOMAIN host = Resource
    BY DEF TypeOK, Host
  <2>4. \A q \in Resource : q # r => host'[q] = host[q]
    BY <2>2, <2>3
  <2>5. AppliedTrue'
    BY <1>1, <2>2, <2>4 DEF RecordsInv, AppliedTrue
  <2>6. ResultsTrue'
    <3> SUFFICES ASSUME NEW p \in Op, result[p] = "succeeded", undone[p] = "no", p \notin touched'
                 PROVE  Conforms(p, Len(items[p]))'
      BY <1>1 DEF ResultsTrue
    <3>1. p # o /\ p \in 1..nops
      <4>1. p \in 1..MaxOps /\ MaxOps \in Nat /\ nops \in Nat
        BY ExecutorAssumption DEF Op, TypeOK
      <4>2. ~(p > nops)
        BY DEF RecordsInv, NoResultYet
      <4> QED  BY <2>2, <4>1, <4>2
    <3>2. s = host[r] /\ p \notin touched
      BY <2>2, <3>1
    <3>3. host' = host
      BY <2>2, <3>2 DEF TypeOK, Host
    <3> QED  BY <1>1, <3>2, <3>3 DEF RecordsInv, ResultsTrue, Conforms
  <2>7. NginxTrue'
    <3>1. CASE Reload /\ Accepted(host')
      BY <3>1 DEF Reload, NginxTrue, Accepted
    <3>2. CASE NoReload
      BY <3>2 DEF NoReload, NginxTrue
    <3>3. CASE NoNginx /\ (r \notin Vhost \/ host' = host)
      <4>1. \A v \in Vhost : host'[v] = host[v]
        BY <2>4, <3>3 DEF Resource
      <4> QED  BY <3>3, <4>1 DEF NoNginx, RecordsInv, NginxTrue, Accepted
    <3> QED  BY <2>1, <3>1, <3>2, <3>3 DEF Recorded
  <2> QED  BY <1>2, <2>5, <2>6, <2>7
<1> QED  BY <1>3, <1>4

\* The applied state is written of a resource that conforms, or not at all.
LEMMA RecordsWrite ==
  ASSUME TypeOK, RecordsInv, UNCHANGED <<host, loaded, nops, items, result, undone, touched, torn>>,
         \/ UNCHANGED <<applied, dirty>>
         \/ WriteApplied /\ ~Differs(Res, Spc, host[Res])
  PROVE  AppliedTrue' /\ NginxTrue' /\ ResultsTrue' /\ NoResultYet'
<1>1. NginxTrue' /\ ResultsTrue' /\ NoResultYet'
  BY DEF RecordsInv, NginxTrue, ResultsTrue, NoResultYet, Conforms, Accepted
<1>2. CASE UNCHANGED <<applied, dirty>>
  BY <1>1, <1>2 DEF RecordsInv, AppliedTrue
<1>3. CASE WriteApplied /\ ~Differs(Res, Spc, host[Res])
  <2>1. applied' = [applied EXCEPT ![Res] = Spc] /\ dirty' = dirty \ {Res}
    BY <1>3 DEF WriteApplied
  <2>2. DOMAIN applied = Resource
    BY DEF TypeOK
  <2>3. ASSUME NEW q \in Resource \ dirty', applied'[q] # NoSpec
        PROVE  ~Differs(q, applied'[q], host[q])
    <3>1. CASE q = Res
      BY <1>3, <2>1, <2>2, <3>1
    <3>2. CASE q # Res
      BY <2>1, <2>2, <2>3, <3>2 DEF RecordsInv, AppliedTrue
    <3> QED  BY <3>1, <3>2
  <2> QED  BY <1>1, <2>3 DEF AppliedTrue
<1> QED  BY <1>2, <1>3

\* Init: nothing is on record, and nginx runs with files it accepts.
LEMMA RecordsInit == Init => RecordsInv
<1> SUFFICES ASSUME Init PROVE RecordsInv
  OBVIOUS
<1>1. AppliedTrue /\ ResultsTrue /\ NoResultYet
  BY DEF Init, AppliedTrue, ResultsTrue, NoResultYet
<1>2. NginxTrue
  BY ExecutorAssumption DEF Init, NginxTrue
<1>3. TakenInv
  BY IdleFacts DEF Init, TakenInv
<1> QED  BY <1>1, <1>2, <1>3 DEF RecordsInv

\* Start: the new operation has its whole manifest before it.
LEMMA RecordsStart ==
  ASSUME Inv, RecordsInv, NEW m \in Manifest, Start(m)
  PROVE  RecordsInv'
<1>1. nops' \in Op /\ nops' = nops + 1 /\ nops \in Nat /\ nops' > nops
  <2>1. nops \in 0..MaxOps /\ nops' = nops + 1 /\ MaxOps \in Nat /\ nops < MaxOps
    BY ExecutorAssumption DEF Inv, TypeOK, Start
  <2> QED  BY <2>1 DEF Op
<1>2. /\ UNCHANGED <<host, loaded, applied, result, undone, touched, dirty, torn>>
      /\ items' = [items EXCEPT ![nops'] = m]
  BY DEF Start, marks
<1>3. DOMAIN items = Op
  BY DEF Inv, TypeOK
<1>4. exec'.st = "next" /\ exec'.op = nops' /\ exec'.todo = m
  BY DEF Start, Idle
<1>5. items'[nops'] = m /\ (\A o \in Op : o # nops' => items'[o] = items[o])
  BY <1>1, <1>2, <1>3
<1>6. result[nops'] = "none"
  BY <1>1 DEF RecordsInv, NoResultYet
<1>7. AppliedTrue' /\ NginxTrue'
  BY <1>2 DEF RecordsInv, AppliedTrue, NginxTrue, Accepted
<1>8. NoResultYet'
  BY <1>1, <1>2 DEF RecordsInv, NoResultYet, Op
<1>9. ResultsTrue'
  <2> SUFFICES ASSUME NEW o \in Op, result[o] = "succeeded", undone[o] = "no", o \notin touched
               PROVE  Conforms(o, Len(items[o]))'
    BY <1>2 DEF ResultsTrue
  <2>1. items'[o] = items[o]
    BY <1>5, <1>6
  <2> QED  BY <1>2, <2>1 DEF RecordsInv, ResultsTrue, Conforms
<1>10. TakenInv'
  <2>1. Len(m) \in Nat
    <3>1. m \in Seq(Item)
      BY ManifestAssumption DEF Item
    <3> QED  BY <3>1
  <2>2. Taken' = 0
    <3>1. Taken' = Len(m) - Len(m)
      BY <1>4, <1>5 DEF Taken
    <3> QED  BY <2>1, <3>1
  <2>3. \A i \in 1..Len(m) : 0 + i = i
    BY <2>1
  <2>4. Conforms(exec.op, Taken)'
    BY <2>2 DEF Conforms
  <2>5. 0 >= 0 /\ m \in Manifest
    OBVIOUS
  <2> QED  BY <1>2, <1>4, <1>5, <1>6, <2>2, <2>3, <2>4, <2>5 DEF TakenInv
<1> QED  BY <1>7, <1>8, <1>9, <1>10 DEF RecordsInv

\* Observe: without a difference the resource is taken, and it conforms.
LEMMA RecordsObserve ==
  ASSUME Inv, RecordsInv, Observe
  PROVE  RecordsInv'
<1>1. /\ UNCHANGED <<host, loaded, nops, items, result, undone, touched, torn>>
      /\ exec.st = "next" /\ exec.todo # <<>>
  BY DEF Observe, past
<1>2. CASE Differs(Res, Spc, host[Res])
  <2>1. exec' = [exec EXCEPT !.steps = Plan(Res, Spc, host[Res]),
                   !.st = IF Plan(Res, Spc, host[Res]) = <<>> THEN "verify" ELSE "step"]
    BY <1>2 DEF Observe
  <2>2. exec'.op = exec.op /\ exec'.todo = exec.todo /\ exec'.failed = exec.failed
    BY <2>1 DEF Inv, TypeOK, Exec
  <2>3. TakenInv'
    BY <1>1, <2>2, SameTaken DEF RecordsInv
  <2>4. UNCHANGED <<applied, dirty>>
    BY <1>2 DEF Observe
  <2> QED  BY <1>1, <2>3, <2>4, RecordsWrite DEF RecordsInv, Inv
<1>3. CASE ~Differs(Res, Spc, host[Res])
  <2>1. NextItem(FALSE, FALSE) /\ WriteApplied
    BY <1>3 DEF Observe
  <2>2. TakenInv'
    BY <1>1, <1>3, <2>1, NextTaken DEF RecordsInv
  <2> QED  BY <1>1, <1>3, <2>1, <2>2, RecordsWrite DEF RecordsInv, Inv
<1> QED  BY <1>2, <1>3

\* Verify: the resource is taken as one that conforms, or has failed.
LEMMA RecordsVerify ==
  ASSUME Inv, RecordsInv, Verify
  PROVE  RecordsInv'
<1>1. /\ UNCHANGED <<host, loaded, nops, items, result, undone, touched, torn>>
      /\ exec.st = "verify" /\ exec.todo # <<>>
  BY DEF Verify, past, Inv, ExecInv
<1>2. CASE Matches(Res, Spc, host[Res])
  <2>1. NextItem(FALSE, TRUE) /\ WriteApplied /\ ~Differs(Res, Spc, host[Res])
    BY <1>2 DEF Verify, Matches
  <2>2. TakenInv'
    BY <1>1, <2>1, NextTaken DEF RecordsInv
  <2> QED  BY <1>1, <2>1, <2>2, RecordsWrite DEF RecordsInv, Inv
<1>3. CASE ~Matches(Res, Spc, host[Res])
  <2>1. NextItem(TRUE, FALSE) /\ UNCHANGED <<applied, dirty>>
    BY <1>3 DEF Verify
  <2>2. TakenInv'
    BY <1>1, <2>1, NextTaken DEF RecordsInv
  <2> QED  BY <1>1, <2>1, <2>2, RecordsWrite DEF RecordsInv, Inv
<1> QED  BY <1>2, <1>3

\* PreApply: the resource stays, or has failed.
LEMMA RecordsPreApply ==
  ASSUME Inv, RecordsInv, PreApply
  PROVE  RecordsInv'
<1>1. /\ UNCHANGED <<host, loaded, applied, nops, items, result, undone, touched, dirty, torn>>
      /\ exec.st = "step" /\ exec.todo # <<>>
  BY DEF PreApply, past, marks, Inv, ExecInv
<1>2. TakenInv'
  <2>1. CASE exec' = [exec EXCEPT !.st = "apply"]
    <3>1. exec'.op = exec.op /\ exec'.todo = exec.todo /\ exec'.failed = exec.failed
      BY <2>1 DEF Inv, TypeOK, Exec
    <3> QED  BY <1>1, <3>1, SameTaken DEF RecordsInv
  <2>2. CASE NextItem(TRUE, FALSE)
    BY <1>1, <2>2, NextTaken DEF RecordsInv
  <2> QED  BY <2>1, <2>2 DEF PreApply
<1> QED  BY <1>1, <1>2, RecordsWrite DEF RecordsInv, Inv

\* Abort: there is no result.
LEMMA RecordsAbort ==
  ASSUME Inv, RecordsInv, Abort
  PROVE  RecordsInv'
<1>1. UNCHANGED <<host, loaded, applied, nops, items, result, undone, touched, dirty, torn>>
      /\ exec' = Idle
  BY DEF Abort, disk, past, marks
<1>2. TakenInv'
  BY <1>1, IdleFacts, NotTaken
<1> QED  BY <1>1, <1>2, RecordsWrite DEF RecordsInv, Inv

\* Finish: a succeeded operation has taken its whole manifest, and none has failed.
LEMMA RecordsFinish ==
  ASSUME Inv, RecordsInv, Finish
  PROVE  RecordsInv'
<1>1. /\ UNCHANGED <<host, loaded, applied, nops, items, undone, touched, dirty, torn>>
      /\ exec.st = "next" /\ exec.todo = <<>> /\ exec' = Idle
      /\ result' = [result EXCEPT ![exec.op] = Status(exec.failed, exec.changed)]
  BY DEF Finish, marks
<1>2. exec.op \in 1..nops /\ nops \in Nat /\ DOMAIN result = Op
  BY <1>1, ExecutorAssumption DEF Inv, ExecInv, TypeOK
<1>3. \A o \in Op : o # exec.op => result'[o] = result[o]
  BY <1>1, <1>2
<1>4. AppliedTrue' /\ NginxTrue'
  BY <1>1 DEF RecordsInv, AppliedTrue, NginxTrue, Accepted
<1>5. NoResultYet'
  <2> SUFFICES ASSUME NEW o \in Op, o > nops PROVE result'[o] = "none"
    BY <1>1 DEF NoResultYet
  <2>1. o # exec.op
    BY <1>2
  <2> QED  BY <1>3, <2>1 DEF RecordsInv, NoResultYet
<1>6. ResultsTrue'
  <2> SUFFICES ASSUME NEW o \in Op, result'[o] = "succeeded", undone[o] = "no", o \notin touched
               PROVE  Conforms(o, Len(items[o]))
    BY <1>1 DEF ResultsTrue, Conforms
  <2>1. CASE o # exec.op
    BY <1>3, <2>1 DEF RecordsInv, ResultsTrue
  <2>2. CASE o = exec.op
    <3>1. ~exec.failed
      <4>1. Status(exec.failed, exec.changed) = "succeeded"
        BY <1>1, <1>2, <2>2
      <4>2. exec.failed \in BOOLEAN /\ exec.changed \in BOOLEAN
        BY DEF Inv, TypeOK, Exec
      <4> QED  BY <4>1, <4>2 DEF Status
    <3>2. Conforms(exec.op, Taken)
      BY <1>1, <2>2, <3>1 DEF RecordsInv, TakenInv
    <3>3. Taken = Len(items[exec.op])
      <4>1. Taken \in Nat /\ Len(items[exec.op]) = Taken + Len(exec.todo)
        BY <1>1, TakenFacts DEF RecordsInv
      <4>2. Len(exec.todo) = 0
        BY <1>1
      <4> QED  BY <4>1, <4>2
    <3> QED  BY <2>2, <3>2, <3>3
  <2> QED  BY <2>1, <2>2
<1>7. TakenInv'
  BY <1>1, IdleFacts, NotTaken
<1> QED  BY <1>4, <1>5, <1>6, <1>7 DEF RecordsInv

\* Rollback, UndoDone: the operation does not stand any more.
LEMMA RecordsUndone ==
  ASSUME Inv, RecordsInv, (\E o \in Op : Rollback(o)) \/ UndoDone
  PROVE  RecordsInv'
<1>1. /\ UNCHANGED <<host, loaded, applied, nops, items, result, touched, dirty, torn>>
      /\ exec'.st \in {"idle", "undo"}
  BY IdleFacts DEF Rollback, UndoDone, disk, marks, Idle
<1>2. undone \in [Op -> {"no", "begun", "ok", "lossy"}]
  BY DEF Inv, TypeOK
<1>3. \A p \in Op : undone'[p] = "no" => undone[p] = "no"
  <2>1. CASE \E o \in Op : Rollback(o)
    <3>1. PICK o \in Op : undone' = [undone EXCEPT ![o] = "begun"]
      BY <2>1 DEF Rollback
    <3> QED  BY <1>2, <3>1
  <2>2. CASE UndoDone
    <3> DEFINE u == IF exec.err THEN "begun" ELSE IF exec.lossy THEN "lossy" ELSE "ok"
    <3>1. undone' = [undone EXCEPT ![exec.op] = u] /\ u # "no"
      BY <2>2 DEF UndoDone
    <3> HIDE DEF u
    <3> QED  BY <1>2, <3>1
  <2> QED  BY <2>1, <2>2
<1>4. AppliedTrue' /\ NginxTrue' /\ NoResultYet'
  BY <1>1 DEF RecordsInv, AppliedTrue, NginxTrue, NoResultYet, Accepted
<1>5. ResultsTrue'
  BY <1>1, <1>3 DEF RecordsInv, ResultsTrue, Conforms
<1> QED  BY <1>1, <1>4, <1>5, NotTaken DEF RecordsInv

\* What a step of a plan is on behalf of has no result yet.
LEMMA RecordedStep ==
  ASSUME Inv, RecordsInv, exec.st = "apply", NEW s, Change(Res, s, exec.op),
         \/ Reload /\ Accepted(host')
         \/ NoReload
         \/ NoNginx /\ (Res \notin Vhost \/ host' = host)
  PROVE  \E r \in Resource : \E x, o : Recorded(r, x, o)
<1>1. Res \in Resource
  BY ApplyFacts
<1>2. result[exec.op] = "none"
  BY DEF RecordsInv, TakenInv
<1>3. Recorded(Res, s, exec.op)
  BY <1>2 DEF Recorded
<1> QED  BY <1>1, <1>3

\* A step of a plan that is done: the executor stays at the resource it changes.
LEMMA StepTaken ==
  ASSUME Inv, RecordsInv, exec.st = "apply", StepDone, UNCHANGED past,
         NEW s, Change(Res, s, exec.op)
  PROVE  TakenInv'
<1>1. exec.todo # <<>>
  BY ApplyFacts
<1> DEFINE t == IF Len(exec.steps) = 1 THEN "verify" ELSE "step"
<1>2. exec' = [exec EXCEPT !.steps = Tail(exec.steps), !.st = t]
  BY DEF StepDone
<1> HIDE DEF t
<1>3. exec'.op = exec.op /\ exec'.todo = exec.todo /\ exec'.failed = exec.failed
  BY <1>2 DEF Inv, TypeOK, Exec
<1>4. \A q \in Resource : q # Res => host'[q] = host[q]
  BY DEF Change, Inv, TypeOK, Host
<1>5. exec.op \in touched => exec.op \in touched'
  BY DEF Change
<1> QED  BY <1>1, <1>3, <1>4, <1>5, SameTaken DEF RecordsInv, past

\* ApplyPlain: nginx is not concerned.
LEMMA RecordsApplyPlain ==
  ASSUME Inv, RecordsInv, ApplyPlain
  PROVE  RecordsInv'
<1>1. /\ exec.st = "apply" /\ Res \notin Vhost /\ UNCHANGED <<disk, nops, past>> /\ NoNginx
      /\ exec.todo # <<>> /\ TypeOK
  BY ApplyFacts DEF ApplyPlain, Inv
<1>2. Change(Res, New, exec.op) \/ UNCHANGED <<host, touched, dirty>>
  BY DEF ApplyPlain
<1>3. AppliedTrue' /\ NginxTrue' /\ ResultsTrue' /\ NoResultYet'
  <2>1. CASE Change(Res, New, exec.op)
    BY <1>1, <2>1, RecordedStep, RecordsHost
  <2>2. CASE UNCHANGED <<host, touched, dirty>>
    BY <1>1, <2>2, RecordsHost DEF NoNginx
  <2> QED  BY <1>2, <2>1, <2>2
<1>4. TakenInv'
  <2>1. CASE StepDone /\ Change(Res, New, exec.op)
    BY <1>1, <2>1, StepTaken
  <2>2. CASE NextItem(TRUE, FALSE)
    BY <1>1, <2>2, NextTaken DEF RecordsInv, past
  <2> QED  BY <2>1, <2>2 DEF ApplyPlain
<1> QED  BY <1>3, <1>4 DEF RecordsInv

\* ApplyVhost: nginx is reloaded with what it accepts, or what it refuses is taken
\* back, or the host is torn.
LEMMA RecordsApplyVhost ==
  ASSUME Inv, RecordsInv, ApplyVhost
  PROVE  RecordsInv'
<1>1. /\ exec.st = "apply" /\ UNCHANGED <<disk, nops, past>>
      /\ exec.todo # <<>> /\ TypeOK
  BY ApplyFacts DEF ApplyVhost, Inv
<1> DEFINE accepted == Accepted([host EXCEPT ![Res] = New])
<1>2. \/ accepted /\ StepDone /\ Change(Res, New, exec.op) /\ Reload
      \/ NextItem(TRUE, FALSE) /\ Change(Res, New, exec.op) /\ NoReload
      \/ NextItem(TRUE, FALSE) /\ Change(Res, host[Res], exec.op) /\ NoNginx
      \/ NextItem(TRUE, FALSE) /\ UNCHANGED <<host, touched, dirty>> /\ NoNginx
  BY DEF ApplyVhost, RefusedState
<1>3. accepted /\ Change(Res, New, exec.op) => Accepted(host')
  BY DEF Change
<1>4. Change(Res, host[Res], exec.op) => host' = host
  BY <1>1 DEF Change, TypeOK, Host
<1> HIDE DEF accepted
<1>5. AppliedTrue' /\ NginxTrue' /\ ResultsTrue' /\ NoResultYet'
  <2>1. CASE \/ accepted /\ Change(Res, New, exec.op) /\ Reload
             \/ Change(Res, New, exec.op) /\ NoReload
             \/ Change(Res, host[Res], exec.op) /\ NoNginx
    <3>1. \E r \in Resource : \E x, o : Recorded(r, x, o)
      BY <1>1, <1>3, <1>4, <2>1, RecordedStep
    <3> QED  BY <1>1, <3>1, RecordsHost
  <2>2. CASE UNCHANGED <<host, touched, dirty>> /\ NoNginx
    BY <1>1, <2>2, RecordsHost DEF NoNginx
  <2> QED  BY <1>2, <2>1, <2>2
<1>6. TakenInv'
  <2>1. CASE StepDone /\ Change(Res, New, exec.op)
    BY <1>1, <2>1, StepTaken
  <2>2. CASE NextItem(TRUE, FALSE)
    BY <1>1, <2>2, NextTaken DEF RecordsInv, past
  <2> QED  BY <1>2, <2>1, <2>2
<1> QED  BY <1>5, <1>6 DEF RecordsInv

\* Undo: the operation does not stand, and nginx is reloaded with what it accepts,
\* or the host is torn.
LEMMA RecordsUndo ==
  ASSUME Inv, RecordsInv, Undo
  PROVE  RecordsInv'
<1>1. exec.st = "undo" /\ exec.left > 0 /\ UNCHANGED <<disk, nops, past>> /\ TypeOK
  BY DEF Undo, Inv
<1>2. PICK c : c = ckpt[exec.op][exec.left]
  OBVIOUS
<1>3. c.res \in Resource /\ undone[exec.op] = "begun"
  BY <1>1, <1>2, UndoFacts
<1> DEFINE back == Restored(c.res, c.data, host[c.res])
<1> DEFINE accepted == Accepted([host EXCEPT ![c.res] = back])
<1>4. exec'.st = "undo"
  <2>1. exec \in Exec
    BY <1>1 DEF TypeOK
  <2>2. \E a, b : exec' = [exec EXCEPT !.left = exec.left - 1, !.err = a, !.lossy = b]
    BY DEF Undo
  <2> QED  BY <1>1, <2>1, <2>2 DEF Exec
<1>5. \/ \E x : Change(c.res, x, exec.op) /\ NoNginx /\ c.res \notin Vhost
      \/ Change(c.res, back, exec.op) /\ accepted /\ Reload
      \/ Change(c.res, back, exec.op) /\ NoReload
      \/ UNCHANGED <<host, touched, dirty>> /\ NoNginx
  <2>1. c.res \in File \cup Unit => c.res \notin Vhost
    BY <1>3, Kinds
  <2> QED  BY <1>2, <2>1 DEF Undo, NextUndo
<1>6. accepted /\ Change(c.res, back, exec.op) => Accepted(host')
  BY DEF Change
<1> HIDE DEF back, accepted
<1>7. CASE UNCHANGED <<host, touched, dirty>> /\ NoNginx
  <2>1. AppliedTrue' /\ NginxTrue' /\ ResultsTrue' /\ NoResultYet'
    BY <1>1, <1>7, RecordsHost DEF NoNginx
  <2> QED  BY <1>4, <2>1, NotTaken DEF RecordsInv
<1>8. CASE \/ \E x : Change(c.res, x, exec.op) /\ NoNginx /\ c.res \notin Vhost
           \/ Change(c.res, back, exec.op) /\ accepted /\ Reload
           \/ Change(c.res, back, exec.op) /\ NoReload
  <2>1. \E x : Recorded(c.res, x, exec.op)
    BY <1>3, <1>6, <1>8 DEF Recorded
  <2>2. \E r \in Resource : \E x, o : Recorded(r, x, o)
    BY <1>3, <2>1
  <2>3. AppliedTrue' /\ NginxTrue' /\ ResultsTrue' /\ NoResultYet'
    BY <1>1, <2>2, RecordsHost
  <2> QED  BY <1>4, <2>3, NotTaken DEF RecordsInv
<1> QED  BY <1>5, <1>7, <1>8

\* Crash: a step that was cut short is one of nobody's result, and tears the host.
LEMMA RecordsCrash ==
  ASSUME Inv, RecordsInv, Crash
  PROVE  RecordsInv'
<1>1. UNCHANGED <<disk, nops, past>> /\ exec' = Idle /\ TypeOK
  BY DEF Crash, Inv
<1>2. TakenInv'
  BY <1>1, IdleFacts, NotTaken
<1>3. CASE UNCHANGED <<host, loaded, touched, dirty, torn>>
  BY <1>1, <1>2, <1>3, RecordsHost DEF RecordsInv
<1>4. CASE /\ exec.st = "apply" /\ Change(Res, New, exec.op)
           /\ IF Res \in Vhost THEN NoReload ELSE NoNginx
  <2>1. \E r \in Resource : \E x, o : Recorded(r, x, o)
    BY <1>4, RecordedStep
  <2> QED  BY <1>1, <1>2, <2>1, RecordsHost DEF RecordsInv
<1> QED  BY <1>3, <1>4 DEF Crash

\* Drift: every operation is touched, the one at work too.
LEMMA RecordsDrift ==
  ASSUME Inv, RecordsInv, NEW r \in Resource, NEW s \in StateOf(r), Drift(r, s)
  PROVE  RecordsInv'
<1>1. UNCHANGED <<disk, exec, nops, past>> /\ TypeOK /\ Change(r, s, 0) /\ s # host[r]
  BY DEF Drift, Inv
<1>2. Recorded(r, s, 0)
  <2>1. (Reload /\ Accepted(host')) \/ NoReload \/ (NoNginx /\ r \notin Vhost)
    BY DEF Drift
  <2>2. 0 \notin Op
    BY DEF Op
  <2> QED  BY <1>1, <2>1, <2>2 DEF Recorded
<1>3. AppliedTrue' /\ NginxTrue' /\ ResultsTrue' /\ NoResultYet'
  BY <1>1, <1>2, RecordsHost
<1>4. TakenInv'
  <2>1. CASE exec.st \in {"next", "step", "apply", "verify"}
    <3>1. exec.op \in 1..nops /\ exec.op # 0
      BY <2>1 DEF Inv, ExecInv
    <3>2. exec.op \in touched'
      BY <1>1, <3>1 DEF Change
    <3> QED  BY <1>1, <3>2, SameTaken DEF RecordsInv, past
  <2>2. CASE exec.st \notin {"next", "step", "apply", "verify"}
    BY <1>1, <2>2 DEF TakenInv
  <2> QED  BY <2>1, <2>2
<1> QED  BY <1>3, <1>4 DEF RecordsInv

\* Every step keeps the records true.
LEMMA RecordsNext == Inv /\ RecordsInv /\ [Next]_vars => RecordsInv'
<1> SUFFICES ASSUME Inv, RecordsInv, [Next]_vars PROVE RecordsInv'
  OBVIOUS
<1>1. CASE UNCHANGED vars
  BY <1>1 DEF vars, disk, past, marks, RecordsInv, AppliedTrue, NginxTrue, ResultsTrue, TakenInv,
              NoResultYet, Conforms, Taken, Accepted
<1>2. CASE \E m \in Manifest : Start(m)
  BY <1>2, RecordsStart
<1>3. CASE Observe \/ PreApply \/ Verify \/ Finish \/ Abort
  BY <1>3, RecordsObserve, RecordsPreApply, RecordsVerify, RecordsFinish, RecordsAbort
<1>4. CASE ApplyPlain \/ ApplyVhost
  BY <1>4, RecordsApplyPlain, RecordsApplyVhost
<1>5. CASE (\E o \in Op : Rollback(o)) \/ UndoDone
  BY <1>5, RecordsUndone
<1>6. CASE Undo \/ Crash
  BY <1>6, RecordsUndo, RecordsCrash
<1>7. CASE \E r \in Resource : \E s \in StateOf(r) : Drift(r, s)
  BY <1>7, RecordsDrift
<1> QED  BY <1>1, <1>2, <1>3, <1>4, <1>5, <1>6, <1>7 DEF Next

\* What an apply of executor.rs leaves on record is true: applied/ names specs the
\* host conforms to, a succeeded operation left its manifest conforming, and nginx
\* accepts and runs with the files on disk unless a step on one was cut short.
THEOREM RecordsAreTrueCorrect == Spec => []RecordsAreTrue
<1>1. RecordsInv => RecordsAreTrue
  BY DEF RecordsInv, RecordsAreTrue, AppliedTrue, NginxTrue, ResultsTrue, Conforms
<1>2. Inv /\ RecordsInv /\ [Next]_vars => (Inv /\ RecordsInv)'
  BY InvNext, RecordsNext
<1> QED  BY <1>1, <1>2, InvInit, RecordsInit, PTL DEF Spec

(***************************************************************************)
(* External providers.                                                     *)
(*                                                                         *)
(* Callers, children and their lines. Only the caller with the lock writes *)
(* and reads, but children that were let go work on what they have.        *)
(***************************************************************************)

\* What call may try, and where its lock is held.
Tries == IF RestartOnCrash THEN 2 ELSE 1

Talking == {"hello", "write", "read"}

Line == [id : Nat, is : {"hello", "noise", "answer"}, req : Nat]
Request == [id : Nat, req : Nat]
Process == [alive : BOOLEAN, ready : BOOLEAN, ins : Seq(Request), outs : Seq(Line), eof : BOOLEAN]
CallState ==
  [id : Nat, req : Nat, tries : 0..Tries, pid : Nat, got : Nat,
   at : Talking \cup {"idle", "enter", "won", "lost", "ok", "failed"}]

PluginTypes ==
  /\ handle = [next |-> handle.next, proc |-> handle.proc, crashes |-> handle.crashes, until |-> handle.until]
  /\ handle.next \in Nat /\ handle.proc \in 0..Len(child)
  /\ lock \in Caller \cup {Nobody}
  /\ child \in Seq(Process)
  /\ caller \in [Caller -> CallState]
  /\ runs \in Seq(Nat)

\* Child p has request x before it; it has answered it, in a line not read yet.
Has(p, x) == \E k \in DOMAIN child[p].ins : child[p].ins[k] = x
Said(p, x) == \E k \in DOMAIN child[p].outs : child[p].outs[k] = Answer(x)
Awaits(c, x) == At(c, "read") /\ caller[c].id = x.id /\ caller[c].req = x.req

\* An id is for one call for as long as somebody knows it.
Known(x) == (\E p \in DOMAIN child : Has(p, x) \/ Said(p, x)) \/ (\E c \in Caller : Awaits(c, x))

IdInv ==
  /\ \A x \in Request : Known(x) => x.id < handle.next /\ x.req \in DOMAIN runs
  /\ \A x, y \in Request : Known(x) /\ Known(y) /\ x.id = y.id => x.req = y.req

\* No child gets a call twice, and what is answered was carried out.
OnceInv ==
  \A p \in DOMAIN child : \A i, j \in DOMAIN child[p].ins :
    child[p].ins[i].req = child[p].ins[j].req => i = j

SaidInv == \A p \in DOMAIN child : \A x \in Request : Said(p, x) => runs[x.req] > 0

\* The children that have call r still before them: with those that carried it out
\* and the requests still to be written they are no more than the tries.
Pending(r) == {p \in DOMAIN child : \E k \in DOMAIN child[p].ins : child[p].ins[k].req = r}

ToCome(c) ==
  IF caller[c].at \in {"enter", "hello", "write"} THEN Tries - caller[c].tries + 1
  ELSE IF caller[c].at \in {"read", "lost"} THEN Tries - caller[c].tries
  ELSE 0

CountInv == \A r \in DOMAIN runs : runs[r] + Cardinality(Pending(r)) <= Tries

\* A caller talks under the lock, and to a child that does not have its call yet.
CallerOK(c) ==
  /\ caller[c].at \in Talking => lock = c
  /\ ~At(c, "idle") =>
       /\ caller[c].req \in DOMAIN runs /\ caller[c].tries >= 1
       /\ runs[caller[c].req] + Cardinality(Pending(caller[c].req)) + ToCome(c) <= Tries
  /\ At(c, "write") => handle.proc # 0
  /\ caller[c].at \in {"enter", "write"} => handle.proc \notin Pending(caller[c].req)
  /\ At(c, "hello") => caller[c].pid \in DOMAIN child /\ child[caller[c].pid].ins = <<>>
  /\ At(c, "read") => caller[c].pid \in DOMAIN child
  /\ caller[c].at \in {"won", "ok"} => caller[c].got = caller[c].req /\ runs[caller[c].req] > 0

Apart ==
  \A c, d \in Caller : c # d /\ ~At(c, "idle") /\ ~At(d, "idle") => caller[c].req # caller[d].req

PluginInv ==
  /\ PluginTypes /\ IdInv /\ OnceInv /\ SaidInv /\ CountInv /\ Apart
  /\ \A c \in Caller : CallerOK(c)

\* The children and their lines.
LEMMA ProcessFacts ==
  ASSUME PluginTypes
  PROVE  /\ Len(child) \in Nat /\ DOMAIN child = 1..Len(child)
         /\ \A p \in DOMAIN child :
              /\ child[p] \in Process /\ child[p].ins \in Seq(Request) /\ child[p].outs \in Seq(Line)
              /\ \A k \in DOMAIN child[p].ins : child[p].ins[k] \in Request
              /\ \A k \in DOMAIN child[p].outs : child[p].outs[k] \in Line
<1>1. child \in Seq(Process)
  BY DEF PluginTypes
<1>2. Len(child) \in Nat /\ DOMAIN child = 1..Len(child)
  BY <1>1
<1>3. ASSUME NEW p \in DOMAIN child
      PROVE  /\ child[p] \in Process /\ child[p].ins \in Seq(Request) /\ child[p].outs \in Seq(Line)
             /\ \A k \in DOMAIN child[p].ins : child[p].ins[k] \in Request
             /\ \A k \in DOMAIN child[p].outs : child[p].outs[k] \in Line
  <2>1. child[p] \in Process
    BY <1>1
  <2>2. child[p].ins \in Seq(Request) /\ child[p].outs \in Seq(Line)
    BY <2>1 DEF Process
  <2> QED  BY <2>1, <2>2
<1> QED  BY <1>2, <1>3

\* The children that have a call before them can be counted.
LEMMA PendingFacts ==
  ASSUME PluginTypes, NEW r
  PROVE  IsFiniteSet(Pending(r)) /\ Cardinality(Pending(r)) \in Nat
<1>1. Len(child) \in Nat /\ Pending(r) \subseteq 1..Len(child)
  BY ProcessFacts DEF Pending
<1>2. IsFiniteSet(1..Len(child))
  BY <1>1, FS_Interval
<1> QED  BY <1>1, <1>2, FS_Subset, FS_CardinalityType

\* A line is the answer to one request at most.
LEMMA AnswerFacts ==
  /\ \A x \in Request : /\ Answer(x) \in Line /\ Answer(x).is = "answer"
                        /\ Answer(x).id = x.id /\ Answer(x).req = x.req
                        /\ Answer(x) # Hello /\ Answer(x) # Noise
  /\ \A x, y \in Request : Answer(x) = Answer(y) => x = y
  /\ \A l \in Line : l.is = "answer" =>
       [id |-> l.id, req |-> l.req] \in Request /\ Answer([id |-> l.id, req |-> l.req]) = l
<1>1. \A x \in Request : /\ Answer(x) \in Line /\ Answer(x).is = "answer"
                         /\ Answer(x).id = x.id /\ Answer(x).req = x.req
                         /\ Answer(x) # Hello /\ Answer(x) # Noise
  BY DEF Answer, Line, Request, Hello, Noise
<1>2. \A x, y \in Request : Answer(x) = Answer(y) => x = y
  <2> SUFFICES ASSUME NEW x \in Request, NEW y \in Request, Answer(x) = Answer(y) PROVE x = y
    OBVIOUS
  <2>1. x.id = y.id /\ x.req = y.req
    BY <1>1
  <2> QED  BY <2>1 DEF Request
<1>3. \A l \in Line : l.is = "answer" =>
        [id |-> l.id, req |-> l.req] \in Request /\ Answer([id |-> l.id, req |-> l.req]) = l
  BY DEF Answer, Line, Request
<1> QED  BY <1>1, <1>2, <1>3

\* No child gets a request, carries one out or answers one that it had not
\* answered; a new child has none.
Quietly ==
  /\ \A p \in DOMAIN child :
       /\ p \in DOMAIN child' /\ child'[p].ins = child[p].ins
       /\ \A x \in Request : Said(p, x)' => Said(p, x)
  /\ \A p \in DOMAIN child' : p \notin DOMAIN child => child'[p].ins = <<>> /\ child'[p].outs = <<>>

\* Then the same children have a call before them as before.
LEMMA QuietPending ==
  ASSUME Quietly, NEW r
  PROVE  Pending(r)' = Pending(r)
<1>1. DOMAIN <<>> = {}
  OBVIOUS
<1>2. ASSUME NEW p \in Pending(r)' PROVE p \in Pending(r)
  BY <1>1, <1>2 DEF Quietly, Pending
<1>3. ASSUME NEW p \in Pending(r) PROVE p \in Pending(r)'
  BY <1>3 DEF Quietly, Pending
<1> QED  BY <1>2, <1>3

\* No child has a call that nobody has begun.
LEMMA NoPending ==
  ASSUME PluginInv, NEW r, r \notin DOMAIN runs
  PROVE  Pending(r) = {}
<1> SUFFICES ASSUME NEW p \in DOMAIN child, NEW k \in DOMAIN child[p].ins, child[p].ins[k].req = r
             PROVE  FALSE
  BY DEF Pending
<1>1. child[p].ins[k] \in Request
  BY ProcessFacts DEF PluginInv
<1>2. Known(child[p].ins[k])
  BY DEF Known, Has
<1> QED  BY <1>1, <1>2 DEF PluginInv, IdInv

\* A quiet step of the children keeps what is said of requests and answers, if at most
\* a call begins and no caller starts to wait for an answer.
LEMMA QuietChild ==
  ASSUME PluginInv, Quietly, handle'.next \in Nat, handle'.next >= handle.next,
         runs' = runs \/ runs' = Append(runs, 0),
         \A c \in Caller : At(c, "read")' => caller'[c] = caller[c]
  PROVE  /\ IdInv' /\ OnceInv' /\ SaidInv' /\ CountInv'
         /\ \A r : Pending(r)' = Pending(r)
<1>0. PluginTypes /\ runs \in Seq(Nat) /\ handle.next \in Nat
  BY DEF PluginInv, PluginTypes
<1>1. \A r : Pending(r)' = Pending(r)
  BY QuietPending
<1>2. /\ DOMAIN runs \subseteq DOMAIN runs' /\ \A r \in DOMAIN runs : runs'[r] = runs[r]
      /\ \A r \in DOMAIN runs' : r \notin DOMAIN runs => runs'[r] = 0
  <2>1. CASE runs' = runs
    BY <2>1
  <2>2. CASE runs' = Append(runs, 0)
    <3>1. Len(runs) \in Nat /\ DOMAIN runs = 1..Len(runs)
      BY <1>0
    <3>2. /\ DOMAIN runs' = 1..(Len(runs) + 1) /\ runs'[Len(runs) + 1] = 0
          /\ \A r \in 1..Len(runs) : runs'[r] = runs[r]
      BY <1>0, <2>2, <3>1
    <3>3. \A r \in 1..(Len(runs) + 1) : r \in 1..Len(runs) \/ r = Len(runs) + 1
      BY <3>1
    <3> QED  BY <3>1, <3>2, <3>3
  <2> QED  BY <2>1, <2>2
<1>3. \A x \in Request : Known(x)' => Known(x)
  <2> SUFFICES ASSUME NEW x \in Request, Known(x)' PROVE Known(x)
    OBVIOUS
  <2>1. CASE \E p \in DOMAIN child' : Has(p, x)' \/ Said(p, x)'
    <3>1. PICK p \in DOMAIN child' : Has(p, x)' \/ Said(p, x)'
      BY <2>1
    <3>2. p \in DOMAIN child
      <4>1. DOMAIN <<>> = {}
        OBVIOUS
      <4> QED  BY <3>1, <4>1 DEF Quietly, Has, Said
    <3>3. Has(p, x) \/ Said(p, x)
      BY <3>1, <3>2 DEF Quietly, Has
    <3> QED  BY <3>2, <3>3 DEF Known
  <2>2. CASE \E c \in Caller : Awaits(c, x)'
    BY <2>2 DEF Awaits, At, Known
  <2> QED  BY <2>1, <2>2 DEF Known
<1>4. IdInv'
  <2>1. ASSUME NEW x \in Request, Known(x)' PROVE x.id < handle'.next /\ x.req \in DOMAIN runs'
    <3>1. x.id < handle.next /\ x.req \in DOMAIN runs /\ x.id \in Nat
      BY <1>3, <2>1 DEF PluginInv, IdInv, Request
    <3> QED  BY <1>0, <1>2, <3>1
  <2>2. ASSUME NEW x \in Request, NEW y \in Request, Known(x)', Known(y)', x.id = y.id
        PROVE  x.req = y.req
    BY <1>3, <2>2 DEF PluginInv, IdInv
  <2> QED  BY <2>1, <2>2 DEF IdInv
<1>5. OnceInv'
  <2> SUFFICES ASSUME NEW p \in DOMAIN child', NEW i \in DOMAIN child'[p].ins, NEW j \in DOMAIN child'[p].ins,
                      child'[p].ins[i].req = child'[p].ins[j].req
               PROVE  i = j
    BY DEF OnceInv
  <2>1. p \in DOMAIN child
    <3>1. DOMAIN <<>> = {}
      OBVIOUS
    <3> QED  BY <3>1 DEF Quietly
  <2> QED  BY <2>1 DEF Quietly, PluginInv, OnceInv
<1>6. SaidInv'
  <2> SUFFICES ASSUME NEW p \in DOMAIN child', NEW x \in Request, Said(p, x)'
               PROVE  runs'[x.req] > 0
    BY DEF SaidInv
  <2>1. p \in DOMAIN child
    <3>1. DOMAIN <<>> = {}
      OBVIOUS
    <3> QED  BY <3>1 DEF Quietly, Said
  <2>2. Said(p, x)
    BY <2>1 DEF Quietly
  <2>3. x.req \in DOMAIN runs /\ runs[x.req] > 0
    BY <2>1, <2>2 DEF PluginInv, IdInv, SaidInv, Known
  <2> QED  BY <1>2, <2>3
<1>7. CountInv'
  <2> SUFFICES ASSUME NEW r \in DOMAIN runs' PROVE runs'[r] + Cardinality(Pending(r)) <= Tries
    BY <1>1 DEF CountInv, Tries
  <2>1. CASE r \in DOMAIN runs
    BY <1>2, <2>1 DEF PluginInv, CountInv
  <2>2. CASE r \notin DOMAIN runs
    <3>1. Pending(r) = {}
      BY <2>2, NoPending
    <3>2. Cardinality({}) = 0
      BY FS_EmptySet
    <3>3. runs'[r] = 0
      BY <1>2, <2>2
    <3> QED  BY <3>1, <3>2, <3>3 DEF Tries
  <2> QED  BY <2>1, <2>2
<1> QED  BY <1>1, <1>4, <1>5, <1>6, <1>7

\* Nobody talks to a child while somebody else acts with the lock or without one.
LEMMA OthersWait ==
  ASSUME PluginInv, NEW c \in Caller, lock \in {c, Nobody}, NEW d \in Caller, d # c
  PROVE  caller[d].at \notin Talking
BY PluginAssumption DEF PluginInv, CallerOK

\* A caller that does not act: its call is carried out no more often than there
\* were requests for it, and the process does not get one that has its call.
LEMMA OtherOK ==
  ASSUME PluginInv, NEW d \in Caller, caller'[d] = caller[d],
         caller[d].at \in Talking => lock' = lock /\ handle'.proc = handle.proc,
         DOMAIN child \subseteq DOMAIN child',
         At(d, "hello") => \A p \in DOMAIN child : child[p].ins = <<>> => child'[p].ins = <<>>,
         NEW r, r = caller[d].req,
         r \in DOMAIN runs => r \in DOMAIN runs' /\ runs'[r] >= runs[r] /\ runs'[r] \in Nat,
         Pending(r)' \in SUBSET Pending(r), Cardinality(Pending(r)') \in Nat,
         r \in DOMAIN runs => runs'[r] + Cardinality(Pending(r)') <= runs[r] + Cardinality(Pending(r)),
         At(d, "enter") => handle'.proc = handle.proc \/ handle'.proc \notin Pending(r)
  PROVE  CallerOK(d)'
<1>0. PluginTypes /\ CallerOK(d) /\ runs \in Seq(Nat)
  BY DEF PluginInv, PluginTypes
<1>1. caller[d].at \in Talking => lock' = d /\ handle'.proc = handle.proc
  BY <1>0 DEF CallerOK
<1>2. caller[d].at \in Talking => (caller[d].at \in Talking /\ lock' = d)
  BY <1>1
<1>3. ASSUME ~At(d, "idle")
      PROVE  /\ caller[d].req \in DOMAIN runs' /\ caller[d].tries >= 1
             /\ runs'[r] + Cardinality(Pending(r)') + ToCome(d) <= Tries
  <2>1. r \in DOMAIN runs /\ caller[d].tries >= 1
        /\ runs[r] + Cardinality(Pending(r)) + ToCome(d) <= Tries
    BY <1>0, <1>3 DEF CallerOK
  <2>2. Cardinality(Pending(r)) \in Nat /\ runs[r] \in Nat
    BY <1>0, <2>1, PendingFacts
  <2>3. ToCome(d) \in Int /\ Tries \in Int
    <3>1. caller[d].tries \in Nat
      BY <1>0 DEF PluginTypes, CallState, Tries
    <3> QED  BY <3>1 DEF ToCome, Tries
  <2>4. PICK m \in Nat, n \in Nat, t \in Int, u \in Nat, v \in Nat, w \in Int :
          /\ m = runs[r] /\ n = Cardinality(Pending(r)) /\ t = ToCome(d)
          /\ u = runs'[r] /\ v = Cardinality(Pending(r)') /\ w = Tries
    BY <2>1, <2>2, <2>3
  <2>5. u + v <= m + n /\ m + n + t <= w
    BY <2>1, <2>4
  <2>6. u + v + t <= w
    BY <2>5
  <2> QED  BY <2>1, <2>4, <2>6
<1>4. ToCome(d)' = ToCome(d)
  BY DEF ToCome, Tries
<1>5. At(d, "write") => handle'.proc # 0
  BY <1>0, <1>1 DEF At, Talking, CallerOK
<1>6. caller[d].at \in {"enter", "write"} => handle'.proc \notin Pending(r)'
  BY <1>0, <1>1 DEF At, Talking, CallerOK
<1>7. At(d, "hello") => caller[d].pid \in DOMAIN child' /\ child'[caller[d].pid].ins = <<>>
  BY <1>0 DEF CallerOK
<1>8. At(d, "read") => caller[d].pid \in DOMAIN child'
  BY <1>0 DEF CallerOK
<1>9. caller[d].at \in {"won", "ok"} => caller[d].got = caller[d].req /\ runs'[r] > 0
  <2> SUFFICES ASSUME caller[d].at \in {"won", "ok"}
               PROVE  caller[d].got = caller[d].req /\ runs'[r] > 0
    OBVIOUS
  <2>1. caller[d].got = caller[d].req /\ runs[r] > 0 /\ r \in DOMAIN runs
    BY <1>0 DEF CallerOK, At
  <2> QED  BY <1>0, <2>1
<1>10. Tries' = Tries /\ Pending(caller[d].req)' = Pending(r)'
  BY DEF Tries, Pending
<1> QED  BY <1>1, <1>3, <1>4, <1>5, <1>6, <1>7, <1>8, <1>9, <1>10 DEF CallerOK, At

\* What is left to prove of the step of a caller in the middle of a call, but for
\* the writing of a request.
LEMMA CallerStep ==
  ASSUME PluginInv, NEW c \in Caller, lock \in {c, Nobody}, ~At(c, "idle"),
         \A d \in Caller : d # c => caller'[d] = caller[d],
         caller'[c].req = caller[c].req, caller'[c].at \notin {"idle", "read"},
         Quietly, UNCHANGED runs, handle'.next \in Nat, handle'.next >= handle.next,
         handle'.proc \in {0, handle.proc} \/ child[handle'.proc].ins = <<>>,
         CallerOK(c)'
  PROVE  /\ IdInv' /\ OnceInv' /\ SaidInv' /\ CountInv' /\ Apart'
         /\ \A d \in Caller : CallerOK(d)'
<1>0. PluginTypes
  BY DEF PluginInv
<1>1. /\ IdInv' /\ OnceInv' /\ SaidInv' /\ CountInv'
      /\ \A r : Pending(r)' = Pending(r)
  <2>1. \A d \in Caller : At(d, "read")' => caller'[d] = caller[d]
    BY DEF At
  <2> QED  BY <2>1, QuietChild
<1>2. Apart'
  BY DEF PluginInv, Apart, At
<1>3. ASSUME NEW d \in Caller, d # c PROVE CallerOK(d)'
  <2>1. caller[d].at \notin Talking
    BY <1>3, OthersWait
  <2>2. PICK r : r = caller[d].req
    OBVIOUS
  <2>3. Pending(r)' = Pending(r) /\ Cardinality(Pending(r)) \in Nat
    BY <1>0, <1>1, PendingFacts
  <2>4. r \in DOMAIN runs => r \in DOMAIN runs' /\ runs'[r] = runs[r] /\ runs[r] \in Nat
    BY <1>0 DEF PluginTypes
  <2>5. handle'.proc = handle.proc \/ handle'.proc \notin Pending(r)
    <3>1. CASE handle'.proc = 0
      BY <1>0, <3>1, ProcessFacts DEF Pending
    <3>2. CASE child[handle'.proc].ins = <<>>
      <4>1. DOMAIN <<>> = {}
        OBVIOUS
      <4> QED  BY <3>2, <4>1 DEF Pending
    <3> QED  BY <3>1, <3>2
  <2>6. ~At(d, "hello")
    BY <2>1 DEF At, Talking
  <2>7. DOMAIN child \subseteq DOMAIN child'
    BY DEF Quietly
  <2>8. Pending(r)' \in SUBSET Pending(r) /\ Cardinality(Pending(r)') \in Nat
    BY <2>3
  <2>9. r \in DOMAIN runs => runs'[r] >= runs[r] /\ runs'[r] \in Nat
          /\ runs'[r] + Cardinality(Pending(r)') <= runs[r] + Cardinality(Pending(r))
    BY <2>3, <2>4
  <2> HIDE DEF Pending
  <2> QED  BY <1>3, <2>1, <2>2, <2>4, <2>5, <2>6, <2>7, <2>8, <2>9, OtherOK
<1> QED  BY <1>1, <1>2, <1>3

\* The state of a caller after a step of its own.
LEMMA CallerMoves ==
  ASSUME PluginTypes, NEW c \in Caller, NEW s, s \in CallState, caller' = [caller EXCEPT ![c] = s]
  PROVE  /\ caller' \in [Caller -> CallState] /\ caller'[c] = s
         /\ \A d \in Caller : d # c => caller'[d] = caller[d]
BY DEF PluginTypes

\* A caller that goes elsewhere.
LEMMA CallerGoes ==
  ASSUME PluginTypes, NEW c \in Caller, NEW where, Goes(c, where),
         where \in Talking \cup {"idle", "enter", "won", "lost", "ok", "failed"}
  PROVE  /\ caller' \in [Caller -> CallState]
         /\ caller'[c].at = where /\ caller'[c].req = caller[c].req /\ caller'[c].tries = caller[c].tries
         /\ caller'[c].id = caller[c].id /\ caller'[c].pid = caller[c].pid /\ caller'[c].got = caller[c].got
         /\ \A d \in Caller : d # c => caller'[d] = caller[d]
<1>1. caller \in [Caller -> CallState] /\ caller' = [caller EXCEPT ![c].at = where]
  BY DEF PluginTypes, Goes
<1>2. PICK s : s = [caller[c] EXCEPT !.at = where]
  OBVIOUS
<1>3. caller' = [caller EXCEPT ![c] = s]
  BY <1>1, <1>2
<1>4. s \in CallState /\ s.at = where /\ s.req = caller[c].req /\ s.tries = caller[c].tries
      /\ s.id = caller[c].id /\ s.pid = caller[c].pid /\ s.got = caller[c].got
  BY <1>1, <1>2 DEF CallState
<1> QED  BY <1>3, <1>4, CallerMoves

\* A child that has the requests it had, and no answer more.
LEMMA OneChild ==
  ASSUME PluginTypes, NEW p \in DOMAIN child, NEW q \in Process, child' = [child EXCEPT ![p] = q],
         q.ins = child[p].ins,
         \A k \in DOMAIN q.outs : q.outs[k].is = "answer" =>
           \E j \in DOMAIN child[p].outs : child[p].outs[j] = q.outs[k]
  PROVE  /\ child' \in Seq(Process) /\ Len(child') = Len(child) /\ DOMAIN child' = DOMAIN child
         /\ Quietly /\ child'[p] = q
<1>1. child \in Seq(Process)
  BY DEF PluginTypes
<1>2. child' \in Seq(Process) /\ Len(child') = Len(child) /\ DOMAIN child' = DOMAIN child
      /\ child'[p] = q /\ \A o \in DOMAIN child : o # p => child'[o] = child[o]
  BY <1>1
<1>3. ASSUME NEW x \in Request, \E k \in DOMAIN q.outs : q.outs[k] = Answer(x)
      PROVE  Said(p, x)
  <2>1. PICK k \in DOMAIN q.outs : q.outs[k] = Answer(x)
    BY <1>3
  <2>2. q.outs[k].is = "answer"
    BY <2>1, AnswerFacts
  <2> QED  BY <2>1, <2>2 DEF Said
<1> QED  BY <1>2, <1>3 DEF Quietly, Said

\* A child that is let go.
LEMMA ClosedFacts ==
  ASSUME PluginTypes, NEW p \in DOMAIN child, child' = Closed(p)
  PROVE  /\ child' \in Seq(Process) /\ Len(child') = Len(child) /\ DOMAIN child' = DOMAIN child /\ Quietly
<1>1. child[p] \in Process
  BY ProcessFacts
<1> DEFINE a == child[p].alive /\ child[p].ins # <<>>
<1>2. a \in BOOLEAN
  OBVIOUS
<1>3. child' = [child EXCEPT ![p] = [alive |-> a, ready |-> TRUE, ins |-> child[p].ins,
                                     outs |-> <<>>, eof |-> TRUE]]
  BY DEF Closed
<1> HIDE DEF a
<1> DEFINE q == [alive |-> a, ready |-> TRUE, ins |-> child[p].ins, outs |-> <<>>, eof |-> TRUE]
<1>4. q \in Process /\ q.ins = child[p].ins /\ q.outs = <<>>
  BY <1>1, <1>2 DEF Process
<1>5. DOMAIN <<>> = {}
  OBVIOUS
<1> HIDE DEF q
<1>6. child' = [child EXCEPT ![p] = q]
  BY <1>3 DEF q
<1> QED  BY <1>4, <1>5, <1>6, OneChild

\* A child whose first line is read.
LEMMA LineRead ==
  ASSUME PluginTypes, NEW p \in DOMAIN child, child[p].outs # <<>>,
         child' = [child EXCEPT ![p].outs = Tail(@)]
  PROVE  /\ child' \in Seq(Process) /\ Len(child') = Len(child) /\ DOMAIN child' = DOMAIN child /\ Quietly
         /\ child'[p].ins = child[p].ins
         /\ Head(child[p].outs) = child[p].outs[1] /\ 1 \in DOMAIN child[p].outs
<1>1. child[p] \in Process /\ child[p].outs \in Seq(Line)
  BY ProcessFacts
<1> DEFINE q == [child[p] EXCEPT !.outs = Tail(child[p].outs)]
<1>2. Tail(child[p].outs) \in Seq(Line) /\ Head(child[p].outs) = child[p].outs[1] /\ 1 \in DOMAIN child[p].outs
  BY <1>1
<1>3. q \in Process /\ q.ins = child[p].ins /\ q.outs = Tail(child[p].outs)
  BY <1>1, <1>2 DEF Process
<1>4. child' = [child EXCEPT ![p] = q]
  OBVIOUS
<1> HIDE DEF q
<1>5. \A k \in DOMAIN q.outs : \E j \in DOMAIN child[p].outs : child[p].outs[j] = q.outs[k]
  <2> SUFFICES ASSUME NEW k \in DOMAIN Tail(child[p].outs)
               PROVE  k + 1 \in DOMAIN child[p].outs /\ child[p].outs[k + 1] = Tail(child[p].outs)[k]
    BY <1>3
  <2> QED  BY <1>1
<1>6. /\ child' \in Seq(Process) /\ Len(child') = Len(child) /\ DOMAIN child' = DOMAIN child
      /\ Quietly /\ child'[p] = q
  BY <1>3, <1>4, <1>5, OneChild
<1> QED  BY <1>2, <1>3, <1>6

\* Nothing is said.
LEMMA SilentFacts ==
  ASSUME UNCHANGED child
  PROVE  Quietly
BY DEF Quietly, Said

\* All that is left to prove of the step of a caller but for the writing of a request.
LEMMA TalkStep ==
  ASSUME PluginInv, NEW c \in Caller, lock \in {c, Nobody}, lock' \in {c, Nobody}, ~At(c, "idle"),
         caller' \in [Caller -> CallState], \A d \in Caller : d # c => caller'[d] = caller[d],
         caller'[c].req = caller[c].req, caller'[c].tries >= 1, caller'[c].at \notin {"idle", "read"},
         Quietly, child' \in Seq(Process), UNCHANGED runs,
         handle' = [next |-> handle'.next, proc |-> handle'.proc, crashes |-> handle'.crashes,
                    until |-> handle'.until],
         handle'.next \in Nat, handle'.next >= handle.next, handle'.proc \in 0..Len(child'),
         handle'.proc \in {0, handle.proc} \/ child[handle'.proc].ins = <<>>,
         ToCome(c)' <= ToCome(c),
         caller'[c].at \in Talking => lock' = c,
         caller'[c].at = "write" => handle'.proc # 0,
         caller'[c].at \in {"enter", "write"} => handle'.proc \notin Pending(caller[c].req),
         caller'[c].at = "hello" => caller'[c].pid \in DOMAIN child' /\ child'[caller'[c].pid].ins = <<>>,
         caller'[c].at \in {"won", "ok"} =>
           caller'[c].got = caller[c].req /\ runs[caller[c].req] > 0
  PROVE  PluginInv'
<1>0. PluginTypes /\ CallerOK(c) /\ CallState' = CallState
  BY DEF PluginInv, CallState, Tries
<1>1. PluginTypes'
  BY <1>0 DEF PluginTypes
<1>2. PICK r : r = caller[c].req
  OBVIOUS
<1>3. Pending(caller[c].req)' = Pending(r)
  <2>1. Pending(caller[c].req)' = Pending(r)'
    BY <1>2 DEF Pending
  <2> QED  BY <2>1, QuietPending
<1>4. r \in DOMAIN runs /\ runs[r] + Cardinality(Pending(r)) + ToCome(c) <= Tries
  BY <1>0, <1>2 DEF CallerOK
<1>5. runs[r] + Cardinality(Pending(r)) + ToCome(c)' <= Tries
  <2>1. Cardinality(Pending(r)) \in Nat /\ runs[r] \in Nat
    BY <1>0, <1>4, PendingFacts DEF PluginTypes
  <2>2. caller[c].tries \in Nat /\ caller'[c].tries \in Nat
    BY <1>0 DEF PluginTypes, CallState, Tries
  <2>3. ToCome(c) \in Int /\ ToCome(c)' \in Int /\ Tries \in Int
    BY <2>2 DEF ToCome, Tries
  <2> HIDE DEF ToCome, Tries
  <2> QED  BY <1>4, <2>1, <2>3
<1>6. CallerOK(c)'
  BY <1>2, <1>3, <1>4, <1>5 DEF CallerOK, At, Tries
<1>7. /\ IdInv' /\ OnceInv' /\ SaidInv' /\ CountInv' /\ Apart'
      /\ \A d \in Caller : CallerOK(d)'
  BY <1>6, CallerStep
<1> QED  BY <1>1, <1>7 DEF PluginInv

\* A call enters, and takes the process there is or starts one, or fails at once.
LEMMA EntersStep ==
  ASSUME PluginInv, NEW c \in Caller, CallEnters(c)
  PROVE  PluginInv'
<1>0. PluginTypes /\ CallerOK(c) /\ At(c, "enter") /\ lock = Nobody /\ UNCHANGED runs
  BY DEF PluginInv, CallEnters
<1>1. caller[c] \in CallState /\ caller[c].tries >= 1 /\ caller[c].tries \in Nat
  BY <1>0 DEF PluginTypes, CallerOK, CallState, Tries, At
<1>2. handle = [next |-> handle.next, proc |-> handle.proc, crashes |-> handle.crashes, until |-> handle.until]
      /\ handle.next \in Nat /\ handle.proc \in 0..Len(child) /\ child \in Seq(Process)
  BY <1>0 DEF PluginTypes
<1>3. handle.proc \notin Pending(caller[c].req)
  BY <1>0 DEF CallerOK, At
<1>4. CASE /\ handle.proc # 0
           /\ lock' = c /\ Goes(c, "write") /\ UNCHANGED <<handle, child>>
  <2>1. /\ caller' \in [Caller -> CallState]
        /\ caller'[c].at = "write" /\ caller'[c].req = caller[c].req /\ caller'[c].tries = caller[c].tries
        /\ \A d \in Caller : d # c => caller'[d] = caller[d]
    BY <1>0, <1>4, CallerGoes DEF Talking
  <2>2. ToCome(c)' <= ToCome(c)
    BY <1>0, <1>1, <2>1 DEF ToCome, At, Tries
  <2>3. Quietly
    BY <1>4, SilentFacts
  <2> QED  BY <1>0, <1>1, <1>2, <1>3, <1>4, <2>1, <2>2, <2>3, TalkStep DEF At
<1>5. CASE Goes(c, "failed") /\ UNCHANGED <<handle, lock, child>>
  <2>1. /\ caller' \in [Caller -> CallState]
        /\ caller'[c].at = "failed" /\ caller'[c].req = caller[c].req /\ caller'[c].tries = caller[c].tries
        /\ \A d \in Caller : d # c => caller'[d] = caller[d]
    BY <1>0, <1>5, CallerGoes DEF Talking
  <2>2. ToCome(c)' <= ToCome(c)
    BY <1>0, <1>1, <2>1 DEF ToCome, At, Tries, PluginTypes, CallState
  <2>3. Quietly
    BY <1>5, SilentFacts
  <2> QED  BY <1>0, <1>1, <1>2, <1>5, <2>1, <2>2, <2>3, TalkStep DEF At, Talking
<1>6. CASE /\ handle.proc = 0
           /\ handle' = [handle EXCEPT !.until = 0]
           /\ lock' = c
           /\ child' = Append(child, [alive |-> TRUE, ready |-> FALSE, ins |-> <<>>, outs |-> <<>>, eof |-> FALSE])
           /\ caller' = [caller EXCEPT ![c].at = "hello", ![c].pid = Len(child) + 1]
  <2> DEFINE q == [alive |-> TRUE, ready |-> FALSE, ins |-> <<>>, outs |-> <<>>, eof |-> FALSE]
  <2> DEFINE s == [caller[c] EXCEPT !.at = "hello", !.pid = Len(child) + 1]
  <2>1. q \in Process /\ q.ins = <<>> /\ q.outs = <<>>
    BY DEF Process
  <2>2. Len(child) \in Nat /\ DOMAIN child = 1..Len(child)
    BY <1>0, ProcessFacts
  <2>3. s \in CallState /\ s.at = "hello" /\ s.pid = Len(child) + 1 /\ s.req = caller[c].req
        /\ s.tries = caller[c].tries
    <3> DEFINE n == Len(child) + 1
    <3>1. n \in Nat
      BY <2>2
    <3> HIDE DEF n
    <3>2. [caller[c] EXCEPT !.at = "hello", !.pid = n] \in CallState
      BY <1>1, <3>1 DEF CallState, Talking
    <3>3. s \in CallState
      BY <3>2 DEF n
    <3> QED  BY <1>1, <3>3 DEF CallState
  <2>4. caller' = [caller EXCEPT ![c] = s]
    BY <1>6
  <2>5. child' = Append(child, q)
    BY <1>6
  <2> HIDE DEF q, s
  <2>6. /\ child' \in Seq(Process) /\ Len(child') = Len(child) + 1 /\ DOMAIN child' = 1..(Len(child) + 1)
        /\ child'[Len(child) + 1] = q /\ \A p \in DOMAIN child : child'[p] = child[p]
    BY <1>2, <2>1, <2>2, <2>5
  <2>7. Quietly
    <3>1. \A p \in 1..(Len(child) + 1) : p \notin 1..Len(child) => p = Len(child) + 1
      BY <2>2
    <3>2. \A p \in DOMAIN child : p \in DOMAIN child'
      BY <2>2, <2>6
    <3> QED  BY <2>1, <2>2, <2>6, <3>1, <3>2 DEF Quietly, Said
  <2>8. caller' \in [Caller -> CallState] /\ caller'[c] = s
        /\ \A d \in Caller : d # c => caller'[d] = caller[d]
    BY <1>0, <2>3, <2>4, CallerMoves
  <2>9. ToCome(c)' <= ToCome(c)
    BY <1>0, <1>1, <2>3, <2>8 DEF ToCome, At, Tries
  <2>10. handle' = [next |-> handle.next, proc |-> 0, crashes |-> handle.crashes, until |-> 0]
    BY <1>2, <1>6
  <2>11. s.pid \in DOMAIN child' /\ child'[s.pid].ins = <<>>
    BY <2>1, <2>2, <2>3, <2>6
  <2>12. handle'.next = handle.next /\ handle'.proc = 0 /\ 0 \in 0..Len(child')
         /\ handle' = [next |-> handle'.next, proc |-> handle'.proc, crashes |-> handle'.crashes, until |-> handle'.until]
    BY <2>2, <2>6, <2>10
  <2>13. lock' = c
    BY <1>6
  <2> QED  BY <1>0, <1>1, <1>2, <2>3, <2>6, <2>7, <2>8, <2>9, <2>11, <2>12, <2>13, TalkStep DEF At
<1> QED  BY <1>4, <1>5, <1>6 DEF CallEnters

\* What is known of a caller in the middle of a call.
LEMMA InCall ==
  ASSUME PluginInv, NEW c \in Caller, ~At(c, "idle")
  PROVE  /\ PluginTypes /\ CallerOK(c) /\ caller[c] \in CallState
         /\ caller[c].tries \in 1..Tries /\ Tries \in Nat
         /\ handle = [next |-> handle.next, proc |-> handle.proc, crashes |-> handle.crashes,
                      until |-> handle.until]
         /\ handle.next \in Nat /\ handle.proc \in 0..Len(child) /\ child \in Seq(Process)
         /\ Len(child) \in Nat /\ DOMAIN child = 1..Len(child)
         /\ caller[c].at \in Talking => lock = c
<1>1. PluginTypes /\ CallerOK(c)
  BY DEF PluginInv
<1>2. caller[c] \in CallState /\ caller[c].tries >= 1 /\ Tries \in Nat
  BY <1>1 DEF PluginTypes, CallerOK, Tries
<1>3. caller[c].tries \in 1..Tries
  BY <1>2 DEF CallState
<1> QED  BY <1>1, <1>2, <1>3, ProcessFacts DEF PluginTypes, CallerOK

\* A call that goes elsewhere without a change of the handle but for its times.
LEMMA GoesStep ==
  ASSUME PluginInv, NEW c \in Caller, lock \in {c, Nobody}, lock' \in {c, Nobody}, ~At(c, "idle"),
         NEW where \in {"failed", "ok", "lost"}, Goes(c, where),
         where = "lost" => caller[c].at \in {"hello", "write", "read"},
         where = "ok" => At(c, "won"),
         Quietly, child' \in Seq(Process), Len(child') = Len(child), UNCHANGED runs,
         handle' = [next |-> handle'.next, proc |-> handle'.proc, crashes |-> handle'.crashes,
                    until |-> handle'.until],
         handle'.next \in {handle.next, handle.next + 1}, handle'.proc = handle.proc
  PROVE  PluginInv'
<1>1. /\ PluginTypes /\ CallerOK(c) /\ caller[c].tries \in 1..Tries /\ Tries \in Nat
      /\ handle.next \in Nat /\ handle.proc \in 0..Len(child)
  BY InCall
<1>2. /\ caller' \in [Caller -> CallState]
      /\ caller'[c].at = where /\ caller'[c].req = caller[c].req /\ caller'[c].tries = caller[c].tries
      /\ caller'[c].got = caller[c].got
      /\ \A d \in Caller : d # c => caller'[d] = caller[d]
  BY <1>1, CallerGoes
<1>3. ToCome(c)' <= ToCome(c)
  BY <1>1, <1>2 DEF ToCome, Tries
<1>4. where = "ok" => caller[c].got = caller[c].req /\ runs[caller[c].req] > 0
  BY <1>1 DEF CallerOK, At
<1>5. handle'.next \in Nat /\ handle'.next >= handle.next
  BY <1>1
<1>6. caller'[c].tries >= 1
  BY <1>1, <1>2
<1> QED  BY <1>1, <1>2, <1>3, <1>4, <1>5, <1>6, TalkStep DEF Talking

\* No process can be started.
LEMMA CannotSpawnStep ==
  ASSUME PluginInv, NEW c \in Caller, CallCannotSpawn(c)
  PROVE  PluginInv'
<1>1. At(c, "enter") /\ ~At(c, "idle") /\ lock = Nobody /\ Goes(c, "failed") /\ UNCHANGED <<lock, child, runs>>
      /\ handle' = [handle EXCEPT !.until = 0]
  BY DEF CallCannotSpawn, At
<1>2. handle = [next |-> handle.next, proc |-> handle.proc, crashes |-> handle.crashes, until |-> handle.until]
      /\ child \in Seq(Process)
  BY <1>1, InCall
<1>3. handle' = [next |-> handle.next, proc |-> handle.proc, crashes |-> handle.crashes, until |-> 0]
  BY <1>1, <1>2
<1>4. handle'.next = handle.next /\ handle'.proc = handle.proc
      /\ handle' = [next |-> handle'.next, proc |-> handle'.proc, crashes |-> handle'.crashes, until |-> handle'.until]
  BY <1>3
<1>5. Quietly
  BY <1>1, SilentFacts
<1> QED  BY <1>1, <1>2, <1>4, <1>5, GoesStep

\* The hello: the process is taken, or let go.
LEMMA GreetedStep ==
  ASSUME PluginInv, NEW c \in Caller, CallGreeted(c)
  PROVE  PluginInv'
<1>1. At(c, "hello") /\ ~At(c, "idle") /\ UNCHANGED runs
  BY DEF CallGreeted, At
<1>2. PICK p : p = caller[c].pid
  OBVIOUS
<1>3. /\ PluginTypes /\ CallerOK(c) /\ caller[c].tries \in 1..Tries /\ Tries \in Nat
      /\ handle = [next |-> handle.next, proc |-> handle.proc, crashes |-> handle.crashes, until |-> handle.until]
      /\ handle.next \in Nat /\ handle.proc \in 0..Len(child)
      /\ Len(child) \in Nat /\ DOMAIN child = 1..Len(child) /\ lock = c
  BY <1>1, InCall DEF At, Talking
<1>4. p \in DOMAIN child /\ child[p].ins = <<>>
  BY <1>1, <1>2, <1>3 DEF CallerOK
<1>5. CASE /\ child[p].outs # <<>>
           /\ child' = [child EXCEPT ![p].outs = Tail(@)]
           /\ handle' = [handle EXCEPT !.proc = p] /\ Goes(c, "write") /\ UNCHANGED lock
  <2>1. child' \in Seq(Process) /\ Len(child') = Len(child) /\ Quietly /\ DOMAIN child' = DOMAIN child
    BY <1>3, <1>4, <1>5, LineRead
  <2>2. handle' = [next |-> handle.next, proc |-> p, crashes |-> handle.crashes, until |-> handle.until]
    BY <1>3, <1>5
  <2>3. /\ handle'.next = handle.next /\ handle'.proc = p /\ p # 0 /\ p \in 0..Len(child')
        /\ handle' = [next |-> handle'.next, proc |-> handle'.proc, crashes |-> handle'.crashes, until |-> handle'.until]
    BY <1>3, <1>4, <2>1, <2>2
  <2>4. p \notin Pending(caller[c].req)
    <3>1. DOMAIN <<>> = {}
      OBVIOUS
    <3> QED  BY <1>4, <3>1 DEF Pending
  <2>5. /\ caller' \in [Caller -> CallState]
        /\ caller'[c].at = "write" /\ caller'[c].req = caller[c].req /\ caller'[c].tries = caller[c].tries
        /\ \A d \in Caller : d # c => caller'[d] = caller[d]
    BY <1>3, <1>5, CallerGoes DEF Talking
  <2>6. ToCome(c)' <= ToCome(c) /\ caller'[c].tries >= 1
    BY <1>1, <1>3, <2>5 DEF ToCome, At, Tries
  <2>7. handle'.next >= handle.next /\ handle'.next \in Nat
    BY <1>3, <2>3
  <2> QED  BY <1>1, <1>3, <1>4, <1>5, <2>1, <2>3, <2>4, <2>5, <2>6, <2>7, TalkStep
<1>6. CASE /\ child' = Closed(p) /\ lock' = Nobody /\ (Goes(c, "failed") \/ Goes(c, "lost"))
           /\ UNCHANGED handle
  <2>1. child' \in Seq(Process) /\ Len(child') = Len(child) /\ Quietly
    BY <1>3, <1>4, <1>6, ClosedFacts
  <2>2. caller[c].at \in {"hello", "write", "read"}
    BY <1>1 DEF At
  <2> QED  BY <1>1, <1>3, <1>6, <2>1, <2>2, GoesStep
<1> QED  BY <1>2, <1>5, <1>6 DEF CallGreeted

\* The deadline has passed.
LEMMA TimesOutStep ==
  ASSUME PluginInv, NEW c \in Caller, CallTimesOut(c)
  PROVE  PluginInv'
<1>1. caller[c].at \in {"hello", "read"} /\ ~At(c, "idle") /\ lock' = Nobody /\ Goes(c, "lost")
      /\ UNCHANGED <<handle, runs>>
  BY DEF CallTimesOut, At
<1>2. PluginTypes /\ CallerOK(c) /\ lock = c /\ child \in Seq(Process)
      /\ handle = [next |-> handle.next, proc |-> handle.proc, crashes |-> handle.crashes, until |-> handle.until]
  BY <1>1, InCall DEF Talking
<1>3. caller[c].pid \in DOMAIN child
  BY <1>1, <1>2 DEF CallerOK, At
<1>4. child' \in Seq(Process) /\ Len(child') = Len(child) /\ Quietly
  BY <1>2, <1>3, ClosedFacts, SilentFacts DEF CallTimesOut
<1> QED  BY <1>1, <1>2, <1>4, GoesStep

\* The call was answered: the failures are forgotten.
LEMMA WonStep ==
  ASSUME PluginInv, NEW c \in Caller, CallWon(c)
  PROVE  PluginInv'
<1>1. At(c, "won") /\ ~At(c, "idle") /\ lock = Nobody /\ Goes(c, "ok") /\ UNCHANGED <<lock, child, runs>>
      /\ handle' = [handle EXCEPT !.crashes = 0, !.until = 0]
  BY DEF CallWon, At
<1>2. handle = [next |-> handle.next, proc |-> handle.proc, crashes |-> handle.crashes, until |-> handle.until]
      /\ child \in Seq(Process)
  BY <1>1, InCall
<1>3. handle' = [next |-> handle.next, proc |-> handle.proc, crashes |-> 0, until |-> 0]
  BY <1>1, <1>2
<1>4. handle'.next = handle.next /\ handle'.proc = handle.proc
      /\ handle' = [next |-> handle'.next, proc |-> handle'.proc, crashes |-> handle'.crashes, until |-> handle'.until]
  BY <1>3
<1>5. Quietly
  BY <1>1, SilentFacts
<1> QED  BY <1>1, <1>2, <1>4, <1>5, GoesStep

\* The line that was read is the answer, or it is not, or there is none any more.
LEMMA ReadsStep ==
  ASSUME PluginInv, NEW c \in Caller, CallReads(c)
  PROVE  PluginInv'
<1>1. At(c, "read") /\ ~At(c, "idle") /\ lock' = Nobody /\ UNCHANGED <<handle, runs>>
  BY DEF CallReads, At
<1>2. PICK p, o : p = caller[c].pid /\ o = child[p].outs
  OBVIOUS
<1>3. /\ PluginTypes /\ CallerOK(c) /\ caller[c] \in CallState /\ caller[c].tries \in 1..Tries /\ Tries \in Nat
      /\ handle = [next |-> handle.next, proc |-> handle.proc, crashes |-> handle.crashes, until |-> handle.until]
      /\ handle.next \in Nat /\ handle.proc \in 0..Len(child) /\ child \in Seq(Process)
      /\ lock = c
  BY <1>1, InCall DEF At, Talking
<1>4. p \in DOMAIN child
  BY <1>1, <1>2, <1>3 DEF CallerOK
<1>5. child' = IF o = <<>> THEN child ELSE [child EXCEPT ![p].outs = Tail(@)]
  BY <1>2 DEF CallReads
<1>6. child' \in Seq(Process) /\ Len(child') = Len(child) /\ Quietly
  BY <1>2, <1>3, <1>4, <1>5, SilentFacts, LineRead
<1>7. CASE /\ o # <<>> /\ IsAnswer(Head(o), c)
           /\ caller' = [caller EXCEPT ![c].at = "won", ![c].got = Head(o).req]
  <2> DEFINE x == [id |-> Head(o).id, req |-> Head(o).req]
  <2> DEFINE y == [id |-> caller[c].id, req |-> caller[c].req]
  <2>1. Head(o) = child[p].outs[1] /\ 1 \in DOMAIN child[p].outs /\ Head(o) \in Line
    BY <1>2, <1>3, <1>4, <1>7, ProcessFacts
  <2>2. x \in Request /\ Answer(x) = Head(o) /\ Head(o).req \in Nat
    BY <1>7, <2>1, AnswerFacts DEF IsAnswer, Line
  <2>3. y \in Request
    BY <1>3 DEF CallState, Request
  <2>4. Said(p, x) /\ Known(x)
    BY <1>4, <2>1, <2>2 DEF Said, Known
  <2>5. Known(y)
    BY <1>1 DEF Known, Awaits
  <2>6. x.id = y.id
    BY <1>7 DEF IsAnswer
  <2>7. Head(o).req = caller[c].req
    BY <2>2, <2>3, <2>4, <2>5, <2>6 DEF PluginInv, IdInv
  <2>8. runs[caller[c].req] > 0
    BY <1>4, <2>2, <2>4, <2>7 DEF PluginInv, SaidInv
  <2> DEFINE s == [caller[c] EXCEPT !.at = "won", !.got = Head(o).req]
  <2>9. s \in CallState /\ s.at = "won" /\ s.req = caller[c].req /\ s.tries = caller[c].tries
        /\ s.got = Head(o).req
    BY <1>3, <2>2 DEF CallState
  <2>10. caller' = [caller EXCEPT ![c] = s]
    BY <1>7
  <2> HIDE DEF s, x, y
  <2>11. caller' \in [Caller -> CallState] /\ caller'[c] = s
         /\ \A d \in Caller : d # c => caller'[d] = caller[d]
    BY <1>3, <2>9, <2>10, CallerMoves
  <2>12. ToCome(c)' <= ToCome(c) /\ caller'[c].tries >= 1
    BY <1>1, <1>3, <2>9, <2>11 DEF ToCome, At, Tries
  <2> QED  BY <1>1, <1>3, <1>6, <2>7, <2>8, <2>9, <2>11, <2>12, TalkStep DEF Talking
<1>8. CASE Goes(c, "failed") \/ Goes(c, "lost")
  <2>1. caller[c].at \in {"hello", "write", "read"}
    BY <1>1 DEF At
  <2> QED  BY <1>1, <1>3, <1>6, <1>8, <2>1, GoesStep
<1> QED  BY <1>2, <1>7, <1>8 DEF CallReads

\* A transport error: whichever process is there is let go, and there is one more
\* try, or none.
LEMMA LostStep ==
  ASSUME PluginInv, NEW c \in Caller, CallLost(c)
  PROVE  PluginInv'
<1>1. At(c, "lost") /\ ~At(c, "idle") /\ lock = Nobody /\ handle' = Crashed(handle) /\ UNCHANGED <<lock, runs>>
      /\ child' = IF handle.proc = 0 THEN child ELSE Closed(handle.proc)
  BY DEF CallLost, At
<1>2. /\ PluginTypes /\ caller[c] \in CallState /\ caller[c].tries \in 1..Tries /\ Tries \in Nat
      /\ handle = [next |-> handle.next, proc |-> handle.proc, crashes |-> handle.crashes, until |-> handle.until]
      /\ handle.next \in Nat /\ handle.proc \in 0..Len(child) /\ child \in Seq(Process)
      /\ Len(child) \in Nat /\ DOMAIN child = 1..Len(child)
  BY <1>1, InCall
<1>3. \E k, u : handle' = [next |-> handle.next, proc |-> 0, crashes |-> k, until |-> u]
  <2> DEFINE k == handle.crashes + 1
  <2> DEFINE u == IF handle.crashes + 1 >= 3 THEN clock + CoolOff(handle.crashes + 1) ELSE handle.until
  <2>1. handle' = [handle EXCEPT !.crashes = k, !.proc = 0, !.until = u]
    BY <1>1 DEF Crashed
  <2> HIDE DEF k, u
  <2>2. handle' = [next |-> handle.next, proc |-> 0, crashes |-> k, until |-> u]
    BY <1>2, <2>1
  <2> QED  BY <2>2
<1>4. handle'.next = handle.next /\ handle'.proc = 0
      /\ handle' = [next |-> handle'.next, proc |-> handle'.proc, crashes |-> handle'.crashes, until |-> handle'.until]
  BY <1>3
<1>5. child' \in Seq(Process) /\ Len(child') = Len(child) /\ Quietly
  <2>1. CASE handle.proc = 0
    BY <1>1, <1>2, <2>1, SilentFacts
  <2>2. CASE handle.proc # 0
    <3>1. handle.proc \in DOMAIN child
      BY <1>2, <2>2
    <3> QED  BY <1>1, <1>2, <2>2, <3>1, ClosedFacts
  <2> QED  BY <2>1, <2>2
<1>6. PICK s \in CallState :
        /\ caller' = [caller EXCEPT ![c] = s] /\ s.req = caller[c].req /\ s.tries >= 1
        /\ \/ s.at = "enter" /\ s.tries = 2 /\ caller[c].tries = 1 /\ Tries = 2
           \/ s.at = "failed"
  <2>1. CASE TriesAgain(c)
    <3> DEFINE s == [caller[c] EXCEPT !.at = "enter", !.tries = caller[c].tries + 1]
    <3>1. caller[c].tries = 1 /\ Tries = 2
      BY <2>1 DEF TriesAgain, Tries
    <3>2. 2 \in 0..Tries /\ caller[c].tries + 1 = 2
      BY <3>1
    <3>3. s \in CallState /\ s.at = "enter" /\ s.tries = 2 /\ s.req = caller[c].req
      BY <1>2, <3>2 DEF CallState
    <3>4. caller' = [caller EXCEPT ![c] = s]
      BY <2>1 DEF CallLost
    <3>5. s.tries >= 1
      BY <3>3
    <3> HIDE DEF s
    <3> QED  BY <3>1, <3>3, <3>4, <3>5
  <2>2. CASE ~TriesAgain(c)
    <3> DEFINE s == [caller[c] EXCEPT !.at = "failed"]
    <3>1. s \in CallState /\ s.at = "failed" /\ s.tries = caller[c].tries /\ s.req = caller[c].req
      BY <1>2 DEF CallState
    <3>2. caller' = [caller EXCEPT ![c] = s]
      BY <2>2 DEF CallLost, Goes
    <3>3. s.tries >= 1
      BY <1>2, <3>1
    <3> HIDE DEF s
    <3> QED  BY <3>1, <3>2, <3>3
  <2> QED  BY <2>1, <2>2
<1>7. caller' \in [Caller -> CallState] /\ caller'[c] = s
      /\ \A d \in Caller : d # c => caller'[d] = caller[d]
  BY <1>2, <1>6, CallerMoves
<1>8. ToCome(c)' <= ToCome(c)
  <2>1. ToCome(c) = Tries - caller[c].tries
    BY <1>1 DEF ToCome, At
  <2>2. ToCome(c)' = IF s.at = "enter" THEN Tries - s.tries + 1 ELSE 0
    BY <1>6, <1>7 DEF ToCome, Tries
  <2> QED  BY <1>2, <1>6, <2>1, <2>2
<1>9. 0 \notin Pending(caller[c].req)
  BY <1>2 DEF Pending
<1> QED  BY <1>1, <1>2, <1>4, <1>5, <1>6, <1>7, <1>8, <1>9, TalkStep DEF Talking

\* A caller at rest is nowhere.
LEMMA IdleOK ==
  ASSUME NEW c \in Caller, caller'[c].at = "idle"
  PROVE  CallerOK(c)'
BY DEF CallerOK, At, Talking

\* Callers, while nobody gets a request and the lock and the handle stay.
LEMMA QuietOther ==
  ASSUME PluginInv, Quietly, UNCHANGED <<handle, lock>>, runs' = runs \/ runs' = Append(runs, 0),
         NEW d \in Caller, caller'[d] = caller[d]
  PROVE  CallerOK(d)'
<1>1. PICK r : r = caller[d].req
  OBVIOUS
<1>2. PluginTypes /\ runs \in Seq(Nat)
  BY DEF PluginInv, PluginTypes
<1>3. Pending(r)' = Pending(r) /\ Cardinality(Pending(r)) \in Nat
  BY <1>2, PendingFacts, QuietPending
<1>4. r \in DOMAIN runs => r \in DOMAIN runs' /\ runs'[r] = runs[r] /\ runs[r] \in Nat
  BY <1>2
<1>5. Pending(r)' \in SUBSET Pending(r) /\ Cardinality(Pending(r)') \in Nat
  BY <1>3
<1>6. r \in DOMAIN runs => r \in DOMAIN runs' /\ runs'[r] >= runs[r] /\ runs'[r] \in Nat
        /\ runs'[r] + Cardinality(Pending(r)') <= runs[r] + Cardinality(Pending(r))
  BY <1>3, <1>4
<1>7. /\ DOMAIN child \subseteq DOMAIN child'
      /\ \A p \in DOMAIN child : child[p].ins = <<>> => child'[p].ins = <<>>
  BY DEF Quietly
<1> HIDE DEF Pending
<1> QED  BY <1>1, <1>5, <1>6, <1>7, OtherOK

\* A call begins under a number of its own, and returns.
LEMMA BeginsStep ==
  ASSUME PluginInv, NEW c \in Caller, CallBegins(c) \/ CallReturns(c)
  PROVE  PluginInv'
<1>1. /\ UNCHANGED <<handle, lock, child>>
      /\ runs' = runs \/ runs' = Append(runs, 0)
  BY DEF CallBegins, CallReturns
<1>2. PluginTypes /\ runs \in Seq(Nat) /\ Len(runs) \in Nat /\ handle.next \in Nat
      /\ CallState' = CallState /\ Tries \in Nat /\ 1 \in 0..Tries
  BY DEF PluginInv, PluginTypes, CallState, Tries
<1>3. PICK s \in CallState :
        /\ caller' = [caller EXCEPT ![c] = s]
        /\ \/ s.at = "idle"
           \/ CallBegins(c) /\ s.at = "enter" /\ s.tries = 1 /\ s.req = Len(runs) + 1
  <2>1. AtRest \in CallState /\ AtRest.at = "idle"
    BY <1>2 DEF CallState, AtRest
  <2>2. CASE CallReturns(c)
    BY <2>1, <2>2 DEF CallReturns
  <2>3. CASE CallBegins(c)
    <3>1. PICK r : r = Len(runs) + 1
      OBVIOUS
    <3>2. r \in Nat
      BY <1>2, <3>1
    <3>3. PICK s : s = [AtRest EXCEPT !.at = "enter", !.tries = 1, !.req = r]
      OBVIOUS
    <3>4. s \in CallState /\ s.at = "enter" /\ s.tries = 1 /\ s.req = r
      BY <1>2, <2>1, <3>2, <3>3 DEF CallState
    <3>5. caller' = [caller EXCEPT ![c] = s]
      BY <2>3, <3>1, <3>3 DEF CallBegins
    <3> QED  BY <2>3, <3>1, <3>4, <3>5
  <2> QED  BY <2>2, <2>3
<1>4. s \in CallState
  OBVIOUS
<1>5. caller' \in [Caller -> CallState] /\ caller'[c] = s
      /\ \A d \in Caller : d # c => caller'[d] = caller[d]
  BY <1>2, <1>3, <1>4, CallerMoves
<1>6. runs' \in Seq(Nat)
  BY <1>1, <1>2
<1>7. PluginTypes'
  BY <1>1, <1>2, <1>5, <1>6 DEF PluginTypes
<1>8. Quietly
  BY <1>1, SilentFacts
<1>9. \A d \in Caller : At(d, "read")' => caller'[d] = caller[d]
  BY <1>3, <1>5 DEF At
<1>10. handle'.next \in Nat /\ handle'.next >= handle.next
  BY <1>1, <1>2
<1>11. IdInv' /\ OnceInv' /\ SaidInv' /\ CountInv'
  BY <1>1, <1>8, <1>9, <1>10, QuietChild
<1>12. \A d \in Caller : d # c => CallerOK(d)'
  BY <1>1, <1>5, <1>8, QuietOther
<1>13. \A d \in Caller : ~At(d, "idle") => caller[d].req \in DOMAIN runs
  BY DEF PluginInv, CallerOK
<1>14. Len(runs) + 1 \notin DOMAIN runs
  BY <1>2
<1>15. Apart'
  BY <1>3, <1>5, <1>13, <1>14 DEF Apart, At, PluginInv
<1>16. CallerOK(c)'
  <2>1. CASE s.at = "idle"
    BY <1>5, <2>1, IdleOK
  <2>2. CASE CallBegins(c) /\ s.at = "enter" /\ s.tries = 1 /\ s.req = Len(runs) + 1
    <3>0. PICK r : r = Len(runs) + 1
      OBVIOUS
    <3>1. Pending(r) = {}
      BY <1>14, <3>0, NoPending
    <3>2. runs' = Append(runs, 0)
      BY <2>2 DEF CallBegins
    <3>3. r \in DOMAIN runs' /\ runs'[r] = 0
      BY <1>2, <3>0, <3>2
    <3>4. Cardinality({}) = 0
      BY FS_EmptySet
    <3>5. ToCome(c)' = Tries
      BY <1>2, <1>5, <2>2 DEF ToCome, Tries
    <3>6. Pending(r)' = {}
      BY <1>8, <3>1, QuietPending
    <3>7. caller'[c].req = r
      BY <1>5, <2>2, <3>0
    <3>8. Pending(caller[c].req)' = {}
      <4>1. Pending(caller[c].req)' = Pending(r)'
        BY <3>7 DEF Pending
      <4> QED  BY <3>6, <4>1
    <3>9. 0 + 0 + Tries <= Tries /\ Tries' = Tries
      BY <1>2 DEF Tries
    <3>10. runs'[caller'[c].req] + Cardinality(Pending(caller[c].req))' + ToCome(c)' <= Tries'
      BY <3>3, <3>4, <3>5, <3>7, <3>8, <3>9
    <3> QED  BY <1>5, <2>2, <3>3, <3>7, <3>8, <3>10 DEF CallerOK, At, Talking
  <2> QED  BY <1>3, <2>1, <2>2
<1> QED  BY <1>7, <1>11, <1>12, <1>15, <1>16 DEF PluginInv

\* A request is written, under the next id, to a child that does not have the call
\* yet; or the child is gone.
LEMMA WritesStep ==
  ASSUME PluginInv, NEW c \in Caller, CallWrites(c)
  PROVE  PluginInv'
<1>1. /\ At(c, "write") /\ ~At(c, "idle") /\ UNCHANGED runs
      /\ handle' = [handle EXCEPT !.next = handle.next + 1]
  BY DEF CallWrites, At
<1>2. PICK p, r, n : p = handle.proc /\ r = caller[c].req /\ n = handle.next
  OBVIOUS
<1>3. /\ PluginTypes /\ CallerOK(c) /\ caller[c] \in CallState /\ caller[c].tries \in 1..Tries /\ Tries \in Nat
      /\ handle = [next |-> handle.next, proc |-> handle.proc, crashes |-> handle.crashes, until |-> handle.until]
      /\ n \in Nat /\ handle.proc \in 0..Len(child) /\ child \in Seq(Process)
      /\ Len(child) \in Nat /\ DOMAIN child = 1..Len(child) /\ lock = c
  BY <1>1, <1>2, InCall DEF At, Talking
<1>4. p \in DOMAIN child /\ p \notin Pending(r) /\ r \in DOMAIN runs /\ r \in Nat
  BY <1>1, <1>2, <1>3 DEF CallerOK, At, CallState
<1>5. handle' = [next |-> n + 1, proc |-> p, crashes |-> handle.crashes, until |-> handle.until]
  BY <1>1, <1>2, <1>3
<1>6. /\ handle'.next = n + 1 /\ handle'.proc = p /\ n + 1 \in Nat /\ n < n + 1
      /\ handle' = [next |-> handle'.next, proc |-> handle'.proc, crashes |-> handle'.crashes, until |-> handle'.until]
  BY <1>3, <1>5
<1>7. CASE Goes(c, "lost") /\ lock' = Nobody /\ UNCHANGED child
  <2>1. Quietly /\ child' \in Seq(Process) /\ Len(child') = Len(child)
    BY <1>3, <1>7, SilentFacts
  <2>2. caller[c].at \in {"hello", "write", "read"}
    BY <1>1 DEF At
  <2> QED  BY <1>1, <1>2, <1>3, <1>6, <1>7, <2>1, <2>2, GoesStep
<1>8. CASE /\ child' = [child EXCEPT ![p].ins = Append(@, [id |-> n, req |-> r])]
           /\ caller' = [caller EXCEPT ![c].at = "read", ![c].id = n, ![c].pid = p]
           /\ UNCHANGED lock
  <2> DEFINE x == [id |-> n, req |-> r]
  <2>1. x \in Request /\ x.id = n /\ x.req = r
    BY <1>3, <1>4 DEF Request
  <2>2. child[p] \in Process /\ child[p].ins \in Seq(Request) /\ Len(child[p].ins) \in Nat
        /\ DOMAIN child[p].ins = 1..Len(child[p].ins)
    BY <1>3, <1>4, ProcessFacts
  <2> DEFINE l == Append(child[p].ins, x)
  <2> HIDE DEF x
  <2>3. /\ l \in Seq(Request) /\ DOMAIN l = 1..(Len(child[p].ins) + 1) /\ l[Len(child[p].ins) + 1] = x
        /\ \A k \in DOMAIN child[p].ins : k \in DOMAIN l /\ l[k] = child[p].ins[k]
        /\ \A k \in DOMAIN l : k \in DOMAIN child[p].ins \/ k = Len(child[p].ins) + 1
    BY <2>1, <2>2
  <2> HIDE DEF l
  <2>4. child' = [child EXCEPT ![p] = [child[p] EXCEPT !.ins = l]]
    BY <1>8 DEF l, x
  <2>5. [child[p] EXCEPT !.ins = l] \in Process
    BY <2>2, <2>3 DEF Process
  <2>6. /\ child' \in Seq(Process) /\ Len(child') = Len(child) /\ DOMAIN child' = DOMAIN child
        /\ child'[p].ins = l /\ child'[p].outs = child[p].outs
        /\ \A o \in DOMAIN child : o # p => child'[o] = child[o]
    BY <1>3, <1>4, <2>2, <2>4, <2>5 DEF Process
  <2>7. /\ caller' \in [Caller -> CallState] /\ caller'[c].at = "read" /\ caller'[c].id = n
        /\ caller'[c].pid = p /\ caller'[c].req = r /\ caller'[c].tries = caller[c].tries
        /\ \A d \in Caller : d # c => caller'[d] = caller[d]
    <3>1. PICK s : s = [caller[c] EXCEPT !.at = "read", !.id = n, !.pid = p]
      OBVIOUS
    <3>2. caller' = [caller EXCEPT ![c] = s]
      BY <1>8, <3>1
    <3>3. p \in Nat
      BY <1>3, <1>4
    <3>4. /\ s \in CallState /\ s.at = "read" /\ s.id = n /\ s.pid = p /\ s.req = r
          /\ s.tries = caller[c].tries
      BY <1>2, <1>3, <3>1, <3>3 DEF CallState, Talking
    <3> QED  BY <1>3, <3>2, <3>4, CallerMoves
  <2>8. Pending(r)' = Pending(r) \cup {p}
    <3>1. ASSUME NEW o \in DOMAIN child, o # p PROVE o \in Pending(r)' <=> o \in Pending(r)
      BY <2>6, <3>1 DEF Pending
    <3>2. p \in Pending(r)'
      <4>1. Len(child[p].ins) + 1 \in DOMAIN l /\ l[Len(child[p].ins) + 1].req = r
        BY <2>1, <2>2, <2>3
      <4> QED  BY <1>4, <2>6, <4>1 DEF Pending
    <3>3. Pending(r)' \subseteq DOMAIN child /\ Pending(r) \subseteq DOMAIN child
      BY <2>6 DEF Pending
    <3> QED  BY <1>4, <3>1, <3>2, <3>3
  <2>9. ASSUME NEW q, q # r PROVE Pending(q)' = Pending(q)
    <3>1. ASSUME NEW o \in DOMAIN child, o # p PROVE o \in Pending(q)' <=> o \in Pending(q)
      BY <2>6, <3>1 DEF Pending
    <3>2. p \in Pending(q)' <=> p \in Pending(q)
      <4>1. p \in Pending(q)' <=> \E k \in DOMAIN l : l[k].req = q
        BY <1>4, <2>6 DEF Pending
      <4>2. p \in Pending(q) <=> \E k \in DOMAIN child[p].ins : child[p].ins[k].req = q
        BY <1>4 DEF Pending
      <4>3. \A k \in DOMAIN l : l[k].req = q => k \in DOMAIN child[p].ins /\ child[p].ins[k].req = q
        BY <2>1, <2>3, <2>9
      <4> QED  BY <2>3, <4>1, <4>2, <4>3
    <3>3. Pending(q)' \subseteq DOMAIN child /\ Pending(q) \subseteq DOMAIN child
      BY <2>6 DEF Pending
    <3> QED  BY <3>1, <3>2, <3>3
  <2>10. ASSUME NEW y \in Request, Known(y)' PROVE Known(y) \/ y = x
    <3>1. CASE \E o \in DOMAIN child' : Has(o, y)' \/ Said(o, y)'
      <4>1. PICK o \in DOMAIN child : Has(o, y)' \/ Said(o, y)'
        BY <2>6, <3>1
      <4>2. CASE o # p
        BY <2>6, <4>1, <4>2 DEF Has, Said, Known
      <4>3. CASE o = p
        <5>1. CASE Said(p, y)'
          BY <1>4, <2>6, <5>1 DEF Said, Known
        <5>2. CASE Has(p, y)'
          <6>1. PICK k \in DOMAIN l : l[k] = y
            BY <2>6, <5>2 DEF Has
          <6>2. CASE k \in DOMAIN child[p].ins
            BY <1>4, <2>3, <6>1, <6>2 DEF Has, Known
          <6>3. CASE k = Len(child[p].ins) + 1
            BY <2>3, <6>1, <6>3
          <6> QED  BY <2>3, <6>2, <6>3
        <5> QED  BY <4>1, <4>3, <5>1, <5>2
      <4> QED  BY <4>2, <4>3
    <3>2. CASE \E d \in Caller : Awaits(d, y)'
      <4>1. PICK d \in Caller : Awaits(d, y)'
        BY <3>2
      <4>2. CASE d # c
        BY <2>7, <4>1, <4>2 DEF Awaits, At, Known
      <4>3. CASE d = c
        <5>1. y.id = n /\ y.req = r
          BY <2>7, <4>1, <4>3 DEF Awaits
        <5> QED  BY <5>1 DEF Request, x
      <4> QED  BY <4>2, <4>3
    <3> QED  BY <2>10, <3>1, <3>2 DEF Known
  <2>11. IdInv'
    <3>1. \A y \in Request : Known(y) => y.id < n /\ y.req \in DOMAIN runs
      BY <1>2 DEF PluginInv, IdInv
    <3>2. ASSUME NEW y \in Request, Known(y)' PROVE y.id < n + 1 /\ y.req \in DOMAIN runs
      <4>1. y.id \in Nat
        BY DEF Request
      <4> QED  BY <1>3, <1>4, <2>1, <2>10, <3>1, <3>2, <4>1
    <3>3. ASSUME NEW y \in Request, NEW z \in Request, Known(y)', Known(z)', y.id = z.id
          PROVE  y.req = z.req
      <4>1. \A w \in Request : Known(w) => w.id # n
        <5>1. \A w \in Request : w.id \in Nat
          BY DEF Request
        <5> QED  BY <1>3, <3>1, <5>1
      <4>2. (Known(y) \/ y = x) /\ (Known(z) \/ z = x)
        BY <2>10, <3>3
      <4> QED  BY <2>1, <3>3, <4>1, <4>2 DEF PluginInv, IdInv
    <3> QED  BY <1>1, <1>6, <3>2, <3>3 DEF IdInv
  <2>12. OnceInv'
    <3> SUFFICES ASSUME NEW o \in DOMAIN child, NEW i \in DOMAIN child'[o].ins, NEW j \in DOMAIN child'[o].ins,
                        child'[o].ins[i].req = child'[o].ins[j].req
                 PROVE  i = j
      BY <2>6 DEF OnceInv
    <3>1. CASE o # p
      BY <2>6, <3>1 DEF PluginInv, OnceInv
    <3>2. CASE o = p
      <4>1. \A k \in DOMAIN child[p].ins : child[p].ins[k].req # r
        BY <1>4 DEF Pending
      <4>2. i \in DOMAIN l /\ j \in DOMAIN l /\ l[i].req = l[j].req
        BY <2>6, <3>2
      <4> QED  BY <1>4, <2>1, <2>3, <4>1, <4>2 DEF PluginInv, OnceInv
    <3> QED  BY <3>1, <3>2
  <2>13. SaidInv'
    BY <1>1, <2>6 DEF PluginInv, SaidInv, Said
  <2>14. /\ Cardinality(Pending(r)') = Cardinality(Pending(r)) + 1 /\ Cardinality(Pending(r)) \in Nat
         /\ runs[r] \in Nat
         /\ runs[r] + Cardinality(Pending(r)) + (Tries - caller[c].tries + 1) <= Tries
    <3>1. IsFiniteSet(Pending(r)) /\ Cardinality(Pending(r)) \in Nat
      BY <1>3, PendingFacts
    <3>2. Cardinality(Pending(r) \cup {p}) = Cardinality(Pending(r)) + 1
      BY <1>4, <3>1, FS_AddElement
    <3>3. ToCome(c) = Tries - caller[c].tries + 1
      BY <1>1 DEF ToCome, At
    <3>4. runs[r] + Cardinality(Pending(r)) + ToCome(c) <= Tries
      BY <1>1, <1>2, <1>3 DEF CallerOK
    <3>5. runs[r] \in Nat
      BY <1>3, <1>4 DEF PluginTypes
    <3> QED  BY <2>8, <3>1, <3>2, <3>3, <3>4, <3>5
  <2>15. runs[r] + Cardinality(Pending(r)') <= Tries
         /\ runs[r] + Cardinality(Pending(r)') + (Tries - caller[c].tries) <= Tries
    <3>1. PICK m \in Nat, k \in Nat, t \in 1..Tries :
            m = runs[r] /\ k = Cardinality(Pending(r)) /\ t = caller[c].tries
      BY <1>3, <2>14
    <3>2. m + k + (Tries - t + 1) <= Tries
      BY <2>14, <3>1
    <3>3. m + (k + 1) <= Tries /\ m + (k + 1) + (Tries - t) <= Tries
      BY <1>3, <3>2
    <3> QED  BY <2>14, <3>1, <3>3
  <2>16. CountInv'
    <3> SUFFICES ASSUME NEW q \in DOMAIN runs PROVE runs[q] + Cardinality(Pending(q)') <= Tries
      BY <1>1 DEF CountInv, Tries
    <3>1. CASE q = r
      BY <2>15, <3>1
    <3>2. CASE q # r
      BY <2>9, <3>2 DEF PluginInv, CountInv
    <3> QED  BY <3>1, <3>2
  <2>17. CallerOK(c)'
    <3>1. ToCome(c)' = Tries - caller[c].tries
      BY <2>7 DEF ToCome, Tries
    <3>2. Pending(caller[c].req)' = Pending(r)'
      BY <2>7 DEF Pending
    <3>3. Tries' = Tries /\ caller[c].tries >= 1
      BY <1>3 DEF Tries
    <3>4. runs'[caller'[c].req] + Cardinality(Pending(caller[c].req))' + ToCome(c)' <= Tries'
      BY <1>1, <2>7, <2>15, <3>1, <3>2, <3>3
    <3> QED  BY <1>1, <1>3, <1>4, <1>8, <2>6, <2>7, <3>3, <3>4 DEF CallerOK, At
  <2>18. ASSUME NEW d \in Caller, d # c PROVE CallerOK(d)'
    <3>1. CASE At(d, "idle")
      BY <2>7, <2>18, <3>1, IdleOK DEF At
    <3>2. CASE ~At(d, "idle")
      <4>1. PICK q : q = caller[d].req
        OBVIOUS
      <4>2. q # r
        BY <1>1, <1>2, <2>18, <3>2, <4>1 DEF PluginInv, Apart
      <4>3. Pending(q)' = Pending(q) /\ Cardinality(Pending(q)) \in Nat
        BY <1>3, <2>9, <4>2, PendingFacts
      <4>4. q \in DOMAIN runs => q \in DOMAIN runs' /\ runs'[q] = runs[q] /\ runs[q] \in Nat
        BY <1>1, <1>3 DEF PluginTypes
      <4>5. caller[d].at \notin Talking
        BY <1>3, <2>18, OthersWait
      <4>6. Pending(q)' \in SUBSET Pending(q) /\ Cardinality(Pending(q)') \in Nat
        BY <4>3
      <4>7. q \in DOMAIN runs => q \in DOMAIN runs' /\ runs'[q] >= runs[q] /\ runs'[q] \in Nat
              /\ runs'[q] + Cardinality(Pending(q)') <= runs[q] + Cardinality(Pending(q))
        BY <4>3, <4>4
      <4>8. caller'[d] = caller[d] /\ DOMAIN child \subseteq DOMAIN child' /\ handle'.proc = handle.proc
        BY <1>2, <1>6, <2>6, <2>7, <2>18
      <4>9. ~At(d, "hello")
        BY <4>5 DEF At, Talking
      <4> HIDE DEF Pending
      <4> QED  BY <4>1, <4>5, <4>6, <4>7, <4>8, <4>9, OtherOK
    <3> QED  BY <3>1, <3>2
  <2>19. Apart'
    BY <1>1, <1>2, <2>7 DEF PluginInv, Apart, At
  <2>20. PluginTypes'
    <3>1. CallState' = CallState
      BY DEF CallState, Tries
    <3> QED  BY <1>1, <1>3, <1>4, <1>6, <1>8, <2>6, <2>7, <3>1 DEF PluginTypes
  <2> QED  BY <2>11, <2>12, <2>13, <2>16, <2>17, <2>18, <2>19, <2>20 DEF PluginInv
<1> QED  BY <1>2, <1>7, <1>8 DEF CallWrites

\* Child p has carried out the first of its requests, and may have answered it; it
\* keeps the others or, if it has died, none.
LEMMA CarriesOut ==
  ASSUME PluginInv, NEW p \in DOMAIN child, child[p].ins # <<>>, NEW q \in Process,
         child' = [child EXCEPT ![p] = q], q.ins \in {Tail(child[p].ins), <<>>},
         NEW x, x = Head(child[p].ins),
         \A y \in Request : (\E k \in DOMAIN q.outs : q.outs[k] = Answer(y)) => Said(p, y) \/ y = x,
         runs' = [runs EXCEPT ![x.req] = @ + 1], UNCHANGED <<handle, lock, caller>>
  PROVE  PluginInv'
<1> DEFINE r == x.req
<1>1. /\ PluginTypes /\ child \in Seq(Process) /\ runs \in Seq(Nat)
      /\ Len(child) \in Nat /\ DOMAIN child = 1..Len(child)
  BY ProcessFacts DEF PluginInv, PluginTypes
<1>2. child[p].ins \in Seq(Request)
  BY <1>1, ProcessFacts
<1>3. x \in Request /\ 1 \in DOMAIN child[p].ins /\ child[p].ins[1] = x
  BY <1>2
<1>4. Has(p, x) /\ Known(x)
  BY <1>3 DEF Has, Known
<1>5. r \in DOMAIN runs /\ p \in Pending(r)
  BY <1>3, <1>4 DEF PluginInv, IdInv, Pending
<1>6. /\ runs' \in Seq(Nat) /\ DOMAIN runs' = DOMAIN runs
      /\ runs'[r] = runs[r] + 1 /\ \A s \in DOMAIN runs : s # r => runs'[s] = runs[s]
      /\ \A s \in DOMAIN runs : runs[s] \in Nat
  BY <1>1, <1>5
<1> HIDE DEF r
<1>7. /\ child' \in Seq(Process) /\ Len(child') = Len(child) /\ DOMAIN child' = DOMAIN child
      /\ child'[p] = q /\ \A o \in DOMAIN child : o # p => child'[o] = child[o]
  BY <1>1
<1>8. \A k \in DOMAIN q.ins :
        k + 1 \in DOMAIN child[p].ins /\ k + 1 # 1 /\ child[p].ins[k + 1] = q.ins[k] /\ k \in Nat
  <2>1. CASE q.ins = <<>>
    <3>1. DOMAIN <<>> = {}
      OBVIOUS
    <3> QED  BY <2>1, <3>1
  <2>2. CASE q.ins = Tail(child[p].ins)
    BY <1>2, <2>2
  <2> QED  BY <2>1, <2>2
<1>9. \A s : Pending(s)' \subseteq Pending(s)
  <2> SUFFICES ASSUME NEW s, NEW o \in Pending(s)' PROVE o \in Pending(s)
    OBVIOUS
  <2>1. CASE o # p
    BY <1>7, <2>1 DEF Pending
  <2>2. CASE o = p
    BY <1>7, <1>8, <2>2 DEF Pending
  <2> QED  BY <2>1, <2>2
<1>10. p \notin Pending(r)'
  <2> SUFFICES ASSUME NEW k \in DOMAIN q.ins, q.ins[k].req = r PROVE FALSE
    BY <1>7 DEF Pending
  <2>1. child[p].ins[k + 1].req = child[p].ins[1].req
    BY <1>3, <1>8 DEF r
  <2> QED  BY <1>3, <1>8, <2>1 DEF PluginInv, OnceInv
<1>11. \A s : /\ Cardinality(Pending(s)) \in Nat /\ Cardinality(Pending(s)') \in Nat
              /\ Cardinality(Pending(s)') <= Cardinality(Pending(s))
  <2> SUFFICES ASSUME NEW s
               PROVE  /\ Cardinality(Pending(s)) \in Nat /\ Cardinality(Pending(s)') \in Nat
                      /\ Cardinality(Pending(s)') <= Cardinality(Pending(s))
    OBVIOUS
  <2>1. IsFiniteSet(Pending(s)) /\ Cardinality(Pending(s)) \in Nat
    BY <1>1, PendingFacts
  <2> QED  BY <1>9, <2>1, FS_Subset, FS_CardinalityType
<1>12. Cardinality(Pending(r)') + 1 <= Cardinality(Pending(r))
  <2>1. IsFiniteSet(Pending(r)) /\ Cardinality(Pending(r)) \in Nat
    BY <1>1, PendingFacts
  <2>2. Cardinality(Pending(r) \ {p}) = Cardinality(Pending(r)) - 1 /\ IsFiniteSet(Pending(r) \ {p})
    BY <1>5, <2>1, FS_RemoveElement
  <2>3. Pending(r)' \subseteq Pending(r) \ {p}
    BY <1>9, <1>10
  <2>4. Cardinality(Pending(r)') <= Cardinality(Pending(r) \ {p})
    BY <2>2, <2>3, FS_Subset
  <2> QED  BY <1>11, <2>1, <2>2, <2>4
<1>13. \A s \in DOMAIN runs :
         /\ runs'[s] >= runs[s] /\ runs'[s] \in Nat
         /\ runs'[s] + Cardinality(Pending(s)') <= runs[s] + Cardinality(Pending(s))
  <2> SUFFICES ASSUME NEW s \in DOMAIN runs
               PROVE  /\ runs'[s] >= runs[s] /\ runs'[s] \in Nat
                      /\ runs'[s] + Cardinality(Pending(s)') <= runs[s] + Cardinality(Pending(s))
    OBVIOUS
  <2>1. PICK m \in Nat, a \in Nat, b \in Nat :
          m = runs[s] /\ a = Cardinality(Pending(s)) /\ b = Cardinality(Pending(s)') /\ b <= a
    BY <1>6, <1>11
  <2>2. CASE s # r
    <3>1. m >= m /\ m + b <= m + a
      BY <2>1
    <3> QED  BY <1>6, <2>1, <2>2, <3>1
  <2>3. CASE s = r
    <3>1. b + 1 <= a
      BY <1>12, <2>1, <2>3
    <3>2. m + 1 >= m /\ m + 1 \in Nat /\ (m + 1) + b <= m + a
      BY <3>1
    <3> QED  BY <1>6, <2>1, <2>3, <3>2
  <2> QED  BY <2>2, <2>3
<1>14. \A y \in Request : Known(y)' => Known(y)
  <2> SUFFICES ASSUME NEW y \in Request, Known(y)' PROVE Known(y)
    OBVIOUS
  <2>1. CASE \E o \in DOMAIN child' : Has(o, y)' \/ Said(o, y)'
    <3>1. PICK o \in DOMAIN child : Has(o, y)' \/ Said(o, y)'
      BY <1>7, <2>1
    <3>2. CASE o # p
      BY <1>7, <3>1, <3>2 DEF Has, Said, Known
    <3>3. CASE o = p /\ Has(p, y)'
      BY <1>7, <1>8, <3>3 DEF Has, Known
    <3>4. CASE o = p /\ Said(p, y)'
      <4>1. Said(p, y) \/ y = x
        BY <1>7, <3>4 DEF Said
      <4> QED  BY <1>4, <4>1 DEF Known
    <3> QED  BY <3>1, <3>2, <3>3, <3>4
  <2>2. CASE \E d \in Caller : Awaits(d, y)'
    BY <2>2 DEF Awaits, At, Known
  <2> QED  BY <2>1, <2>2 DEF Known
<1>15. IdInv'
  BY <1>6, <1>14 DEF PluginInv, IdInv
<1>16. OnceInv'
  <2> SUFFICES ASSUME NEW o \in DOMAIN child, NEW i \in DOMAIN child'[o].ins, NEW j \in DOMAIN child'[o].ins,
                      child'[o].ins[i].req = child'[o].ins[j].req
               PROVE  i = j
    BY <1>7 DEF OnceInv
  <2>1. CASE o # p
    BY <1>7, <2>1 DEF PluginInv, OnceInv
  <2>2. CASE o = p
    <3>1. /\ i + 1 \in DOMAIN child[p].ins /\ j + 1 \in DOMAIN child[p].ins /\ i \in Nat /\ j \in Nat
          /\ child[p].ins[i + 1].req = child[p].ins[j + 1].req
      BY <1>7, <1>8, <2>2
    <3>2. i + 1 = j + 1
      BY <3>1 DEF PluginInv, OnceInv
    <3> QED  BY <3>1, <3>2
  <2> QED  BY <2>1, <2>2
<1>17. SaidInv'
  <2> SUFFICES ASSUME NEW o \in DOMAIN child, NEW y \in Request, Said(o, y)' PROVE runs'[y.req] > 0
    BY <1>7 DEF SaidInv
  <2>1. CASE Said(o, y)
    <3>1. y.req \in DOMAIN runs /\ runs[y.req] > 0
      BY <2>1 DEF PluginInv, SaidInv, IdInv, Known
    <3> QED  BY <1>6, <1>13, <3>1
  <2>2. CASE y = x
    BY <1>5, <1>6, <2>2 DEF r
  <2>3. Said(o, y) \/ y = x
    BY <1>7 DEF Said
  <2> QED  BY <2>1, <2>2, <2>3
<1>18. CountInv'
  <2> SUFFICES ASSUME NEW s \in DOMAIN runs PROVE runs'[s] + Cardinality(Pending(s)') <= Tries
    BY <1>6 DEF CountInv, Tries
  <2>1. runs[s] + Cardinality(Pending(s)) <= Tries
    BY DEF PluginInv, CountInv
  <2>2. runs[s] \in Nat /\ runs'[s] \in Nat /\ Tries \in Nat
    BY <1>6, <1>13 DEF Tries
  <2>3. runs'[s] + Cardinality(Pending(s)') <= runs[s] + Cardinality(Pending(s))
    BY <1>13
  <2>4. Cardinality(Pending(s)) \in Nat /\ Cardinality(Pending(s)') \in Nat
    BY <1>11
  <2> HIDE DEF Pending, Tries
  <2> QED  BY <2>1, <2>2, <2>3, <2>4
<1>19. Apart'
  BY DEF PluginInv, Apart, At
<1>20. ASSUME NEW d \in Caller PROVE CallerOK(d)'
  <2>1. PICK s : s = caller[d].req
    OBVIOUS
  <2>2. Pending(s)' \in SUBSET Pending(s) /\ Cardinality(Pending(s)') \in Nat
    BY <1>9, <1>11
  <2>3. s \in DOMAIN runs => s \in DOMAIN runs' /\ runs'[s] >= runs[s] /\ runs'[s] \in Nat
          /\ runs'[s] + Cardinality(Pending(s)') <= runs[s] + Cardinality(Pending(s))
    BY <1>6, <1>13
  <2>4. \A o \in DOMAIN child : child[o].ins = <<>> => child'[o].ins = <<>>
    BY <1>7
  <2> HIDE DEF Pending
  <2> QED  BY <1>7, <2>1, <2>2, <2>3, <2>4, OtherOK
<1>21. PluginTypes'
  <2>1. CallState' = CallState
    BY DEF CallState, Tries
  <2> QED  BY <1>1, <1>6, <1>7, <2>1 DEF PluginTypes
<1> QED  BY <1>15, <1>16, <1>17, <1>18, <1>19, <1>20, <1>21 DEF PluginInv

\* Children that say what is no answer, or an old one again, or die.
LEMMA ChildIsQuiet ==
  ASSUME PluginInv, NEW p \in DOMAIN child, NEW q \in Process, child' = [child EXCEPT ![p] = q],
         q.ins = child[p].ins,
         \A k \in DOMAIN q.outs : q.outs[k].is = "answer" =>
           \E j \in DOMAIN child[p].outs : child[p].outs[j] = q.outs[k],
         UNCHANGED <<handle, lock, caller, runs>>
  PROVE  PluginInv'
<1>1. PluginTypes /\ handle.next \in Nat
  BY DEF PluginInv, PluginTypes
<1>2. child' \in Seq(Process) /\ Len(child') = Len(child) /\ Quietly
  BY <1>1, OneChild
<1>3. IdInv' /\ OnceInv' /\ SaidInv' /\ CountInv'
  <2>1. handle'.next \in Nat /\ handle'.next >= handle.next
    BY <1>1
  <2> QED  BY <1>2, <2>1, QuietChild
<1>4. \A d \in Caller : CallerOK(d)'
  BY <1>2, QuietOther
<1>5. Apart'
  BY DEF PluginInv, Apart, At
<1>6. PluginTypes'
  <2>1. CallState' = CallState
    BY DEF CallState, Tries
  <2> QED  BY <1>1, <1>2, <2>1 DEF PluginTypes
<1> QED  BY <1>3, <1>4, <1>5, <1>6 DEF PluginInv

\* One line more.
LEMMA Speaks ==
  ASSUME PluginTypes, NEW p \in DOMAIN child, NEW l \in Line, NEW b \in BOOLEAN
  PROVE  \E q \in Process :
           /\ q = [child[p] EXCEPT !.ready = b, !.outs = Append(@, l)]
           /\ q.ins = child[p].ins
           /\ \A k \in DOMAIN q.outs :
                q.outs[k] = l \/ \E j \in DOMAIN child[p].outs : child[p].outs[j] = q.outs[k]
<1>1. child[p] \in Process /\ child[p].outs \in Seq(Line)
  BY ProcessFacts
<1>2. PICK q : q = [child[p] EXCEPT !.ready = b, !.outs = Append(child[p].outs, l)]
  OBVIOUS
<1>3. Append(child[p].outs, l) \in Seq(Line)
  BY <1>1
<1>4. q \in Process /\ q.ins = child[p].ins /\ q.outs = Append(child[p].outs, l)
  BY <1>1, <1>2, <1>3 DEF Process
<1>5. \A k \in DOMAIN Append(child[p].outs, l) :
        Append(child[p].outs, l)[k] = l \/ (k \in DOMAIN child[p].outs /\ child[p].outs[k] = Append(child[p].outs, l)[k])
  BY <1>1
<1> QED  BY <1>2, <1>4, <1>5

\* A child greets.
LEMMA GreetsStep ==
  ASSUME PluginInv, NEW p \in DOMAIN child, ChildGreets(p)
  PROVE  PluginInv'
<1>1. PluginTypes /\ Hello \in Line /\ Hello.is # "answer"
  BY DEF PluginInv, Hello, Line
<1>2. PICK q \in Process :
        /\ q = [child[p] EXCEPT !.ready = TRUE, !.outs = Append(@, Hello)]
        /\ q.ins = child[p].ins
        /\ \A k \in DOMAIN q.outs :
             q.outs[k] = Hello \/ \E j \in DOMAIN child[p].outs : child[p].outs[j] = q.outs[k]
  BY <1>1, Speaks
<1>3. child' = [child EXCEPT ![p] = q]
  BY <1>2 DEF ChildGreets
<1>4. UNCHANGED <<handle, lock, caller, runs>>
  BY DEF ChildGreets
<1>5. \A k \in DOMAIN q.outs : q.outs[k].is = "answer" =>
        \E j \in DOMAIN child[p].outs : child[p].outs[j] = q.outs[k]
  BY <1>1, <1>2
<1> QED  BY <1>2, <1>3, <1>4, <1>5, ChildIsQuiet

\* A child carries out a request, and answers it if somebody reads its lines.
LEMMA WorksStep ==
  ASSUME PluginInv, NEW p \in DOMAIN child, ChildWorks(p)
  PROVE  PluginInv'
<1>1. child[p] \in Process /\ child[p].ins \in Seq(Request) /\ child[p].outs \in Seq(Line)
  BY ProcessFacts DEF PluginInv
<1>2. PICK x : x = Head(child[p].ins)
  OBVIOUS
<1>3. /\ child[p].ins # <<>> /\ runs' = [runs EXCEPT ![x.req] = @ + 1]
      /\ UNCHANGED <<handle, lock, caller>>
  BY <1>2 DEF ChildWorks
<1>4. x \in Request /\ Tail(child[p].ins) \in Seq(Request)
  BY <1>1, <1>2, <1>3
<1>5. PICK o : o = IF child[p].eof THEN child[p].outs ELSE Append(child[p].outs, Answer(x))
  OBVIOUS
<1>6. o \in Seq(Line)
  BY <1>1, <1>4, <1>5, AnswerFacts
<1>7. \A k \in DOMAIN o : o[k] = Answer(x) \/ \E j \in DOMAIN child[p].outs : child[p].outs[j] = o[k]
  <2>1. CASE child[p].eof
    BY <1>5, <2>1
  <2>2. CASE ~child[p].eof
    <3>1. o = Append(child[p].outs, Answer(x))
      BY <1>5, <2>2
    <3>2. \A k \in DOMAIN Append(child[p].outs, Answer(x)) :
            \/ Append(child[p].outs, Answer(x))[k] = Answer(x)
            \/ k \in DOMAIN child[p].outs /\ child[p].outs[k] = Append(child[p].outs, Answer(x))[k]
      BY <1>1
    <3> QED  BY <3>1, <3>2
  <2> QED  BY <2>1, <2>2
<1>8. PICK q : q = [child[p] EXCEPT !.ins = Tail(child[p].ins), !.outs = o]
  OBVIOUS
<1>9. q \in Process /\ q.ins = Tail(child[p].ins) /\ q.outs = o
  BY <1>1, <1>4, <1>6, <1>8 DEF Process
<1>10. child' = [child EXCEPT ![p] = q]
  BY <1>2, <1>5, <1>8 DEF ChildWorks
<1>11. ASSUME NEW y \in Request, \E k \in DOMAIN q.outs : q.outs[k] = Answer(y)
       PROVE  Said(p, y) \/ y = x
  <2>1. PICK k \in DOMAIN o : o[k] = Answer(y)
    BY <1>9, <1>11
  <2>2. CASE o[k] = Answer(x)
    BY <1>4, <2>1, <2>2, AnswerFacts
  <2>3. CASE \E j \in DOMAIN child[p].outs : child[p].outs[j] = o[k]
    BY <2>1, <2>3 DEF Said
  <2> QED  BY <1>7, <2>2, <2>3
<1> QED  BY <1>2, <1>3, <1>9, <1>10, <1>11, CarriesOut

\* A child dies, perhaps with its first request carried out, or says a line too many.
LEMMA FailsStep ==
  ASSUME PluginInv, NEW p \in DOMAIN child, ChildFails(p) \/ ChildIsSick(p)
  PROVE  PluginInv'
<1>1. PluginTypes /\ child[p] \in Process /\ child[p].ins \in Seq(Request) /\ child[p].outs \in Seq(Line)
  BY ProcessFacts DEF PluginInv
<1>2. UNCHANGED <<handle, lock, caller>>
  BY DEF ChildFails, ChildIsSick
<1>3. CASE child' = [child EXCEPT ![p].alive = FALSE] /\ UNCHANGED runs
  <2>1. PICK q : q = [child[p] EXCEPT !.alive = FALSE]
    OBVIOUS
  <2>2. q \in Process /\ q.ins = child[p].ins /\ q.outs = child[p].outs
    BY <1>1, <2>1 DEF Process
  <2>3. child' = [child EXCEPT ![p] = q]
    BY <1>3, <2>1
  <2> QED  BY <1>2, <1>3, <2>2, <2>3, ChildIsQuiet
<1>4. CASE /\ child[p].ins # <<>>
           /\ child' = [child EXCEPT ![p].alive = FALSE, ![p].ins = <<>>]
           /\ runs' = [runs EXCEPT ![Head(child[p].ins).req] = @ + 1]
  <2>1. PICK q : q = [child[p] EXCEPT !.alive = FALSE, !.ins = <<>>]
    OBVIOUS
  <2>2. <<>> \in Seq(Request)
    OBVIOUS
  <2>3. q \in Process /\ q.ins = <<>> /\ q.outs = child[p].outs
    BY <1>1, <2>1, <2>2 DEF Process
  <2>4. child' = [child EXCEPT ![p] = q]
    BY <1>4, <2>1
  <2>5. \A y \in Request : (\E k \in DOMAIN q.outs : q.outs[k] = Answer(y)) => Said(p, y)
    BY <2>3 DEF Said
  <2>6. PICK x : x = Head(child[p].ins)
    OBVIOUS
  <2>7. runs' = [runs EXCEPT ![x.req] = @ + 1]
    BY <1>4, <2>6
  <2>8. \A y \in Request : (\E k \in DOMAIN q.outs : q.outs[k] = Answer(y)) => Said(p, y) \/ y = x
    BY <2>5
  <2>9. q.ins \in {Tail(child[p].ins), <<>>} /\ child[p].ins # <<>>
    BY <1>4, <2>3
  <2>10. UNCHANGED <<handle, lock, caller>>
    BY <1>2
  <2> HIDE DEF Said
  <2> QED  BY <2>3, <2>4, <2>6, <2>7, <2>8, <2>9, <2>10, CarriesOut
<1>5. ASSUME NEW l \in Line, child' = [child EXCEPT ![p].outs = Append(@, l)], UNCHANGED runs,
             l.is # "answer" \/ \E j \in DOMAIN child[p].outs : child[p].outs[j] = l
      PROVE  PluginInv'
  <2>1. child[p].ready \in BOOLEAN
    BY <1>1 DEF Process
  <2>2. PICK q \in Process :
          /\ q = [child[p] EXCEPT !.ready = child[p].ready, !.outs = Append(@, l)]
          /\ q.ins = child[p].ins
          /\ \A k \in DOMAIN q.outs :
               q.outs[k] = l \/ \E j \in DOMAIN child[p].outs : child[p].outs[j] = q.outs[k]
    BY <1>1, <2>1, Speaks
  <2>3. q = [child[p] EXCEPT !.outs = Append(@, l)]
    BY <1>1, <2>2 DEF Process
  <2>4. child' = [child EXCEPT ![p] = q]
    BY <1>5, <2>3
  <2>5. \A k \in DOMAIN q.outs : q.outs[k].is = "answer" =>
          \E j \in DOMAIN child[p].outs : child[p].outs[j] = q.outs[k]
    BY <1>5, <2>2
  <2> QED  BY <1>2, <1>5, <2>2, <2>4, <2>5, ChildIsQuiet
<1>6. Noise \in Line /\ Noise.is # "answer"
  BY DEF Noise, Line
<1>7. CASE child' = [child EXCEPT ![p].outs = Append(@, Noise)] /\ UNCHANGED runs
  BY <1>5, <1>6, <1>7
<1>8. CASE /\ child[p].outs # <<>>
           /\ child' = [child EXCEPT ![p].outs = Append(@, @[Len(@)])] /\ UNCHANGED runs
  <2>1. PICK l : l = child[p].outs[Len(child[p].outs)]
    OBVIOUS
  <2>2. Len(child[p].outs) \in DOMAIN child[p].outs /\ l \in Line
    BY <1>1, <1>8, <2>1
  <2>3. child' = [child EXCEPT ![p].outs = Append(@, l)]
    BY <1>8, <2>1
  <2> QED  BY <1>5, <1>8, <2>1, <2>2, <2>3
<1> QED  BY <1>3, <1>4, <1>7, <1>8 DEF ChildFails, ChildIsSick

\* At the start nobody has called and there is no process.
LEMMA PluginInvInit == PluginInit => PluginInv
<1> SUFFICES ASSUME PluginInit PROVE PluginInv
  OBVIOUS
<1>1. \A c \in Caller : caller[c] = AtRest /\ AtRest.at = "idle"
  BY DEF PluginInit, AtRest
<1>2. child = <<>> /\ runs = <<>> /\ Len(<<>>) = 0 /\ DOMAIN <<>> = {}
  BY DEF PluginInit
<1>3. PluginTypes
  <2>1. AtRest \in CallState
    BY DEF AtRest, CallState, Tries
  <2>2. caller \in [Caller -> CallState]
    BY <2>1 DEF PluginInit
  <2>3. handle = [next |-> 1, proc |-> 0, crashes |-> 0, until |-> 0]
    BY DEF PluginInit
  <2>4. 0 \in 0..Len(child)
    BY <1>2
  <2> QED  BY <1>2, <2>2, <2>3, <2>4 DEF PluginInit, PluginTypes
<1>4. \A x : ~Known(x)
  BY <1>1, <1>2 DEF Known, Awaits, At
<1>5. OnceInv /\ SaidInv /\ CountInv /\ IdInv
  BY <1>2, <1>4 DEF OnceInv, SaidInv, CountInv, IdInv
<1>6. Apart /\ \A c \in Caller : CallerOK(c)
  BY <1>1 DEF Apart, CallerOK, At, Talking
<1> QED  BY <1>3, <1>5, <1>6 DEF PluginInv

\* Every step keeps the invariant.
LEMMA PluginInvNext == PluginInv /\ [PluginNext]_pluginVars => PluginInv'
<1> SUFFICES ASSUME PluginInv, [PluginNext]_pluginVars PROVE PluginInv'
  OBVIOUS
<1>1. CASE UNCHANGED <<handle, lock, child, caller, runs>>
  <2>1. Quietly
    BY <1>1, SilentFacts
  <2>2. handle.next \in Nat
    BY DEF PluginInv, PluginTypes
  <2>3. IdInv' /\ OnceInv' /\ SaidInv' /\ CountInv'
    BY <1>1, <2>1, <2>2, QuietChild
  <2>4. \A d \in Caller : CallerOK(d)'
    BY <1>1, <2>1, QuietOther
  <2>5. Apart'
    BY <1>1 DEF PluginInv, Apart, At
  <2>6. PluginTypes'
    <3>1. CallState' = CallState
      BY DEF CallState, Tries
    <3> QED  BY <1>1, <3>1 DEF PluginInv, PluginTypes
  <2> QED  BY <2>3, <2>4, <2>5, <2>6 DEF PluginInv
<1>2. ASSUME NEW c \in Caller,
             \/ CallBegins(c) \/ CallEnters(c) \/ CallCannotSpawn(c) \/ CallGreeted(c) \/ CallWrites(c)
             \/ CallReads(c) \/ CallTimesOut(c) \/ CallWon(c) \/ CallLost(c) \/ CallReturns(c)
      PROVE  PluginInv'
  BY <1>2, BeginsStep, EntersStep, CannotSpawnStep, GreetedStep, WritesStep, ReadsStep, TimesOutStep,
     WonStep, LostStep
<1>3. ASSUME NEW p \in DOMAIN child, ChildGreets(p) \/ ChildWorks(p) \/ ChildFails(p) \/ ChildIsSick(p)
      PROVE  PluginInv'
  BY <1>3, GreetsStep, WorksStep, FailsStep
<1>4. Second \/ UNCHANGED pluginVars => UNCHANGED <<handle, lock, child, caller, runs>>
  BY DEF Second, pluginVars
<1> QED  BY <1>1, <1>2, <1>3, <1>4 DEF PluginNext, PluginStep

\* A call of the handle of an external provider (process, mod.rs) that returns Ok has
\* the answer to its own request, and no call is carried out more often than it is
\* tried, whatever the children repeat or say.
THEOREM AnsweredAndDoneCorrect == PluginSpec => []AnsweredAndDone
<1>1. PluginInv => AnsweredAndDone
  <2> SUFFICES ASSUME PluginInv PROVE AnsweredAndDone
    OBVIOUS
  <2>1. \A c \in Caller : At(c, "ok") => caller[c].got = caller[c].req /\ runs[caller[c].req] > 0
    BY DEF PluginInv, CallerOK, At
  <2>2. ASSUME NEW r \in DOMAIN runs PROVE runs[r] <= Tries
    <3>1. runs[r] \in Nat /\ Cardinality(Pending(r)) \in Nat /\ runs[r] + Cardinality(Pending(r)) <= Tries
      BY PendingFacts DEF PluginInv, PluginTypes, CountInv
    <3>2. Tries \in Nat
      BY DEF Tries
    <3> HIDE DEF Pending, Tries
    <3> QED  BY <3>1, <3>2
  <2> QED  BY <2>1, <2>2 DEF AnsweredAndDone, Tries
<1> QED  BY <1>1, PluginInvInit, PluginInvNext, PTL DEF PluginSpec

=============================================================================
