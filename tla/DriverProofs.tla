---------------------------- MODULE DriverProofs ----------------------------
(***************************************************************************)
(* What a provider says of a resource is so, for all its specs, hosts and  *)
(* any number of applies, failing calls, stops and rollbacks.              *)
(*                                                                         *)
(* None of the three properties is inductive.  What a provider leaves on a *)
(* host is sound (Sound) since its calls are (Proper), and its checkpoints *)
(* are (Kept).  The calls that an apply has still to make lead from where  *)
(* the host is to its spec (Way), and those that the rollback of the       *)
(* oldest checkpoint has still to make lead back to where it was (Back),   *)
(* unless something has failed unnoticed.  The rest relates the host to    *)
(* the one the apply began with (Since) and to the calls (Tidy).           *)
(*                                                                         *)
(* Each of these is one predicate per provider; the lemmas about them go   *)
(* through the providers, the invariance proof through the actions.        *)
(***************************************************************************)
EXTENDS Drivers, FiniteSetTheorems, SequenceTheorems, WellFoundedInduction, TLAPS

(***************************************************************************)
(* Conditions on what is applied.                                          *)
(***************************************************************************)

\* The network that docker takes by default stands alone.
Apart(nets) == "bridge" \in nets => nets = {"bridge"}

\* More than one network are named and not docker's own.
NetsNamed(s) == s.extra # <<>> => s.net \notin {Gone, "bridge"} /\ "bridge" \notin ToSet(s.extra)

NamedNetworks ==
  "docker.container" \in Kind =>
    /\ \A s \in SpecsOf["docker.container"] : NetsNamed(s)
    /\ \A w \in WorldsOf["docker.container"] : w.box # Gone => Apart(w.box.nets)

\* Whatever is taken for the rule of a spec is in its place.
AtHome(r) ==
  \A s \in SpecsOf["firewall.rule"] :
    TagMatches(r.tag, s.tag) => r.tag = s.tag /\ PlaceOf(r) = PlaceOf(s)

AllAtHome(w) == \A i \in DOMAIN w.rules : AtHome(w.rules[i])

\* No spec has two rules.
OneRule(w) ==
  \A s \in SpecsOf["firewall.rule"] : \A i, j \in DOMAIN w.rules :
    w.rules[i].tag = s.tag /\ w.rules[j].tag = s.tag => i = j

\* Of the firewall provider: rules stay in one place, of the table that iptables
\* takes for granted, no name is taken for another, and a host has one rule of a
\* name to begin with. The code does not see to any of these.
RulesStayPut ==
  kind = "firewall.rule" =>
    /\ \A s \in SpecsOf["firewall.rule"] :
         AtHome(RuleOf(s)) /\ (Backend = "iptables" => s.table = "filter")
    /\ \A w \in WorldsOf["firewall.rule"] :
         OneRule(w) /\ AllAtHome(w)

(***************************************************************************)
(* What is on a host, in a call, a step and a checkpoint.                  *)
(***************************************************************************)
Sound(w) ==
  /\ ValidHost(kind, w)
  /\ kind = "docker.container" /\ NamedNetworks /\ w.box # Gone => Apart(w.box.nets)
  /\ kind = "firewall.rule" => AllAtHome(w)

\* Specs that docker run is called with.
RunSpecs == [ref : Ref, opts : STRING, vol : STRING, env : SUBSET STRING, cmd : STRING,
             tmpfs : BOOLEAN, net : STRING \union {Gone}, present : BOOLEAN, extra : Seq(STRING)]

ContainerCall(c) ==
  /\ ~c.soft /\ c.op \in {"pull", "stop", "remove", "run", "connect"}
  /\ c.op = "pull" => c.arg \in Ref
  /\ c.op = "run" => c.arg \in RunSpecs
  /\ c.op = "connect" => c.arg \in STRING /\ (NamedNetworks => c.arg # "bridge")

RuleCall(s, c) ==
  /\ c.op \in {"delete", "append"} /\ (c.soft => c.op = "delete")
  /\ c.arg \in Rules /\ c.arg.tag = s.tag /\ AtHome(c.arg)

CertCall(c) ==
  /\ c.op \in {"issue", "renew", "revoke", "rmcert", "rmkey", "wrcert", "wrkey"}
  /\ c.soft => c.op \in {"revoke", "rmcert", "rmkey"}
  /\ c.op = "wrcert" => c.arg \in Certs
  /\ c.op = "wrkey" => c.arg \in Nat

Proper(s, c) ==
  /\ c = [op |-> c.op, soft |-> c.soft, arg |-> c.arg] /\ c.soft \in BOOLEAN
  /\ kind = "docker.container" => ContainerCall(c)
  /\ kind = "docker.compose" => c.op \in {"write", "up", "down", "rmdir"} /\ (c.soft => c.op = "rmdir")
  /\ kind = "firewall.rule" => RuleCall(s, c)
  /\ kind = "dns.record" => c.op \in {"create", "update", "delete"}
  /\ kind = "acme.certificate" => CertCall(c)
  /\ kind = "package" => c.op \in {"install", "remove"} /\ c.arg \in STRING \union {Gone}
  /\ kind \notin {"docker.compose", "firewall.rule", "acme.certificate"} => ~c.soft

StepOf(s, step) ==
  /\ kind = "docker.container" => step \in IF s.present THEN {"pull", "recreate"} ELSE {"remove"}
  /\ kind = "dns.record" => step \in {"create", "update", "delete"}
  /\ kind = "acme.certificate" => step \in {"issue", "renew", "revoke"}
  /\ kind = "package" => step \in {"install", "remove"}

\* What a checkpoint of a container has of it.
Whole(v) ==
  /\ v \in Backups /\ "PATH" \in v.env /\ v.cmd # "none"
  /\ v.nets # {} /\ IsFiniteSet(v.nets) /\ (NamedNetworks => Apart(v.nets))

Kept(s, v) ==
  /\ kind = "docker.container" => v = Gone \/ Whole(v)
  /\ kind = "firewall.rule" => v = Gone \/ (v \in Rules /\ v.tag = s.tag /\ AtHome(v))
  /\ kind = "acme.certificate" => v \in [cert : Certs \union {Gone}, key : Nat \union {Gone}]
  /\ kind = "package" => v.version \in STRING \union {Gone}

(***************************************************************************)
(* How the host stands to the calls to come.                               *)
(***************************************************************************)

\* Networks are connected to a container that was started for them.
ConnectsOnly(calls, w) ==
  \A i \in DOMAIN calls : calls[i].op = "connect" =>
    IF i = 1 THEN w.box # Gone => "bridge" \notin w.box.nets
    ELSE \/ calls[i - 1].op = "connect"
         \/ calls[i - 1].op = "run" /\ calls[i - 1].arg.net \notin {Gone, "bridge"}

NoRuleOf(tag, w) == \A i \in DOMAIN w.rules : w.rules[i].tag # tag

\* A rule is appended when the old one has been deleted.
AppendsLast(calls, w) ==
  \A i \in DOMAIN calls : calls[i].op = "append" =>
    IF i = 1 THEN NoRuleOf(calls[i].arg.tag, w)
    ELSE calls[i - 1].op = "delete" /\ calls[i - 1].arg = calls[i].arg

Tidy(lossy, calls, w) ==
  /\ kind = "docker.container" /\ NamedNetworks => ConnectsOnly(calls, w)
  /\ kind = "firewall.rule" /\ ~lossy => OneRule(w) /\ AppendsLast(calls, w)

OtherRules(tag, w) == {w.rules[i] : i \in {j \in DOMAIN w.rules : w.rules[j].tag # tag}}

CountOthers(tag, w) == IF NoRuleOf(tag, w) THEN Len(w.rules) ELSE Len(w.rules) - 1

\* What has not changed since the apply began.
Since(s, b, w) ==
  /\ kind = "firewall.rule" => /\ OneRule(b)
                               /\ OtherRules(s.tag, w) = OtherRules(s.tag, b)
                               /\ CountOthers(s.tag, w) = CountOthers(s.tag, b)
  /\ kind = "monitoring.check" => w = b
  /\ kind = "sysctl.setting" => (b.val = Gone => w.val = Gone)

(***************************************************************************)
(* The way of an apply to its spec.                                        *)
(***************************************************************************)
NetsOf(s) == {IF s.net = Gone THEN "bridge" ELSE s.net} \union ToSet(s.extra)

\* The container of a spec, its networks aside.
Built(s, w) ==
  /\ w.box # Gone /\ w.box.running /\ w.box.ref = s.ref
  /\ w.box.id = w.loc[s.ref] /\ w.loc[s.ref] # Gone
  /\ w.box.opts = s.opts /\ w.box.vol = s.vol /\ w.box.tmpfs = s.tmpfs
  /\ w.box.env = s.env \union {"PATH"}
  /\ w.box.cmd = IF s.cmd = "none" THEN "default" ELSE s.cmd

Connecting(s, calls, w) ==
  /\ Built(s, w)
  /\ \A i \in DOMAIN calls : calls[i].op = "connect"
  /\ w.box.nets \union {calls[i].arg : i \in DOMAIN calls} = NetsOf(s)

Runs(s) == <<Call("run", s)>> \o Connects(s.extra)

\* From stopping the old container on.
Starting(s, calls, w) ==
  \/ calls = <<Call("stop", Gone)>> \o (<<Call("remove", Gone)>> \o Runs(s))
  \/ calls = <<Call("remove", Gone)>> \o Runs(s)
  \/ calls = Runs(s) /\ w.box = Gone
  \/ Connecting(s, calls, w)

Removing(calls, w) ==
  \/ calls = <<Call("stop", Gone), Call("remove", Gone)>>
  \/ calls = <<Call("remove", Gone)>>
  \/ calls = <<>> /\ w.box = Gone

ContainerWay(s, steps, calls, w) ==
  IF s.present
  THEN \/ steps = <<"pull", "recreate">> /\ calls = <<>>
       \/ steps = <<"recreate">> /\ calls \in {<<>>, <<Call("pull", s.ref)>>}
       \/ steps = <<>> /\ Starting(s, calls, w)
  ELSE \/ steps = <<"remove">> /\ calls = <<>>
       \/ steps = <<>> /\ Removing(calls, w)

StackWay(s, steps, calls, w) ==
  \/ steps = StackPlan(s) /\ calls = <<>>
  \/ /\ steps = <<>>
     /\ \/ s.present /\ calls = StackUp(s.source)
        \/ s.present /\ calls = <<Call("up", s.source)>> /\ w.file = s.source
        \/ ~s.present /\ calls = StackDown
        \/ ~s.present /\ calls = <<SoftCall("rmdir", Gone)>> /\ Services(w) = {}
        \/ calls = <<>> /\ ~StackDiffers(s, w)

\* r is the rule of its name.
TheRule(r, w) == \E i \in DOMAIN w.rules : w.rules[i] = r /\ \A j \in DOMAIN w.rules : w.rules[j].tag = r.tag => j = i

Replacing(r, calls, w) ==
  \/ calls = EnsurePresent(r)
  \/ calls = <<Call("append", r)>>
  \/ calls = <<>> /\ TheRule(r, w)

Deleting(s, calls, w) ==
  \/ calls = EnsureAbsent(RuleOf(s))
  \/ calls = <<>> /\ NoRuleOf(s.tag, w)

RuleWay(s, steps, calls, w) ==
  \/ steps = RulePlan(s) /\ calls = <<>>
  \/ steps = <<>> /\ IF s.present THEN Replacing(RuleOf(s), calls, w) ELSE Deleting(s, calls, w)

RecordWay(s, steps, calls, w) ==
  \/ steps = RecordPlan(s, w) /\ calls = <<>> /\ RecordDiffers(s, w)
  \/ /\ steps = <<>> /\ RecordDiffers(s, w)
     /\ calls = RecordCalls(s, RecordPlan(s, w)[1])
  \/ steps = <<>> /\ calls = <<>> /\ ~RecordDiffers(s, w)

CertWay(s, steps, calls, w) ==
  \/ steps = CertPlan(s, w) /\ calls = <<>>
  \/ /\ steps = <<>>
     /\ \/ s.present /\ calls \in {CertCalls("issue"), CertCalls("renew")}
        \/ ~s.present /\ calls \in {CertCalls("revoke"), Tail(CertCalls("revoke"))}
        \/ ~s.present /\ w.cert = Gone /\ calls = <<SoftCall("rmkey", Gone)>>
        \/ calls = <<>> /\ ~CertDiffers(s, w)

\* The providers with one step of one call.
SimpleWay(plan, todo, differs, steps, calls) ==
  \/ steps = plan /\ calls = <<>>
  \/ steps = <<>> /\ calls = todo
  \/ steps = <<>> /\ calls = <<>> /\ ~differs

Way(s, steps, calls, w) ==
  /\ kind = "docker.container" => ContainerWay(s, steps, calls, w)
  /\ kind = "docker.compose" => StackWay(s, steps, calls, w)
  /\ kind = "firewall.rule" => RuleWay(s, steps, calls, w)
  /\ kind = "dns.record" => RecordWay(s, steps, calls, w)
  /\ kind = "acme.certificate" => CertWay(s, steps, calls, w)
  /\ kind = "cron.job" => SimpleWay(JobPlan(s), JobCalls(s), JobDiffers(s, w), steps, calls)
  /\ kind = "package" =>
       SimpleWay(PackagePlan(s), PackageCalls(s, PackagePlan(s)[1]), PackageDiffers(s, w), steps, calls)
  /\ kind = "sysctl.setting" =>
       w.val = Gone \/ SimpleWay(<<"set">>, SettingCalls(s), SettingDiffers(s, w), steps, calls)
  /\ kind = "plugin" =>
       \E step \in {"create", "update", "delete"} :
         SimpleWay(<<step>>, ObjectCalls(s, step), ObjectDiffers(s, w), steps, calls)

(***************************************************************************)
(* The way of a rollback back.                                             *)
(***************************************************************************)
RestoreRuns(s) == <<Call("pull", s.ref)>> \o Runs(s)

ContainerBack(b, calls, w) ==
  LET r == RestoredContainer(ContainerSaved(b))
  IN IF b.box = Gone THEN Removing(calls, w)
     ELSE \/ calls = <<Call("stop", Gone)>> \o (<<Call("remove", Gone)>> \o RestoreRuns(r))
          \/ calls = <<Call("remove", Gone)>> \o RestoreRuns(r)
          \/ calls = RestoreRuns(r) /\ w.box = Gone
          \/ calls = Runs(r) /\ w.box = Gone
          \/ Connecting(r, calls, w)

StackBack(b, calls, w) ==
  IF b.file = Gone
  THEN \/ calls = StackDown
       \/ calls = <<SoftCall("rmdir", Gone)>> /\ Services(w) = {}
       \/ calls = <<>> /\ Services(w) = {} /\ w.file = Gone
  ELSE \/ calls = StackUp(b.file)
       \/ calls \in {<<>>, <<Call("up", b.file)>>} /\ w.file = b.file

RuleBack(s, b, calls, w) ==
  LET r == RuleSaved(s, b)
  IN IF r = Gone THEN Deleting(s, calls, w) ELSE Replacing(r, calls, w)

RecordBack(b, calls, w) ==
  \/ calls \in {<<Call("update", b.rec)>>, <<Call("create", b.rec)>>} /\ b.rec # Gone
  \/ calls = <<Call("delete", Gone)>> /\ b.rec = Gone
  \/ calls = <<>> /\ w.rec = b.rec

CertBack(b, calls, w) ==
  IF b.cert = Gone
  THEN \/ calls = CertUndo(CertSaved(b))
       \/ calls \in {<<>>, <<SoftCall("rmkey", Gone)>>} /\ w.cert = Gone
  ELSE \/ calls = CertUndo(CertSaved(b))
       \/ calls = <<Call("wrkey", b.key)>> /\ w.cert = b.cert
       \/ calls = <<>> /\ w.cert = b.cert /\ (b.key # Gone => w.key = b.key)

PackageBack(b, calls, w) ==
  \/ calls = PackageUndo(PackageSaved(b), w)
  \/ calls = <<>> /\ Again(b, w)

Back(s, b, calls, w) ==
  /\ kind = "docker.container" => ContainerBack(b, calls, w)
  /\ kind = "docker.compose" => StackBack(b, calls, w)
  /\ kind = "firewall.rule" => RuleBack(s, b, calls, w)
  /\ kind = "dns.record" => RecordBack(b, calls, w)
  /\ kind = "acme.certificate" => CertBack(b, calls, w)
  /\ kind = "monitoring.check" => calls = <<>>
  /\ kind = "cron.job" => calls = JobUndo(b.text) \/ (calls = <<>> /\ w = b)
  /\ kind = "package" => PackageBack(b, calls, w)
  /\ kind = "sysctl.setting" => calls = SettingUndo(b.val) \/ (calls = <<>> /\ w = b)
  /\ kind = "plugin" => calls = ObjectUndo(b.obj) \/ (calls = <<>> /\ w = b)

(***************************************************************************)
(* The invariant.                                                          *)
(***************************************************************************)
IsSeq(q) == q \in Seq(ToSet(q))

WorkOK ==
  /\ work = [steps |-> work.steps, left |-> work.left, err |-> work.err, at |-> work.at, calls |-> work.calls]
  /\ work.at \in {"idle", "step", "apply", "undo", "undoing"}
  /\ work.left \in Nat /\ work.err \in BOOLEAN
  /\ IsSeq(work.steps) /\ IsSeq(work.calls) /\ IsSeq(ckpts)
  /\ work.left <= Len(ckpts)
  /\ work.at = "idle" => work = Resting
  /\ work.at \in {"step", "undo"} => work.calls = <<>>
  /\ work.at = "apply" => ckpts # <<>>

LastOK ==
  /\ last = [spec |-> last.spec, lossy |-> last.lossy, end |-> last.end, hit |-> last.hit, moved |-> last.moved]
  /\ last.lossy \in BOOLEAN /\ last.hit \in BOOLEAN /\ last.moved \in BOOLEAN
  /\ work.at # "idle" => last.end = "open"
  /\ last.end = "none" => ckpts = <<>>
  /\ last.end # "none" => last.spec \in SpecsOf[kind]

PartsOK ==
  /\ Sound(world) /\ Sound(was)
  /\ \A i \in DOMAIN work.calls : Proper(last.spec, work.calls[i])
  /\ \A i \in DOMAIN work.steps : StepOf(last.spec, work.steps[i])
  /\ \A i \in DOMAIN ckpts : Kept(last.spec, ckpts[i])
  /\ Tidy(last.lossy, work.calls, world)

\* The apply leads to its spec.
GoingOn ==
  work.at \in {"step", "apply"} /\ ~last.hit /\ ~last.moved /\ ~last.lossy /\ NamedNetworks
    => Way(last.spec, work.steps, work.calls, world)

\* The oldest checkpoint is of the host at the beginning.
FirstKept ==
  ~last.moved =>
    /\ work.at = "step" /\ ckpts = <<>> => world = was
    /\ ckpts # <<>> => ckpts[1] = DriverSaved(last.spec, was)

\* Its rollback leads back.
GoingBack ==
  ~last.moved /\ ~last.lossy =>
    /\ last.end # "none" => Since(last.spec, was, world)
    /\ work.at \in {"undo", "undoing"} /\ work.left = 0 /\ ~work.err /\ NamedNetworks
         => Back(last.spec, was, work.calls, world)

DriverInv ==
  /\ kind \in Kind
  /\ WorkOK /\ LastOK /\ PartsOK /\ GoingOn /\ FirstKept /\ GoingBack
  /\ last.end = "applied" /\ ~last.moved => ~DriverDiffers(last.spec, world)
  /\ NamedNetworks => UndoRestores /\ RetrySucceeds

(***************************************************************************)
(* Basics.                                                                 *)
(***************************************************************************)
DriverKinds == {"docker.container", "docker.compose", "firewall.rule", "dns.record", "acme.certificate",
                "monitoring.check", "cron.job", "package", "sysctl.setting", "plugin"}

\* A sequence of some set is one of its elements.
LEMMA SeqIsSeq ==
  ASSUME NEW S, NEW q \in Seq(S)
  PROVE  IsSeq(q) /\ Len(q) \in Nat /\ DOMAIN q = 1..Len(q) /\ \A i \in DOMAIN q : q[i] \in S
  BY DEF IsSeq, ToSet

\* Its first element and the rest.
LEMMA HeadAndTail ==
  ASSUME NEW q, IsSeq(q), q # <<>>
  PROVE  /\ IsSeq(Tail(q)) /\ Len(Tail(q)) = Len(q) - 1 /\ Len(q) \in Nat \ {0}
         /\ DOMAIN q = 1..Len(q) /\ DOMAIN Tail(q) = 1..(Len(q) - 1)
         /\ 1 \in DOMAIN q /\ Head(q) = q[1]
         /\ \A i \in DOMAIN Tail(q) : i + 1 \in DOMAIN q /\ Tail(q)[i] = q[i + 1]
  <1> DEFINE S == ToSet(q)
  <1>1. q \in Seq(S)  BY DEF IsSeq
  <1> HIDE DEF S
  <1>2. Tail(q) \in Seq(S)  BY <1>1
  <1>3. IsSeq(Tail(q))  BY <1>2, SeqIsSeq
  <1> QED  BY <1>1, <1>2, <1>3

LEMMA ShortSeqs ==
  /\ IsSeq(<<>>)
  /\ \A a : IsSeq(<<a>>)
  /\ \A a, b : IsSeq(<<a, b>>)
  /\ \A a, b, c : IsSeq(<<a, b, c>>)
  <1>1. IsSeq(<<>>)  BY DEF IsSeq
  <1>2. ASSUME NEW a PROVE IsSeq(<<a>>)
    <2>1. <<a>> \in Seq({a})  OBVIOUS
    <2> QED  BY <2>1, SeqIsSeq
  <1>3. ASSUME NEW a, NEW b PROVE IsSeq(<<a, b>>)
    <2>1. <<a, b>> \in Seq({a, b})  OBVIOUS
    <2> QED  BY <2>1, SeqIsSeq
  <1>4. ASSUME NEW a, NEW b, NEW c PROVE IsSeq(<<a, b, c>>)
    <2>1. <<a, b, c>> \in Seq({a, b, c})  OBVIOUS
    <2> QED  BY <2>1, SeqIsSeq
  <1> QED  BY <1>1, <1>2, <1>3, <1>4

\* An element in front of a sequence.
LEMMA InFront ==
  ASSUME NEW a, NEW q, IsSeq(q)
  PROVE  /\ IsSeq(<<a>> \o q) /\ <<a>> \o q # <<>>
         /\ Head(<<a>> \o q) = a /\ Tail(<<a>> \o q) = q
         /\ Len(<<a>> \o q) = Len(q) + 1 /\ Len(q) \in Nat
         /\ DOMAIN q = 1..Len(q) /\ DOMAIN (<<a>> \o q) = 1..(Len(q) + 1)
         /\ (<<a>> \o q)[1] = a
         /\ \A i \in DOMAIN q : (<<a>> \o q)[i + 1] = q[i]
  <1> DEFINE S == ToSet(q) \union {a}
  <1>1. q \in Seq(S)
    <2>1. q \in Seq(ToSet(q))  BY DEF IsSeq
    <2>2. ToSet(q) \subseteq S  OBVIOUS
    <2> QED  BY <2>1, <2>2
  <1>2. a \in S  OBVIOUS
  <1> HIDE DEF S
  <1>3. <<a>> \in Seq(S)  BY <1>2
  <1>4. <<a>> \o q \in Seq(S)  BY <1>1, <1>3
  <1>5. IsSeq(<<a>> \o q)  BY <1>4, SeqIsSeq
  <1>6. Len(<<a>> \o q) = Len(q) + 1 /\ Len(q) \in Nat  BY <1>1, <1>3
  <1>7. (<<a>> \o q)[1] = a  BY <1>1, <1>3
  <1>8. \A i \in DOMAIN q : (<<a>> \o q)[i + 1] = q[i]  BY <1>1, <1>3
  <1>9. Tail(<<a>> \o q) = q
    <2> DEFINE z == Tail(<<a>> \o q)
    <2>1. z \in Seq(S) /\ Len(z) = Len(q)  BY <1>4, <1>6
    <2>2. \A i \in 1..Len(q) : z[i] = q[i]  BY <1>1, <1>4, <1>6, <1>8
    <2> QED  BY <2>1, <2>2, <1>1
  <1> QED  BY <1>1, <1>3, <1>4, <1>5, <1>6, <1>7, <1>8, <1>9


LEMMA OneOfTheKinds ==
  ASSUME kind \in Kind
  PROVE  kind \in DriverKinds
  BY DriversAssumption DEF DriverKinds

LEMMA SpecIsValid ==
  ASSUME kind \in Kind, NEW s \in SpecsOf[kind]
  PROVE  ValidSpec(kind, s)
  BY DriversAssumption

(***************************************************************************)
(* Hosts, specs, steps, calls and checkpoints.                             *)
(***************************************************************************)

\* What a provider begins with.
LEMMA WorldsAreSound ==
  ASSUME RulesStayPut, kind \in Kind, NEW w \in WorldsOf[kind]
  PROVE  Sound(w) /\ \A b \in BOOLEAN : Tidy(b, <<>>, w)
  <1>1. ValidHost(kind, w)  BY DriversAssumption
  <1>2. CASE kind = "docker.container"
    BY <1>1, <1>2 DEF Sound, NamedNetworks, Tidy, ConnectsOnly
  <1>3. CASE kind = "firewall.rule"
    BY <1>1, <1>3 DEF Sound, RulesStayPut, Tidy, AppendsLast
  <1> QED  BY <1>1, <1>2, <1>3 DEF Sound, Tidy

LEMMA ChangesFromOutside ==
  ASSUME NEW w, Sound(w), NEW x \in Outside(w)
  PROVE  Sound(x) /\ \A b \in BOOLEAN : \A q : Tidy(b, q, w) => Tidy(b, q, x)
  <1>1. CASE kind = "docker.container"
    <2>1. PICK r \in DOMAIN w.reg : x = [w EXCEPT !.reg[r] = @ + 1]
      BY <1>1 DEF Outside
    <2>2. ContainerHost(w)  BY <1>1 DEF Sound, ValidHost
    <2>3. x.loc = w.loc /\ x.box = w.box /\ x.reg \in [Ref -> Nat]
          /\ x = [reg |-> x.reg, loc |-> x.loc, box |-> x.box]
      BY <2>1, <2>2 DEF ContainerHost
    <2>4. ContainerHost(x)  BY <2>2, <2>3 DEF ContainerHost
    <2> QED  BY <1>1, <2>3, <2>4 DEF Sound, ValidHost, Tidy, ConnectsOnly
  <1>2. CASE kind = "acme.certificate"
    <2>1. CertHost(w) /\ x \in CertAges(w)  BY <1>2 DEF Sound, ValidHost, Outside
    <2>2. w.cert \in Certs /\ x = [w EXCEPT !.cert = [w.cert EXCEPT !.fresh = FALSE]]
      BY <2>1 DEF CertHost, CertAges
    <2>3. [w.cert EXCEPT !.fresh = FALSE] \in Certs  BY <2>2 DEF Certs
    <2>4. CertHost(x)  BY <2>1, <2>2, <2>3 DEF CertHost
    <2> QED  BY <1>2, <2>4 DEF Sound, ValidHost, Tidy
  <1>3. CASE kind = "monitoring.check"
    BY <1>3 DEF Outside, Sound, ValidHost, CheckHost, Tidy
  <1> QED  BY <1>1, <1>2, <1>3 DEF Outside

LEMMA PlanIsOfSteps ==
  ASSUME kind \in Kind, NEW s \in SpecsOf[kind], NEW w
  PROVE  IsSeq(DriverPlan(s, w)) /\ \A i \in DOMAIN DriverPlan(s, w) : StepOf(s, DriverPlan(s, w)[i])
  <1> USE ShortSeqs
  <1>1. CASE kind = "docker.container"  BY <1>1 DEF DriverPlan, ContainerPlan, StepOf
  <1>2. CASE kind = "docker.compose"    BY <1>2 DEF DriverPlan, StackPlan, StepOf
  <1>3. CASE kind = "firewall.rule"     BY <1>3 DEF DriverPlan, RulePlan, StepOf
  <1>4. CASE kind = "dns.record"        BY <1>4 DEF DriverPlan, RecordPlan, StepOf
  <1>5. CASE kind = "acme.certificate"  BY <1>5 DEF DriverPlan, CertPlan, StepOf
  <1>6. CASE kind = "monitoring.check"  BY <1>6 DEF DriverPlan, StepOf
  <1>7. CASE kind = "cron.job"          BY <1>7 DEF DriverPlan, JobPlan, StepOf
  <1>8. CASE kind = "package"           BY <1>8 DEF DriverPlan, PackagePlan, StepOf
  <1>9. CASE kind = "sysctl.setting"    BY <1>9 DEF DriverPlan, StepOf
  <1>10. CASE kind = "plugin"           BY <1>10 DEF DriverPlan, ObjectPlan, StepOf
  <1> QED  BY <1>1, <1>2, <1>3, <1>4, <1>5, <1>6, <1>7, <1>8, <1>9, <1>10, OneOfTheKinds DEF DriverKinds

\* Any finite set can be listed.
LEMMA ListOfSet ==
  ASSUME NEW S, IsFiniteSet(S)
  PROVE  SetToSeq(S) \in Seq(S) /\ ToSet(SetToSeq(S)) = S
  <1> DEFINE n == Cardinality(S)
             f == SetToSeq(S)
  <1>1. n \in Nat /\ ExistsBijection(1..n, S)  BY FS_CardinalityType
  <1>2. PICK g \in Bijection(1..n, S) : TRUE  BY <1>1 DEF ExistsBijection
  <1>3. g \in [1..n -> S] /\ IsInjective(g)  BY <1>2 DEF Bijection, Injection, IsInjective
  <1>4. f \in [1..n -> S] /\ IsInjective(f)  BY <1>3 DEF SetToSeq
  <1>5. f \in Injection(1..n, S)  BY <1>4 DEF Injection, IsInjective
  <1>6. IsFiniteSet(1..n) /\ Cardinality(1..n) = n  BY <1>1, FS_Interval
  <1>7. f \in Surjection(1..n, S)  BY <1>5, <1>6, FS_Injection
  <1>8. f \in Seq(S)  BY <1>1, <1>4
  <1>9. \A x \in S : \E i \in 1..n : f[i] = x  BY <1>7 DEF Surjection
  <1>10. DOMAIN f = 1..n  BY <1>4
  <1> HIDE DEF f
  <1>11. ToSet(f) = S  BY <1>4, <1>9, <1>10 DEF ToSet
  <1> QED  BY <1>8, <1>11 DEF f

LEMMA ConnectsOfNets ==
  ASSUME NEW nets \in Seq(STRING)
  PROVE  /\ IsSeq(Connects(nets)) /\ Len(Connects(nets)) = Len(nets)
         /\ DOMAIN Connects(nets) = DOMAIN nets /\ DOMAIN nets = 1..Len(nets) /\ Len(nets) \in Nat
         /\ \A i \in DOMAIN nets : Connects(nets)[i] = Call("connect", nets[i]) /\ nets[i] \in STRING
         /\ {Connects(nets)[i].arg : i \in DOMAIN Connects(nets)} = ToSet(nets)
  <1> DEFINE q == Connects(nets)
             S == ToSet(q)
  <1>1. q = [i \in 1..Len(nets) |-> Call("connect", nets[i])]  BY DEF Connects
  <1>2. Len(nets) \in Nat /\ DOMAIN nets = 1..Len(nets)  OBVIOUS
  <1>3. DOMAIN q = 1..Len(nets) /\ \A i \in 1..Len(nets) : q[i] = Call("connect", nets[i])  BY <1>1
  <1>4. \A i \in 1..Len(nets) : q[i] \in S  BY <1>3 DEF ToSet
  <1>5. q \in [1..Len(nets) -> S]  BY <1>1, <1>3, <1>4
  <1> HIDE DEF q, S
  <1>6. q \in Seq(S) /\ Len(q) = Len(nets)  BY <1>5, <1>2
  <1>7. IsSeq(q)  BY <1>6, SeqIsSeq
  <1>8. {q[i].arg : i \in DOMAIN q} = ToSet(nets)  BY <1>2, <1>3 DEF ToSet, Call
  <1> QED  BY <1>2, <1>3, <1>6, <1>7, <1>8 DEF q

\* What rollback makes of a checkpoint.
LEMMA RestoredIsWhole ==
  ASSUME NEW v, Whole(v)
  PROVE  /\ RestoredContainer(v) \in RunSpecs
         /\ RestoredContainer(v) =
              [present |-> TRUE, ref |-> v.ref, opts |-> v.opts, vol |-> v.vol, env |-> v.env,
               cmd |-> v.cmd, tmpfs |-> FALSE, net |-> RestoredContainer(v).net,
               extra |-> RestoredContainer(v).extra]
         /\ NetsNamed(RestoredContainer(v))
         /\ NamedNetworks => NetsOf(RestoredContainer(v)) = v.nets
  <1> DEFINE F == v.nets \ {"bridge"}
             nets == SetToSeq(F)
             r == RestoredContainer(v)
  <1>1. v.nets \subseteq STRING /\ v.nets # {} /\ IsFiniteSet(v.nets)  BY DEF Whole, Backups
  <1>2. IsFiniteSet(F)  BY <1>1, FS_Subset
  <1>3. nets \in Seq(F) /\ ToSet(nets) = F  BY <1>2, ListOfSet
  <1>4. r = [present |-> TRUE, ref |-> v.ref, opts |-> v.opts, vol |-> v.vol, env |-> v.env,
             cmd |-> v.cmd, tmpfs |-> FALSE,
             net |-> IF nets = <<>> THEN Gone ELSE Head(nets),
             extra |-> IF nets = <<>> THEN <<>> ELSE Tail(nets)]
    BY DEF RestoredContainer
  <1> HIDE DEF nets, r
  <1>5. nets \in Seq(STRING)  BY <1>1, <1>3
  <1>6. CASE nets = <<>>
    <2>1. r.net = Gone /\ r.extra = <<>>  BY <1>4, <1>6
    <2>2. F = {}  BY <1>3, <1>6 DEF ToSet
    <2>3. v.nets = {"bridge"}  BY <1>1, <2>2
    <2>4. r \in RunSpecs
      <3>1. <<>> \in Seq(STRING)  OBVIOUS
      <3> QED  BY <1>4, <1>6, <3>1 DEF Whole, Backups, RunSpecs
    <2>5. NetsNamed(r)  BY <2>1 DEF NetsNamed
    <2>6. ToSet(<<>>) = {}  BY DEF ToSet
    <2>7. NetsOf(r) = v.nets  BY <2>1, <2>3, <2>6 DEF NetsOf
    <2> QED  BY <1>4, <2>1, <2>4, <2>5, <2>7 DEF r
  <1>7. CASE nets # <<>>
    <2>1. r.net = Head(nets) /\ r.extra = Tail(nets)  BY <1>4, <1>7
    <2>2. Head(nets) \in F /\ Tail(nets) \in Seq(F) /\ Tail(nets) \in Seq(STRING)  BY <1>3, <1>5, <1>7
    <2>3. Head(nets) \in STRING /\ Head(nets) # "bridge"  BY <2>2, <1>1
    <2>4. r \in RunSpecs  BY <1>4, <2>1, <2>2, <2>3 DEF Whole, Backups, RunSpecs
    <2>5. "bridge" \notin ToSet(Tail(nets))
      <3>1. \A i \in DOMAIN Tail(nets) : Tail(nets)[i] \in F  BY <2>2, SeqIsSeq
      <3> QED  BY <3>1 DEF ToSet
    <2>6. Head(nets) # Gone  BY <2>3, GoneAssumption
    <2>7. NetsNamed(r)  BY <2>1, <2>3, <2>5, <2>6 DEF NetsNamed
    <2>8. {Head(nets)} \union ToSet(Tail(nets)) = ToSet(nets)
      <3>1. IsSeq(nets)  BY <1>5, SeqIsSeq
      <3>2. /\ DOMAIN nets = 1..Len(nets) /\ Len(nets) \in Nat \ {0} /\ DOMAIN Tail(nets) = 1..(Len(nets) - 1)
            /\ Head(nets) = nets[1]
            /\ \A i \in DOMAIN Tail(nets) : Tail(nets)[i] = nets[i + 1]
        BY <3>1, <1>7, HeadAndTail
      <3>4. \A i \in 1..Len(nets) : nets[i] \in {Head(nets)} \union ToSet(Tail(nets))
        <4> SUFFICES ASSUME NEW i \in 1..Len(nets), i # 1 PROVE nets[i] \in ToSet(Tail(nets))
          BY <3>2
        <4>1. i - 1 \in DOMAIN Tail(nets) /\ (i - 1) + 1 = i  BY <3>2
        <4>2. Tail(nets)[i - 1] = nets[i]  BY <3>2, <4>1
        <4> QED  BY <4>1, <4>2 DEF ToSet
      <3>5. \A i \in 1..(Len(nets) - 1) : i + 1 \in 1..Len(nets)  BY <3>2
      <3> QED  BY <3>2, <3>4, <3>5 DEF ToSet
    <2>9. ASSUME NamedNetworks PROVE NetsOf(r) = v.nets
      <3>1. Apart(v.nets)  BY <2>9 DEF Whole
      <3>2. F = v.nets  BY <3>1, <2>2 DEF Apart
      <3> QED  BY <3>2, <2>1, <2>6, <2>8, <1>3 DEF NetsOf
    <2> QED  BY <1>4, <2>1, <2>4, <2>7, <2>9 DEF r
  <1> QED  BY <1>6, <1>7

(***************************************************************************)
(* The listing of a firewall.                                              *)
(***************************************************************************)

\* Every set of numbers has a least one.
LEMMA LeastExists ==
  ASSUME NEW T, T \subseteq Nat, T # {}
  PROVE  Least(T) \in T /\ \A j \in T : Least(T) <= j
  <1>1. \E x \in T : \A y \in T : ~(<<y, x>> \in OpToRel(<, Nat))  BY NatLessThanWellFounded, WFMin
  <1>2. PICK x \in T : \A y \in T : ~(<<y, x>> \in OpToRel(<, Nat))  BY <1>1
  <1>3. \A y \in T : x <= y
    <2> SUFFICES ASSUME NEW y \in T, ~(x <= y) PROVE FALSE  OBVIOUS
    <2>1. y < x /\ x \in Nat /\ y \in Nat  OBVIOUS
    <2>2. <<y, x>> \in OpToRel(<, Nat)  BY <2>1 DEF OpToRel
    <2> QED  BY <1>2, <2>2
  <1> QED  BY <1>3 DEF Least

\* Without a rule of its tag a query finds nothing.  With one it finds the first
\* of them, as it is.
LEMMA QueryFinds ==
  ASSUME RulesStayPut, kind \in Kind, kind = "firewall.rule", NEW s \in SpecsOf[kind], NEW w, Sound(w)
  PROVE  \/ Query(s.tag, w) = Gone /\ NoRuleOf(s.tag, w)
         \/ /\ Query(s.tag, w) # Gone
            /\ \E i \in DOMAIN w.rules : /\ Query(s.tag, w) = w.rules[i] /\ w.rules[i].tag = s.tag
                                         /\ w.rules[i] \in Rules
  <1> DEFINE found == {i \in DOMAIN w.rules : TagMatches(w.rules[i].tag, s.tag)}
             Before(i, j) == LET a == Index(PlaceOf(w.rules[i]))  b == Index(PlaceOf(w.rules[j]))
                             IN a < b \/ (a = b /\ i <= j)
             k == CHOOSE i \in found : \A j \in found : Before(i, j)
             r == w.rules[k]
  <1>1. w.rules \in Seq(Rules) /\ AllAtHome(w)
    BY DEF Sound, ValidHost, RuleHost
  <1>2. DOMAIN w.rules \subseteq Nat  BY <1>1
  <1>8. found \subseteq DOMAIN w.rules  OBVIOUS
  <1>3. \A i \in found : w.rules[i].tag = s.tag /\ PlaceOf(w.rules[i]) = PlaceOf(s)
    BY <1>1 DEF AtHome, AllAtHome
  <1>4. \A i \in DOMAIN w.rules : w.rules[i].tag = s.tag => i \in found  BY DEF TagMatches
  <1>5. Query(s.tag, w) = IF found = {} THEN Gone
                          ELSE IF Backend = "iptables" THEN ParsedSave(r, s.tag) ELSE ParsedNft(r, s.tag)
    BY DEF Query
  <1>6. CASE found = {}
    <2>1. NoRuleOf(s.tag, w)  BY <1>4, <1>6 DEF NoRuleOf
    <2> QED  BY <1>5, <1>6, <2>1
  <1>7. CASE found # {}
    <2>1. PlaceOf(s) \in ToSet(Places)  BY SpecIsValid DEF ValidSpec, ValidRule
    <2>2. \A i, j \in found : Before(i, j) <=> i <= j
      <3> SUFFICES ASSUME NEW i \in found, NEW j \in found PROVE Before(i, j) <=> i <= j
        OBVIOUS
      <3> DEFINE p == Index(PlaceOf(s))
      <3>1. Index(PlaceOf(w.rules[i])) = p /\ Index(PlaceOf(w.rules[j])) = p  BY <1>3
      <3>2. p \in DOMAIN Places  BY <2>1 DEF Index, ToSet
      <3>3. p \in Nat  BY <3>2, NetAssumption
      <3> HIDE DEF p
      <3> QED  BY <1>2, <3>1, <3>3
    <2>3. Least(found) \in found /\ \A j \in found : Least(found) <= j  BY <1>2, <1>7, LeastExists
    <2>4. k \in found  BY <2>2, <2>3
    <2> HIDE DEF k, found, Before
    <2>5. r \in Rules /\ r.tag = s.tag /\ PlaceOf(r) = PlaceOf(s)  BY <1>1, <1>3, <1>8, <2>4
    <2>6. Query(s.tag, w) = r
      <3>1. Backend = "iptables" => r.table = "filter"  BY <2>5 DEF RulesStayPut, PlaceOf
      <3> HIDE DEF r
      <3>2. r = [tag |-> r.tag, table |-> r.table, chain |-> r.chain, body |-> r.body]  BY <2>5 DEF Rules
      <3> QED  BY <1>5, <1>7, <2>5, <3>1, <3>2 DEF ParsedSave, ParsedNft
    <2>7. r # Gone  BY <2>5, RulesAssumption
    <2> QED  BY <1>8, <2>4, <2>5, <2>6, <2>7
  <1> QED  BY <1>6, <1>7

LEMMA QueryIsKept ==
  ASSUME RulesStayPut, kind \in Kind, kind = "firewall.rule", NEW s \in SpecsOf[kind], NEW w, Sound(w)
  PROVE  Kept(s, Query(s.tag, w))
  <1>1. AllAtHome(w)  BY DEF Sound
  <1> QED  BY <1>1, QueryFinds DEF Kept, AllAtHome

\* What is kept of a container is what there was of it.
LEMMA SavedIsWhole ==
  ASSUME kind = "docker.container", NEW b, Sound(b), b.box # Gone
  PROVE  LET v == ContainerSaved(b)
         IN /\ Whole(v) /\ v # Gone
            /\ v.ref = b.box.ref /\ v.opts = b.box.opts /\ v.vol = Canonical(b.box.vol)
            /\ v.env = b.box.env /\ v.cmd = b.box.cmd /\ v.nets = b.box.nets
  <1>1. ContainerHost(b)  BY DEF Sound, ValidHost
  <1>2. b.box \in Boxes /\ "PATH" \in b.box.env /\ b.box.cmd # "none"
        /\ b.box.nets # {} /\ IsFiniteSet(b.box.nets)
    BY <1>1 DEF ContainerHost
  <1>3. b.box.vol \in STRING  BY <1>2 DEF Boxes
  <1>4. Canonical(b.box.vol) \in STRING  BY <1>3, StringAssumption DEF Canonical
  <1>5. Inspected(b).vol = Canonical(b.box.vol)  BY <1>2 DEF Inspected, Boxes
  <1> DEFINE v == ContainerSaved(b)
  <1>6. v = [present |-> TRUE, ref |-> b.box.ref, opts |-> b.box.opts, vol |-> Canonical(b.box.vol),
             env |-> b.box.env, cmd |-> b.box.cmd, nets |-> b.box.nets]
    BY <1>5 DEF ContainerSaved
  <1> HIDE DEF v
  <1>7. v \in Backups  BY <1>2, <1>4, <1>6 DEF Boxes, Backups
  <1>8. v # Gone  BY <1>7, GoneAssumption
  <1>9. NamedNetworks => Apart(b.box.nets)  BY DEF Sound
  <1>10. Whole(v)  BY <1>2, <1>6, <1>7, <1>9 DEF Whole
  <1> QED  BY <1>6, <1>8, <1>10 DEF v

LEMMA SavedIsKept ==
  ASSUME RulesStayPut, kind \in Kind, NEW s \in SpecsOf[kind], NEW w, Sound(w)
  PROVE  Kept(s, DriverSaved(s, w))
  <1>0. ValidHost(kind, w)  BY DEF Sound
  <1>1. CASE kind = "docker.container"
    <2>1. DriverSaved(s, w) = ContainerSaved(w)  BY <1>1 DEF DriverSaved
    <2>3. CASE w.box = Gone  BY <1>1, <2>1, <2>3 DEF ContainerSaved, Kept
    <2>4. CASE w.box # Gone
      <3>1. Whole(ContainerSaved(w))  BY <1>1, <2>4, SavedIsWhole
      <3> QED  BY <1>1, <2>1, <3>1 DEF Kept
    <2> QED  BY <2>3, <2>4
  <1>2. CASE kind = "firewall.rule"
    <2>1. DriverSaved(s, w) = Query(s.tag, w)  BY <1>2 DEF DriverSaved, RuleSaved
    <2> QED  BY <1>2, <2>1, QueryIsKept
  <1>3. CASE kind = "acme.certificate"
    BY <1>0, <1>3 DEF DriverSaved, CertSaved, Kept, ValidHost, CertHost
  <1>4. CASE kind = "package"
    BY <1>0, <1>4 DEF DriverSaved, PackageSaved, Kept, ValidHost, PackageHost
  <1> QED  BY <1>1, <1>2, <1>3, <1>4 DEF Kept

(***************************************************************************)
(* The calls of an apply and of a rollback.                                *)
(***************************************************************************)
AllProper(s, q) == IsSeq(q) /\ \A i \in DOMAIN q : Proper(s, q[i])

LEMMA FewProper ==
  ASSUME NEW s
  PROVE  /\ AllProper(s, <<>>)
         /\ \A a : Proper(s, a) => AllProper(s, <<a>>)
         /\ \A a, b : Proper(s, a) /\ Proper(s, b) => AllProper(s, <<a, b>>)
         /\ \A a, b, c : Proper(s, a) /\ Proper(s, b) /\ Proper(s, c) => AllProper(s, <<a, b, c>>)
  <1>1. AllProper(s, <<>>)  BY ShortSeqs DEF AllProper
  <1>2. \A a : Proper(s, a) => AllProper(s, <<a>>)  BY ShortSeqs DEF AllProper
  <1>3. ASSUME NEW a, NEW b, Proper(s, a), Proper(s, b) PROVE AllProper(s, <<a, b>>)
    <2>1. IsSeq(<<a, b>>) /\ DOMAIN <<a, b>> = {1, 2} /\ <<a, b>>[1] = a /\ <<a, b>>[2] = b
      BY ShortSeqs
    <2> QED  BY <1>3, <2>1 DEF AllProper
  <1>4. ASSUME NEW a, NEW b, NEW c, Proper(s, a), Proper(s, b), Proper(s, c) PROVE AllProper(s, <<a, b, c>>)
    <2>1. IsSeq(<<a, b, c>>) /\ DOMAIN <<a, b, c>> = {1, 2, 3}
          /\ <<a, b, c>>[1] = a /\ <<a, b, c>>[2] = b /\ <<a, b, c>>[3] = c
      BY ShortSeqs
    <2> QED  BY <1>4, <2>1 DEF AllProper
  <1> QED  BY <1>1, <1>2, <1>3, <1>4

\* Connections follow one another or the start of a container that has them.
Linked(q) ==
  \A i \in DOMAIN q : q[i].op = "connect" =>
    /\ i # 1
    /\ \/ q[i - 1].op = "connect"
       \/ q[i - 1].op = "run" /\ q[i - 1].arg.net \notin {Gone, "bridge"}

LEMMA LinkedInFront ==
  ASSUME NEW s, NEW q, AllProper(s, q), NamedNetworks => Linked(q),
         NEW c, Proper(s, c), c.op # "connect"
  PROVE  AllProper(s, <<c>> \o q) /\ (NamedNetworks => Linked(<<c>> \o q))
  <1> DEFINE z == <<c>> \o q
  <1>1. /\ IsSeq(z) /\ Len(q) \in Nat /\ DOMAIN q = 1..Len(q) /\ DOMAIN z = 1..(Len(q) + 1)
        /\ z[1] = c /\ \A i \in DOMAIN q : z[i + 1] = q[i]
    BY InFront DEF AllProper
  <1> HIDE DEF z
  <1>2. \A i \in DOMAIN z : i = 1 \/ (i - 1 \in DOMAIN q /\ z[i] = q[i - 1])
    <2> SUFFICES ASSUME NEW i \in DOMAIN z, i # 1 PROVE i - 1 \in DOMAIN q /\ z[i] = q[i - 1]
      OBVIOUS
    <2>1. i - 1 \in DOMAIN q /\ (i - 1) + 1 = i  BY <1>1
    <2> QED  BY <1>1, <2>1
  <1>3. AllProper(s, z)  BY <1>1, <1>2 DEF AllProper
  <1>4. ASSUME NamedNetworks, NEW i \in DOMAIN z, z[i].op = "connect"
        PROVE  i # 1 /\ \/ z[i - 1].op = "connect"
                        \/ z[i - 1].op = "run" /\ z[i - 1].arg.net \notin {Gone, "bridge"}
    <2>1. i # 1 /\ i - 1 \in DOMAIN q /\ z[i] = q[i - 1]  BY <1>1, <1>2, <1>4
    <2>2. i - 1 # 1  BY <1>4, <2>1 DEF Linked
    <2>3. z[i - 1] = q[(i - 1) - 1]  BY <1>1, <1>2, <2>1, <2>2
    <2> QED  BY <1>4, <2>1, <2>3 DEF Linked
  <1> QED  BY <1>3, <1>4 DEF z, Linked

LEMMA LinkedIsTidy ==
  ASSUME kind = "docker.container", NEW q, NamedNetworks => Linked(q), NEW w, NEW b
  PROVE  Tidy(b, q, w)
  BY DEF Tidy, Linked, ConnectsOnly

LEMMA RunsAreProper ==
  ASSUME kind = "docker.container", NEW s, NEW r \in RunSpecs, NamedNetworks => NetsNamed(r)
  PROVE  AllProper(s, Runs(r)) /\ (NamedNetworks => Linked(Runs(r)))
  <1> DEFINE q == Connects(r.extra)
             c == Call("run", r)
             z == <<c>> \o q
  <1>1. r.extra \in Seq(STRING)  BY DEF RunSpecs
  <1>2. /\ IsSeq(q) /\ DOMAIN q = DOMAIN r.extra /\ DOMAIN q = 1..Len(r.extra) /\ Len(r.extra) \in Nat
        /\ Len(q) = Len(r.extra)
        /\ \A i \in DOMAIN q : q[i] = Call("connect", r.extra[i]) /\ r.extra[i] \in STRING
    BY <1>1, ConnectsOfNets
  <1>3. NamedNetworks => \A i \in DOMAIN r.extra : r.extra[i] # "bridge"
    BY <1>1 DEF NetsNamed, ToSet
  <1> HIDE DEF q
  <1>4. ASSUME NEW i \in DOMAIN q PROVE Proper(s, q[i]) /\ q[i].op = "connect"
    <2>1. q[i] = [op |-> "connect", soft |-> FALSE, arg |-> r.extra[i]] /\ r.extra[i] \in STRING
      BY <1>2, <1>4 DEF Call
    <2>2. NamedNetworks => r.extra[i] # "bridge"  BY <1>2, <1>3, <1>4
    <2> QED  BY <2>1, <2>2 DEF Proper, ContainerCall
  <1>5. Proper(s, c)  BY DEF Proper, ContainerCall, Call
  <1>6. /\ IsSeq(z) /\ Len(q) \in Nat /\ DOMAIN q = 1..Len(q) /\ DOMAIN z = 1..(Len(q) + 1)
        /\ z[1] = c /\ \A i \in DOMAIN q : z[i + 1] = q[i]
    BY <1>2, InFront
  <1>7. c.op = "run" /\ c.arg = r  BY DEF Call
  <1> HIDE DEF c
  <1> HIDE DEF z
  <1>8. \A i \in DOMAIN z : i = 1 \/ (i - 1 \in DOMAIN q /\ z[i] = q[i - 1])
    <2> SUFFICES ASSUME NEW i \in DOMAIN z, i # 1 PROVE i - 1 \in DOMAIN q /\ z[i] = q[i - 1]
      OBVIOUS
    <2>1. i - 1 \in DOMAIN q /\ (i - 1) + 1 = i  BY <1>6
    <2> QED  BY <1>6, <2>1
  <1>9. AllProper(s, z)  BY <1>4, <1>5, <1>6, <1>8 DEF AllProper
  <1>10. ASSUME NamedNetworks, NEW i \in DOMAIN z, z[i].op = "connect"
         PROVE  i # 1 /\ \/ z[i - 1].op = "connect"
                         \/ z[i - 1].op = "run" /\ z[i - 1].arg.net \notin {Gone, "bridge"}
    <2>1. i # 1 /\ i - 1 \in DOMAIN q  BY <1>6, <1>7, <1>8, <1>10
    <2>2. CASE i - 1 = 1
      <3>1. r.extra # <<>>  BY <1>2, <2>1
      <3>2. r.net \notin {Gone, "bridge"}  BY <1>10, <3>1 DEF NetsNamed
      <3>3. z[i - 1] = c  BY <1>6, <2>2
      <3> QED  BY <1>7, <2>1, <3>2, <3>3
    <2>3. CASE i - 1 # 1
      <3>1. i - 1 \in DOMAIN z  BY <1>6, <2>1
      <3>2. (i - 1) - 1 \in DOMAIN q /\ z[i - 1] = q[(i - 1) - 1]  BY <1>8, <2>3, <3>1
      <3>3. z[i - 1].op = "connect"  BY <1>4, <3>2
      <3> QED  BY <2>1, <3>3
    <2> QED  BY <2>2, <2>3
  <1>11. z = Runs(r)  BY DEF z, c, q, Runs
  <1> QED  BY <1>9, <1>10, <1>11 DEF Linked

LEMMA TwoInFront ==
  ASSUME NEW q, IsSeq(q), NEW a, NEW b
  PROVE  <<a, b>> \o q = <<a>> \o (<<b>> \o q)
  <1> DEFINE S == ToSet(q) \union {a, b}
             x == <<a>> \o <<b>>
  <1>1. q \in Seq(ToSet(q)) /\ ToSet(q) \subseteq S  BY DEF IsSeq
  <1>2. q \in Seq(S) /\ a \in S /\ b \in S  BY <1>1
  <1> HIDE DEF S
  <1>3. <<a>> \in Seq(S) /\ <<b>> \in Seq(S)  BY <1>2
  <1>4. x \in Seq(S) /\ Len(x) = 2 /\ x[1] = a /\ x[2] = b  BY <1>3
  <1>5. x \o q = <<a>> \o (<<b>> \o q)  BY <1>2, <1>3
  <1> HIDE DEF x
  <1>6. x = <<a, b>>  BY <1>4
  <1> QED  BY <1>5, <1>6

LEMMA ThreeInFront ==
  ASSUME NEW q, IsSeq(q), NEW a, NEW b, NEW c
  PROVE  <<a, b, c>> \o q = <<a>> \o (<<b>> \o (<<c>> \o q))
  <1> DEFINE S == ToSet(q) \union {a, b, c}
             x == <<a, b>> \o <<c>>
  <1>1. q \in Seq(ToSet(q)) /\ ToSet(q) \subseteq S  BY DEF IsSeq
  <1>2. q \in Seq(S) /\ a \in S /\ b \in S /\ c \in S  BY <1>1
  <1> HIDE DEF S
  <1>3. <<a, b>> \in Seq(S) /\ <<c>> \in Seq(S)  BY <1>2
  <1>4. x \in Seq(S) /\ Len(x) = 3 /\ x[1] = a /\ x[2] = b /\ x[3] = c  BY <1>3
  <1>5. x \o q = <<a, b>> \o (<<c>> \o q)  BY <1>2, <1>3
  <1> HIDE DEF x
  <1>6. x = <<a, b, c>>  BY <1>4
  <1>7. IsSeq(<<c>> \o q)  BY InFront
  <1>8. <<a, b>> \o (<<c>> \o q) = <<a>> \o (<<b>> \o (<<c>> \o q))  BY <1>7, TwoInFront
  <1> QED  BY <1>5, <1>6, <1>8

\* stop and remove of a container, alone and before what follows.
LEMMA StopIsProper ==
  ASSUME kind = "docker.container", NEW s
  PROVE  /\ Proper(s, Call("stop", Gone)) /\ Proper(s, Call("remove", Gone))
         /\ Call("stop", Gone).op # "connect" /\ Call("remove", Gone).op # "connect"
         /\ AllProper(s, <<Call("stop", Gone), Call("remove", Gone)>>)
         /\ Linked(<<Call("stop", Gone), Call("remove", Gone)>>)
         /\ \A q : AllProper(s, q) /\ (NamedNetworks => Linked(q)) =>
              /\ AllProper(s, <<Call("remove", Gone)>> \o q)
              /\ AllProper(s, <<Call("stop", Gone)>> \o (<<Call("remove", Gone)>> \o q))
              /\ NamedNetworks => Linked(<<Call("stop", Gone)>> \o (<<Call("remove", Gone)>> \o q))
  <1>1. Proper(s, Call("stop", Gone)) /\ Proper(s, Call("remove", Gone))
        /\ Call("stop", Gone).op # "connect" /\ Call("remove", Gone).op # "connect"
    BY DEF Proper, ContainerCall, Call
  <1>2. AllProper(s, <<Call("stop", Gone), Call("remove", Gone)>>)  BY <1>1, FewProper
  <1>3. Linked(<<Call("stop", Gone), Call("remove", Gone)>>)
    <2> DEFINE a == Call("stop", Gone)
               b == Call("remove", Gone)
    <2> HIDE DEF a, b
    <2>1. DOMAIN <<a, b>> = {1, 2} /\ <<a, b>>[1] = a /\ <<a, b>>[2] = b  OBVIOUS
    <2>2. a.op # "connect" /\ b.op # "connect"  BY <1>1 DEF a, b
    <2>3. Linked(<<a, b>>)  BY <2>1, <2>2 DEF Linked
    <2> QED  BY <2>3 DEF a, b
  <1>4. ASSUME NEW q, AllProper(s, q), NamedNetworks => Linked(q)
        PROVE  /\ AllProper(s, <<Call("remove", Gone)>> \o q)
               /\ AllProper(s, <<Call("stop", Gone)>> \o (<<Call("remove", Gone)>> \o q))
               /\ NamedNetworks => Linked(<<Call("stop", Gone)>> \o (<<Call("remove", Gone)>> \o q))
    <2>1. AllProper(s, <<Call("remove", Gone)>> \o q) /\ (NamedNetworks => Linked(<<Call("remove", Gone)>> \o q))
      BY <1>1, <1>4, LinkedInFront
    <2> QED  BY <1>1, <2>1, LinkedInFront
  <1> QED  BY <1>1, <1>2, <1>3, <1>4

\* Calls for a rule of the spec's tag: a deletion, or a deletion before an addition.
LEMMA RuleCallsAreProper ==
  ASSUME kind = "firewall.rule", NEW s, NEW r \in Rules, r.tag = s.tag, AtHome(r),
         NEW w, NEW b \in BOOLEAN, Tidy(b, <<>>, w)
  PROVE  /\ AllProper(s, EnsureAbsent(r)) /\ Tidy(b, EnsureAbsent(r), w)
         /\ AllProper(s, EnsurePresent(r)) /\ Tidy(b, EnsurePresent(r), w)
  <1> DEFINE d == SoftCall("delete", r)
             a == Call("append", r)
             e == Call("delete", r)
  <1>1. /\ d = [op |-> "delete", soft |-> TRUE, arg |-> r]
        /\ a = [op |-> "append", soft |-> FALSE, arg |-> r]
        /\ e = [op |-> "delete", soft |-> FALSE, arg |-> r]
    BY DEF SoftCall, Call
  <1> HIDE DEF a, d, e
  <1>2. Proper(s, d) /\ Proper(s, a) /\ Proper(s, e)  BY <1>1 DEF Proper, RuleCall
  <1>3. AllProper(s, <<e>>) /\ AllProper(s, <<d, a>>)  BY <1>2, FewProper
  <1>4. ~b => OneRule(w)  BY DEF Tidy
  <1>5. AppendsLast(<<e>>, w)  BY <1>1 DEF AppendsLast
  <1>6. AppendsLast(<<d, a>>, w)
    <2>1. DOMAIN <<d, a>> = {1, 2} /\ <<d, a>>[1] = d /\ <<d, a>>[2] = a  OBVIOUS
    <2> QED  BY <1>1, <2>1 DEF AppendsLast
  <1>7. EnsureAbsent(r) = <<e>> /\ EnsurePresent(r) = <<d, a>>
    BY DEF EnsureAbsent, EnsurePresent, a, d, e
  <1> QED  BY <1>3, <1>4, <1>5, <1>6, <1>7 DEF Tidy

LEMMA CallsAreProper ==
  ASSUME RulesStayPut, kind \in Kind, NEW s \in SpecsOf[kind], NEW step, StepOf(s, step),
         NEW w, NEW b \in BOOLEAN, Tidy(b, <<>>, w)
  PROVE  AllProper(s, DriverCalls(s, step)) /\ Tidy(b, DriverCalls(s, step), w)
  <1>0. ValidSpec(kind, s)  BY SpecIsValid
  <1> USE FewProper
  <1>1. CASE kind = "docker.container"
    <2>1. DriverCalls(s, step) = ContainerCalls(s, step)  BY <1>1 DEF DriverCalls
    <2>2. CASE step = "pull"
      <3>1. s.present /\ s.ref \in Ref  BY <1>0, <1>1, <2>2 DEF StepOf, ValidSpec, ValidContainer, ContainerSpecs
      <3>2. ContainerCalls(s, step) = <<Call("pull", s.ref)>>  BY <2>2 DEF ContainerCalls
      <3>3. Proper(s, Call("pull", s.ref))  BY <1>1, <3>1 DEF Proper, ContainerCall, Call
      <3>4. Linked(<<Call("pull", s.ref)>>)  BY DEF Linked, Call
      <3> QED  BY <1>1, <2>1, <3>2, <3>3, <3>4, LinkedIsTidy
    <2>3. CASE step = "recreate"
      <3>1. s.present /\ s \in ContainerSpecs /\ s.ref \in Ref
        BY <1>0, <1>1, <2>3 DEF StepOf, ValidSpec, ValidContainer, ContainerSpecs
      <3>2. s \in RunSpecs  BY <3>1 DEF RunSpecs, ContainerSpecs
      <3>3. NamedNetworks => NetsNamed(s)  BY <1>1 DEF NamedNetworks
      <3>4. AllProper(s, Runs(s)) /\ (NamedNetworks => Linked(Runs(s)))
        BY <1>1, <3>2, <3>3, RunsAreProper
      <3>5. IsSeq(Connects(s.extra))  BY <3>2, ConnectsOfNets DEF RunSpecs
      <3>6. ContainerCalls(s, step) = <<Call("stop", Gone)>> \o (<<Call("remove", Gone)>> \o Runs(s))
        BY <2>3, <3>5, ThreeInFront DEF ContainerCalls, Runs
      <3> QED  BY <1>1, <2>1, <3>4, <3>6, StopIsProper, LinkedIsTidy
    <2>4. CASE step = "remove"
      BY <1>1, <2>1, <2>4, StopIsProper, LinkedIsTidy DEF ContainerCalls
    <2> QED  BY <1>1, <2>2, <2>3, <2>4 DEF StepOf
  <1>2. CASE kind = "firewall.rule"
    <2>1. RuleOf(s) \in Rules /\ RuleOf(s).tag = s.tag  BY <1>0, <1>2 DEF ValidSpec, ValidRule, RuleOf
    <2>2. AtHome(RuleOf(s))  BY <1>2 DEF RulesStayPut
    <2>3. DriverCalls(s, step) \in {EnsurePresent(RuleOf(s)), EnsureAbsent(RuleOf(s))}
      BY <1>2 DEF DriverCalls, RuleCalls
    <2> QED  BY <1>2, <2>1, <2>2, <2>3, RuleCallsAreProper
  <1>3. CASE kind = "docker.compose"
    <2> DEFINE a == Call("write", s.source)
               c == Call("up", s.source)
               d == Call("down", Gone)
               e == SoftCall("rmdir", Gone)
    <2>1. Proper(s, a) /\ Proper(s, c) /\ Proper(s, d) /\ Proper(s, e)
      BY <1>3 DEF Proper, Call, SoftCall
    <2> HIDE DEF a, c, d, e
    <2>2. AllProper(s, <<a, c>>) /\ AllProper(s, <<d, e>>)  BY <2>1
    <2>3. DriverCalls(s, step) \in {<<a, c>>, <<d, e>>}
      BY <1>3 DEF DriverCalls, StackCalls, StackUp, StackDown, a, c, d, e
    <2> QED  BY <1>3, <2>2, <2>3 DEF Tidy
  <1>4. CASE kind = "acme.certificate"
    <2> DEFINE a == SoftCall("revoke", Gone)
               c == SoftCall("rmcert", Gone)
               d == SoftCall("rmkey", Gone)
               e == Call(step, Gone)
    <2>1. Proper(s, a) /\ Proper(s, c) /\ Proper(s, d)
      BY <1>4 DEF Proper, CertCall, SoftCall
    <2>2. Proper(s, e)  BY <1>4 DEF Proper, CertCall, Call, StepOf
    <2> HIDE DEF a, c, d, e
    <2>3. AllProper(s, <<a, c, d>>) /\ AllProper(s, <<e>>)  BY <2>1, <2>2
    <2>4. DriverCalls(s, step) \in {<<a, c, d>>, <<e>>}
      BY <1>4 DEF DriverCalls, CertCalls, a, c, d, e
    <2> QED  BY <1>4, <2>3, <2>4 DEF Tidy
  <1>5. CASE kind \in {"dns.record", "monitoring.check", "cron.job", "package", "sysctl.setting", "plugin"}
    <2>1. PICK c : DriverCalls(s, step) = <<c>> /\ Proper(s, c)
      <3>1. CASE kind = "dns.record"
        <4>1. DriverCalls(s, step) = <<Call(step, s.value)>>  BY <3>1 DEF DriverCalls, RecordCalls
        <4>2. Proper(s, Call(step, s.value))  BY <3>1 DEF Proper, Call, StepOf
        <4> QED  BY <4>1, <4>2
      <3>2. CASE kind = "monitoring.check"
        <4>1. DriverCalls(s, step) = <<Call("probe", s.retries)>>  BY <3>2 DEF DriverCalls, CheckCalls
        <4>2. Proper(s, Call("probe", s.retries))  BY <3>2 DEF Proper, Call
        <4> QED  BY <4>1, <4>2
      <3>3. CASE kind = "cron.job"
        <4> DEFINE c == IF s.present THEN Call("write", Rendered(s)) ELSE Call("remove", Gone)
        <4>1. DriverCalls(s, step) = <<c>>  BY <3>3 DEF DriverCalls, JobCalls
        <4>2. Proper(s, c)  BY <3>3 DEF Proper, Call
        <4> QED  BY <4>1, <4>2
      <3>4. CASE kind = "package"
        <4>1. DriverCalls(s, step) = <<Call(step, s.version)>>  BY <3>4 DEF DriverCalls, PackageCalls
        <4>2. s.version \in STRING \union {Gone}  BY <1>0, <3>4 DEF ValidSpec, ValidPackage
        <4>3. Proper(s, Call(step, s.version))  BY <3>4, <4>2 DEF Proper, Call, StepOf
        <4> QED  BY <4>1, <4>3
      <3>5. CASE kind = "sysctl.setting"
        <4>1. DriverCalls(s, step) = <<Call("write", s.val)>>  BY <3>5 DEF DriverCalls, SettingCalls
        <4>2. Proper(s, Call("write", s.val))  BY <3>5 DEF Proper, Call
        <4> QED  BY <4>1, <4>2
      <3>6. CASE kind = "plugin"
        <4>1. DriverCalls(s, step) = <<Call(step, s.obj)>>  BY <3>6 DEF DriverCalls, ObjectCalls
        <4>2. Proper(s, Call(step, s.obj))  BY <3>6 DEF Proper, Call
        <4> QED  BY <4>1, <4>2
      <3> QED  BY <1>5, <3>1, <3>2, <3>3, <3>4, <3>5, <3>6
    <2>2. AllProper(s, DriverCalls(s, step))  BY <2>1
    <2> QED  BY <1>5, <2>2 DEF Tidy
  <1> QED  BY <1>1, <1>2, <1>3, <1>4, <1>5, OneOfTheKinds DEF DriverKinds

LEMMA UndoIsProper ==
  ASSUME RulesStayPut, kind \in Kind, NEW s \in SpecsOf[kind], NEW v, Kept(s, v),
         NEW w, NEW b \in BOOLEAN, Tidy(b, <<>>, w)
  PROVE  AllProper(s, DriverUndo(s, v, w)) /\ Tidy(b, DriverUndo(s, v, w), w)
  <1>0. ValidSpec(kind, s)  BY SpecIsValid
  <1> USE FewProper
  <1>1. CASE kind = "docker.container"
    <2>1. DriverUndo(s, v, w) = ContainerUndo(v)  BY <1>1 DEF DriverUndo
    <2>2. CASE v = Gone
      <3> DEFINE q == <<Call("stop", Gone), Call("remove", Gone)>>
      <3>1. AllProper(s, q) /\ Linked(q)  BY <1>1, StopIsProper
      <3>2. q \in Seq(ToSet(q))  BY <3>1 DEF AllProper, IsSeq
      <3>3. ContainerUndo(v) = q
        <4>1. ContainerUndo(v) = q \o <<>>  BY <2>2 DEF ContainerUndo
        <4> HIDE DEF q
        <4> QED  BY <3>2, <4>1
      <3> QED  BY <1>1, <2>1, <3>1, <3>3, LinkedIsTidy
    <2>3. CASE v # Gone
      <3> DEFINE r == RestoredContainer(v)
                 p == Call("pull", v.ref)
      <3>1. Whole(v)  BY <1>1, <2>3 DEF Kept
      <3>2. r \in RunSpecs /\ NetsNamed(r)  BY <3>1, RestoredIsWhole
      <3>3. AllProper(s, Runs(r)) /\ (NamedNetworks => Linked(Runs(r)))
        BY <1>1, <3>2, RunsAreProper
      <3>4. Proper(s, p) /\ p.op # "connect"
        BY <1>1, <3>1 DEF Proper, ContainerCall, Call, Whole, Backups
      <3>5. AllProper(s, <<p>> \o Runs(r)) /\ (NamedNetworks => Linked(<<p>> \o Runs(r)))
        BY <3>3, <3>4, LinkedInFront
      <3>6. IsSeq(Connects(r.extra))  BY <3>2, ConnectsOfNets DEF RunSpecs
      <3>7. <<p, Call("run", r)>> \o Connects(r.extra) = <<p>> \o Runs(r)
        BY <3>6, TwoInFront DEF Runs
      <3>8. <<Call("stop", Gone), Call("remove", Gone)>> \o (<<p>> \o Runs(r))
              = <<Call("stop", Gone)>> \o (<<Call("remove", Gone)>> \o (<<p>> \o Runs(r)))
        <4>1. IsSeq(<<p>> \o Runs(r))  BY <3>5 DEF AllProper
        <4> QED  BY <4>1, TwoInFront
      <3>9. ContainerUndo(v) = <<Call("stop", Gone)>> \o (<<Call("remove", Gone)>> \o (<<p>> \o Runs(r)))
        BY <2>3, <3>7, <3>8 DEF ContainerUndo
      <3> QED  BY <1>1, <2>1, <3>5, <3>9, StopIsProper, LinkedIsTidy
    <2> QED  BY <2>2, <2>3
  <1>2. CASE kind = "firewall.rule"
    <2>1. RuleOf(s) \in Rules /\ RuleOf(s).tag = s.tag  BY <1>0, <1>2 DEF ValidSpec, ValidRule, RuleOf
    <2>2. AtHome(RuleOf(s))  BY <1>2 DEF RulesStayPut
    <2>3. DriverUndo(s, v, w) = IF v = Gone THEN EnsureAbsent(RuleOf(s)) ELSE EnsurePresent(v)
      BY <1>2 DEF DriverUndo, RuleUndo
    <2>4. v = Gone \/ (v \in Rules /\ v.tag = s.tag /\ AtHome(v))  BY <1>2 DEF Kept
    <2>5. CASE v = Gone  BY <1>2, <2>1, <2>2, <2>3, <2>5, RuleCallsAreProper
    <2>6. CASE v # Gone  BY <1>2, <2>3, <2>4, <2>6, RuleCallsAreProper
    <2> QED  BY <2>5, <2>6
  <1>3. CASE kind = "docker.compose"
    <2> DEFINE a == Call("write", v)
               c == Call("up", v)
               d == Call("down", Gone)
               e == SoftCall("rmdir", Gone)
    <2>1. Proper(s, a) /\ Proper(s, c) /\ Proper(s, d) /\ Proper(s, e)
      BY <1>3 DEF Proper, Call, SoftCall
    <2> HIDE DEF a, c, d, e
    <2>2. AllProper(s, <<a, c>>) /\ AllProper(s, <<d, e>>)  BY <2>1
    <2>3. DriverUndo(s, v, w) \in {<<a, c>>, <<d, e>>}
      BY <1>3 DEF DriverUndo, StackUndo, StackUp, StackDown, a, c, d, e
    <2> QED  BY <1>3, <2>2, <2>3 DEF Tidy
  <1>4. CASE kind = "acme.certificate"
    <2> DEFINE a == SoftCall("rmcert", Gone)
               c == SoftCall("rmkey", Gone)
               d == Call("wrcert", v.cert)
               e == Call("wrkey", v.key)
    <2>0. v.cert \in Certs \union {Gone} /\ v.key \in Nat \union {Gone}  BY <1>4 DEF Kept
    <2>1. Proper(s, a) /\ Proper(s, c)  BY <1>4 DEF Proper, CertCall, SoftCall
    <2>2. v.cert # Gone => Proper(s, d)  BY <1>4, <2>0 DEF Proper, CertCall, Call
    <2>3. v.key # Gone => Proper(s, e)  BY <1>4, <2>0 DEF Proper, CertCall, Call
    <2>4. DriverUndo(s, v, w) = IF v.cert = Gone THEN <<a, c>>
                                ELSE <<d>> \o (IF v.key = Gone THEN <<>> ELSE <<e>>)
      BY <1>4 DEF DriverUndo, CertUndo
    <2> HIDE DEF a, c, d, e
    <2>5. <<d>> \o <<>> = <<d>>
      <3>1. <<d>> \in Seq({d})  OBVIOUS
      <3> HIDE DEF d
      <3> QED  BY <3>1
    <2>6. <<d>> \o <<e>> = <<d, e>>
      <3> DEFINE x == <<d>> \o <<e>>
      <3>1. <<d>> \in Seq({d, e}) /\ <<e>> \in Seq({d, e})  OBVIOUS
      <3>2. x \in Seq({d, e}) /\ Len(x) = 2 /\ x[1] = d /\ x[2] = e  BY <3>1
      <3> HIDE DEF x
      <3>3. x = <<d, e>>  BY <3>2
      <3> QED  BY <3>3 DEF x
    <2>7. AllProper(s, DriverUndo(s, v, w))
      <3>1. CASE v.cert = Gone  BY <2>1, <2>4, <3>1
      <3>2. CASE v.cert # Gone /\ v.key = Gone
        <4>1. DriverUndo(s, v, w) = <<d>>  BY <2>4, <2>5, <3>2
        <4> QED  BY <2>2, <3>2, <4>1
      <3>3. CASE v.cert # Gone /\ v.key # Gone
        <4>1. DriverUndo(s, v, w) = <<d, e>>  BY <2>4, <2>6, <3>3
        <4> QED  BY <2>2, <2>3, <3>3, <4>1
      <3> QED  BY <3>1, <3>2, <3>3
    <2> QED  BY <1>4, <2>7 DEF Tidy
  <1>5. CASE kind \in {"dns.record", "monitoring.check", "cron.job", "package", "sysctl.setting", "plugin"}
    <2>1. CASE DriverUndo(s, v, w) = <<>>
      <3>1. AllProper(s, DriverUndo(s, v, w))  BY <2>1
      <3> QED  BY <1>5, <3>1 DEF Tidy
    <2>2. CASE DriverUndo(s, v, w) # <<>>
      <3>1. PICK c : DriverUndo(s, v, w) = <<c>> /\ Proper(s, c)
        <4>1. CASE kind = "dns.record"
          <5>1. Proper(s, Call("update", v)) /\ Proper(s, Call("create", v)) /\ Proper(s, Call("delete", Gone))
            BY <4>1 DEF Proper, Call
          <5>2. DriverUndo(s, v, w) \in {<<Call("update", v)>>, <<Call("create", v)>>, <<Call("delete", Gone)>>}
            BY <2>2, <4>1 DEF DriverUndo, RecordUndo
          <5> QED  BY <5>1, <5>2
        <4>2. CASE kind = "monitoring.check"  BY <2>2, <4>2 DEF DriverUndo
        <4>3. CASE kind = "cron.job"
          <5>1. Proper(s, Call("remove", Gone)) /\ Proper(s, Call("write", v))  BY <4>3 DEF Proper, Call
          <5>2. DriverUndo(s, v, w) \in {<<Call("remove", Gone)>>, <<Call("write", v)>>}
            BY <4>3 DEF DriverUndo, JobUndo
          <5> QED  BY <5>1, <5>2
        <4>4. CASE kind = "package"
          <5>1. v.version \in STRING \union {Gone}  BY <4>4 DEF Kept
          <5>2. Proper(s, Call("remove", Gone)) /\ Proper(s, Call("install", v.version))
            BY <4>4, <5>1 DEF Proper, Call
          <5>3. DriverUndo(s, v, w) \in {<<Call("remove", Gone)>>, <<Call("install", v.version)>>}
            BY <2>2, <4>4 DEF DriverUndo, PackageUndo
          <5> QED  BY <5>2, <5>3
        <4>5. CASE kind = "sysctl.setting"
          <5>1. DriverUndo(s, v, w) = <<Call("write", v)>>  BY <2>2, <4>5 DEF DriverUndo, SettingUndo
          <5>2. Proper(s, Call("write", v))  BY <4>5 DEF Proper, Call
          <5> QED  BY <5>1, <5>2
        <4>6. CASE kind = "plugin"
          <5>1. Proper(s, Call("delete", Gone)) /\ Proper(s, Call("update", v))  BY <4>6 DEF Proper, Call
          <5>2. DriverUndo(s, v, w) \in {<<Call("delete", Gone)>>, <<Call("update", v)>>}
            BY <4>6 DEF DriverUndo, ObjectUndo
          <5> QED  BY <5>1, <5>2
        <4> QED  BY <1>5, <4>1, <4>2, <4>3, <4>4, <4>5, <4>6
      <3>2. AllProper(s, DriverUndo(s, v, w))  BY <3>1
      <3> QED  BY <1>5, <3>2 DEF Tidy
    <2> QED  BY <2>1, <2>2
  <1> QED  BY <1>1, <1>2, <1>3, <1>4, <1>5, OneOfTheKinds DEF DriverKinds

\* A probe that is tried again is a call of its kind.
LEMMA ProbesAreProper ==
  ASSUME kind = "monitoring.check", NEW s, NEW c, NEW w
  PROVE  AllProper(s, CheckAgain(c, w))
  <1>1. Proper(s, Call("probe", c.arg - 1))  BY DEF Proper, Call
  <1> QED  BY <1>1, FewProper DEF CheckAgain

(***************************************************************************)
(* What a call leaves on a host is sound.                                  *)
(***************************************************************************)

\* The container that docker run makes.
LEMMA StartedIsBox ==
  ASSUME NEW w, ContainerHost(w), NEW r \in RunSpecs
  PROVE  LET n == Started(r, w)
         IN /\ n \in Boxes /\ n # Gone /\ "PATH" \in n.env /\ n.cmd # "none"
            /\ n.nets = {IF r.net = Gone THEN "bridge" ELSE r.net} /\ IsFiniteSet(n.nets) /\ Apart(n.nets)
            /\ n.ref = r.ref /\ n.opts = r.opts /\ n.vol = r.vol /\ n.env = r.env \union {"PATH"}
            /\ n.cmd = (IF r.cmd = "none" THEN "default" ELSE r.cmd) /\ n.tmpfs = r.tmpfs /\ n.running
            /\ n.id \in Nat /\ n.id # Gone
  <1> DEFINE n == Started(r, w)
             i == IF w.loc[r.ref] # Gone THEN w.loc[r.ref] ELSE w.reg[r.ref]
             net == IF r.net = Gone THEN "bridge" ELSE r.net
  <1>1. i \in Nat  BY DEF ContainerHost, RunSpecs
  <1>2. net \in STRING  BY StringAssumption DEF RunSpecs
  <1>3. n = [ref |-> r.ref, opts |-> r.opts, vol |-> r.vol, env |-> r.env \union {"PATH"},
             cmd |-> IF r.cmd = "none" THEN "default" ELSE r.cmd, tmpfs |-> r.tmpfs,
             id |-> i, nets |-> {net}, running |-> TRUE]
    BY DEF Started
  <1>4. (IF r.cmd = "none" THEN "default" ELSE r.cmd) \in STRING /\ r.env \union {"PATH"} \in SUBSET STRING
    BY StringAssumption DEF RunSpecs
  <1> HIDE DEF n, i, net
  <1>5. n \in Boxes  BY <1>1, <1>2, <1>3, <1>4 DEF Boxes, RunSpecs
  <1>6. IsFiniteSet({net})  BY FS_Singleton
  <1>7. n # Gone  BY <1>5, GoneAssumption
  <1>8. i # Gone  BY <1>1, GoneAssumption
  <1>9. n.cmd # "none"  BY <1>3
  <1>10. Apart(n.nets)  BY <1>3 DEF Apart
  <1> QED  BY <1>1, <1>3, <1>5, <1>6, <1>7, <1>8, <1>9, <1>10 DEF n, net

\* What the calls do, field by field.
LEMMA ContainerEffects ==
  ASSUME NEW w, ContainerHost(w), NEW c, ContainerCall(c), NEW x \in ContainerEffect(c, w) \union ContainerBroken(c, w)
  PROVE  \/ c.op = "pull" /\ x = [w EXCEPT !.loc[c.arg] = w.reg[c.arg]]
         \/ c.op = "stop" /\ x = IF w.box = Gone THEN w ELSE [w EXCEPT !.box.running = FALSE]
         \/ c.op = "remove" /\ x = [w EXCEPT !.box = Gone]
         \/ /\ c.op = "run" /\ w.box = Gone
            /\ \E on \in BOOLEAN :
                 /\ x = [w EXCEPT !.box = [Started(c.arg, w) EXCEPT !.running = on],
                                  !.loc[c.arg.ref] = Started(c.arg, w).id]
                 /\ x \in ContainerEffect(c, w) => on
         \/ c.op = "connect" /\ w.box # Gone /\ x = [w EXCEPT !.box.nets = @ \union {c.arg}]
  <1>1. CASE c.op = "pull"  BY <1>1 DEF ContainerEffect, ContainerBroken
  <1>2. CASE c.op = "stop"  BY <1>2 DEF ContainerEffect, ContainerBroken
  <1>3. CASE c.op = "remove"  BY <1>3 DEF ContainerEffect, ContainerBroken
  <1>4. CASE c.op = "run"
    <2> DEFINE n == Started(c.arg, w)
    <2>1. n \in Boxes /\ n.running  BY <1>4, StartedIsBox DEF ContainerCall
    <2>2. [n EXCEPT !.running = TRUE] = n  BY <2>1 DEF Boxes
    <2>3. w.box = Gone  BY <1>4 DEF ContainerEffect, ContainerBroken
    <2>4. ContainerEffect(c, w) = {[w EXCEPT !.box = n, !.loc[c.arg.ref] = n.id]}
      BY <1>4, <2>3 DEF ContainerEffect
    <2>5. ContainerBroken(c, w) = {[w EXCEPT !.box = [n EXCEPT !.running = FALSE], !.loc[c.arg.ref] = n.id]}
      BY <1>4, <2>3 DEF ContainerBroken
    <2> HIDE DEF n
    <2>6. CASE x \in ContainerEffect(c, w)
      <3>1. x = [w EXCEPT !.box = [n EXCEPT !.running = TRUE], !.loc[c.arg.ref] = n.id]  BY <2>2, <2>4, <2>6
      <3> QED  BY <1>4, <2>3, <3>1 DEF n
    <2>7. CASE x \notin ContainerEffect(c, w)
      <3>1. x = [w EXCEPT !.box = [n EXCEPT !.running = FALSE], !.loc[c.arg.ref] = n.id]  BY <2>5, <2>7
      <3> QED  BY <1>4, <2>3, <2>7, <3>1 DEF n
    <2> QED  BY <2>6, <2>7
  <1>5. CASE c.op = "connect"  BY <1>5 DEF ContainerEffect, ContainerBroken
  <1> QED  BY <1>1, <1>2, <1>3, <1>4, <1>5 DEF ContainerCall

LEMMA ContainerCallKeepsSound ==
  ASSUME NEW w, ContainerHost(w), NamedNetworks /\ w.box # Gone => Apart(w.box.nets),
         NEW c, ContainerCall(c),
         NamedNetworks /\ c.op = "connect" /\ w.box # Gone => "bridge" \notin w.box.nets,
         NEW x \in ContainerEffect(c, w) \union ContainerBroken(c, w)
  PROVE  /\ ContainerHost(x) /\ (NamedNetworks /\ x.box # Gone => Apart(x.box.nets))
         /\ c.op = "pull" => x.box = w.box
         /\ c.op = "remove" => x.box = Gone
         /\ c.op = "run" =>
              /\ x.box # Gone /\ x.box = [Started(c.arg, w) EXCEPT !.running = x.box.running]
              /\ x.box.running \in BOOLEAN /\ x.loc[c.arg.ref] = Started(c.arg, w).id
              /\ x \in ContainerEffect(c, w) => x.box.running
         /\ c.op = "connect" => w.box # Gone /\ x.box = [w.box EXCEPT !.nets = @ \union {c.arg}] /\ x.loc = w.loc
  <1>0. /\ w = [reg |-> w.reg, loc |-> w.loc, box |-> w.box]
        /\ w.reg \in [Ref -> Nat] /\ w.loc \in [Ref -> Nat \union {Gone}] /\ w.box \in Boxes \union {Gone}
    BY DEF ContainerHost
  <1>1. CASE c.op = "pull"
    <2>1. x = [w EXCEPT !.loc[c.arg] = w.reg[c.arg]] /\ c.arg \in Ref
      BY <1>1, ContainerEffects DEF ContainerCall
    <2>2. x.reg = w.reg /\ x.box = w.box /\ x.loc = [w.loc EXCEPT ![c.arg] = w.reg[c.arg]]
          /\ x = [reg |-> x.reg, loc |-> x.loc, box |-> x.box]
      BY <1>0, <2>1
    <2>3. x.loc \in [Ref -> Nat \union {Gone}]  BY <1>0, <2>1, <2>2
    <2>4. \A r \in Ref : w.loc[r] # Gone => x.loc[r] # Gone
      BY <1>0, <2>1, <2>2, GoneAssumption
    <2>5. ContainerHost(x)  BY <1>0, <2>2, <2>3, <2>4 DEF ContainerHost, Boxes
    <2> QED  BY <1>1, <2>2, <2>5
  <1>2. CASE c.op = "stop"
    <2>1. x = IF w.box = Gone THEN w ELSE [w EXCEPT !.box.running = FALSE]  BY <1>2, ContainerEffects
    <2>2. CASE w.box = Gone  BY <1>2, <2>1, <2>2
    <2>3. CASE w.box # Gone
      <3> DEFINE n == [w.box EXCEPT !.running = FALSE]
      <3>1. n \in Boxes /\ n.env = w.box.env /\ n.cmd = w.box.cmd /\ n.nets = w.box.nets /\ ~n.running
        BY <1>0, <2>3 DEF Boxes
      <3>2. x = [w EXCEPT !.box = n]  BY <2>1, <2>3
      <3> HIDE DEF n
      <3>3. x.reg = w.reg /\ x.loc = w.loc /\ x.box = n /\ x = [reg |-> x.reg, loc |-> x.loc, box |-> x.box]
        BY <1>0, <3>2
      <3>4. ContainerHost(x)  BY <1>0, <2>3, <3>1, <3>3 DEF ContainerHost
      <3> QED  BY <1>2, <2>3, <3>1, <3>3, <3>4
    <2> QED  BY <2>2, <2>3
  <1>3. CASE c.op = "remove"
    <2>1. x = [w EXCEPT !.box = Gone]  BY <1>3, ContainerEffects
    <2>2. x.reg = w.reg /\ x.loc = w.loc /\ x.box = Gone /\ x = [reg |-> x.reg, loc |-> x.loc, box |-> x.box]
      BY <1>0, <2>1
    <2> QED  BY <1>0, <1>3, <2>2 DEF ContainerHost
  <1>4. CASE c.op = "run"
    <2> DEFINE n == Started(c.arg, w)
    <2>1. PICK on \in BOOLEAN :
             /\ x = [w EXCEPT !.box = [n EXCEPT !.running = on], !.loc[c.arg.ref] = n.id]
             /\ x \in ContainerEffect(c, w) => on
      BY <1>4, ContainerEffects
    <2>2. c.arg \in RunSpecs /\ c.arg.ref \in Ref  BY <1>4 DEF ContainerCall, RunSpecs
    <2>3. /\ n \in Boxes /\ n # Gone /\ "PATH" \in n.env /\ n.cmd # "none" /\ n.nets # {} /\ IsFiniteSet(n.nets)
          /\ Apart(n.nets) /\ n.ref = c.arg.ref /\ n.id \in Nat /\ n.id # Gone
      BY <2>2, StartedIsBox
    <2> HIDE DEF n
    <2> DEFINE m == [n EXCEPT !.running = on]
    <2>4. /\ m \in Boxes /\ m.env = n.env /\ m.cmd = n.cmd /\ m.nets = n.nets /\ m.ref = n.ref /\ m.running = on
      BY <2>1, <2>3 DEF Boxes
    <2>5. x = [w EXCEPT !.box = m, !.loc[c.arg.ref] = n.id]  BY <2>1
    <2> HIDE DEF m
    <2>6. x.reg = w.reg /\ x.box = m /\ x.loc = [w.loc EXCEPT ![c.arg.ref] = n.id]
          /\ x = [reg |-> x.reg, loc |-> x.loc, box |-> x.box]
      BY <1>0, <2>5
    <2>7. x.loc \in [Ref -> Nat \union {Gone}] /\ x.loc[c.arg.ref] = n.id  BY <1>0, <2>2, <2>3, <2>6
    <2>8. m # Gone  BY <2>4, GoneAssumption
    <2>9. ContainerHost(x)  BY <1>0, <2>3, <2>4, <2>6, <2>7 DEF ContainerHost
    <2>10. x.box = [n EXCEPT !.running = x.box.running] /\ x.box.running = on  BY <2>4, <2>6 DEF m
    <2> QED  BY <1>4, <2>1, <2>3, <2>4, <2>6, <2>7, <2>8, <2>9, <2>10 DEF n
  <1>5. CASE c.op = "connect"
    <2>1. x = [w EXCEPT !.box.nets = @ \union {c.arg}] /\ w.box # Gone  BY <1>5, ContainerEffects
    <2> DEFINE m == [w.box EXCEPT !.nets = @ \union {c.arg}]
    <2>2. w.box \in Boxes /\ c.arg \in STRING  BY <1>0, <1>5, <2>1 DEF ContainerCall
    <2>3. /\ m \in Boxes /\ m.env = w.box.env /\ m.cmd = w.box.cmd /\ m.nets = w.box.nets \union {c.arg}
          /\ m.ref = w.box.ref /\ m.running = w.box.running
      BY <2>2 DEF Boxes
    <2>4. x = [w EXCEPT !.box = m]  BY <2>1
    <2> HIDE DEF m
    <2>5. x.reg = w.reg /\ x.box = m /\ x.loc = w.loc /\ x = [reg |-> x.reg, loc |-> x.loc, box |-> x.box]
      BY <1>0, <2>4
    <2>6. IsFiniteSet(m.nets)
      <3>1. IsFiniteSet(w.box.nets)  BY <2>1 DEF ContainerHost
      <3> QED  BY <2>3, <3>1, FS_AddElement
    <2>7. ContainerHost(x)  BY <1>0, <2>1, <2>3, <2>5, <2>6 DEF ContainerHost
    <2>8. NamedNetworks => Apart(m.nets)  BY <1>5, <2>1, <2>3 DEF ContainerCall, Apart
    <2> QED  BY <1>5, <2>1, <2>5, <2>7, <2>8 DEF m
  <1> QED  BY <1>1, <1>2, <1>3, <1>4, <1>5 DEF ContainerCall

(***************************************************************************)
(* What a call leaves of the rules of a firewall.                          *)
(***************************************************************************)
LEMMA RemovedAt ==
  ASSUME NEW S, NEW q \in Seq(S), NEW k \in DOMAIN q
  PROVE  /\ RemoveAt(q, k) \in Seq(S) /\ Len(q) \in Nat \ {0} /\ Len(RemoveAt(q, k)) = Len(q) - 1
         /\ DOMAIN q = 1..Len(q) /\ DOMAIN RemoveAt(q, k) = 1..(Len(q) - 1)
         /\ \A j \in 1..(Len(q) - 1) : RemoveAt(q, k)[j] = IF j < k THEN q[j] ELSE q[j + 1]
  <1> DEFINE a == SubSeq(q, 1, k - 1)
             b == SubSeq(q, k + 1, Len(q))
             n == Len(q)
  <1>1. n \in Nat \ {0} /\ k \in 1..n /\ DOMAIN q = 1..n  OBVIOUS
  <1>2. a \in Seq(S) /\ Len(a) = k - 1 /\ \A j \in 1..(k - 1) : a[j] = q[j]
    <2>1. 1 \in 1..(n + 1) /\ k - 1 \in 0..n  BY <1>1
    <2>2. \A i \in 1..(k - 1) : q[i] \in S  BY <1>1
    <2> QED  BY <1>1, <2>1, <2>2, SubSeqProperties
  <1>3. b \in Seq(S) /\ Len(b) = n - k /\ \A j \in 1..(n - k) : b[j] = q[k + j]
    <2>1. k + 1 \in 1..(n + 1) /\ n \in 0..n  BY <1>1
    <2>2. \A i \in (k + 1)..n : q[i] \in S  BY <1>1
    <2>3. (n - (k + 1)) + 1 = n - k /\ \A j \in 1..(n - k) : (k + 1) + j - 1 = k + j  BY <1>1
    <2>4. k + 1 \in Int /\ n \in Int  BY <1>1
    <2>5. /\ b \in Seq(S) /\ Len(b) = (IF k + 1 <= n THEN n - (k + 1) + 1 ELSE 0)
          /\ \A j \in 1..(n - (k + 1) + 1) : b[j] = q[(k + 1) + j - 1]
      BY <2>2, <2>4, SubSeqProperties
    <2> HIDE DEF b, n
    <2> QED  BY <1>1, <2>3, <2>5
  <1>4. RemoveAt(q, k) = a \o b  BY DEF RemoveAt
  <1> HIDE DEF a, b, n
  <1>5. a \o b \in Seq(S) /\ Len(a \o b) = n - 1
    <2>0. a \in Seq(S) /\ b \in Seq(S)  BY <1>2, <1>3
    <2>1. a \o b \in Seq(S) /\ Len(a \o b) = Len(a) + Len(b)  BY <2>0, ConcatProperties
    <2>2. (k - 1) + (n - k) = n - 1  BY <1>1
    <2> QED  BY <1>2, <1>3, <2>1, <2>2
  <1>6. ASSUME NEW j \in 1..(n - 1) PROVE (a \o b)[j] = IF j < k THEN q[j] ELSE q[j + 1]
    <2>1. CASE j < k
      <3>1. j \in 1..Len(a)  BY <1>1, <1>2, <2>1
      <3>2. (a \o b)[j] = a[j]  BY <1>2, <1>3, <3>1
      <3> QED  BY <1>2, <2>1, <3>1, <3>2
    <2>2. CASE ~(j < k)
      <3>1. j - Len(a) \in 1..(n - k) /\ j > Len(a) /\ k + (j - Len(a)) = j + 1  BY <1>1, <1>2, <2>2
      <3>2. (a \o b)[j] = b[j - Len(a)]  BY <1>2, <1>3, <1>5, <3>1
      <3>3. b[j - Len(a)] = q[k + (j - Len(a))]  BY <1>3, <3>1
      <3> QED  BY <2>2, <3>1, <3>2, <3>3
    <2> QED  BY <2>1, <2>2
  <1>7. DOMAIN (a \o b) = 1..(n - 1)  BY <1>5
  <1> QED  BY <1>1, <1>4, <1>5, <1>6, <1>7 DEF n

\* The rules that carry the tag of a spec.
LEMMA TaggedRules ==
  ASSUME RulesStayPut, kind \in Kind, kind = "firewall.rule", NEW s \in SpecsOf[kind], NEW w, Sound(w),
         NEW r \in Rules, r.tag = s.tag, AtHome(r)
  PROVE  /\ Tagged(r, w) = {i \in DOMAIN w.rules : w.rules[i].tag = s.tag}
         /\ \A i \in Tagged(r, w) : w.rules[i].chain = r.chain
         /\ Tagged(r, w) # {} => Least(Tagged(r, w)) \in Tagged(r, w)
  <1>1. w.rules \in Seq(Rules) /\ AllAtHome(w)
    BY DEF Sound, ValidHost, RuleHost
  <1>2. PlaceOf(r) = PlaceOf(s)  BY DEF AtHome, TagMatches
  <1>3. \A i \in DOMAIN w.rules : TagMatches(w.rules[i].tag, s.tag) =>
          w.rules[i].tag = s.tag /\ PlaceOf(w.rules[i]) = PlaceOf(r)
    BY <1>1, <1>2 DEF AtHome, AllAtHome
  <1>4. \A i \in DOMAIN w.rules : PlaceOf(w.rules[i]) = PlaceOf(r) =>
          w.rules[i].table = r.table /\ w.rules[i].chain = r.chain
    BY DEF PlaceOf
  <1>5. \A i \in DOMAIN w.rules : w.rules[i].tag = s.tag => TagMatches(w.rules[i].tag, s.tag)
    BY DEF TagMatches
  <1>6. Tagged(r, w) = {i \in DOMAIN w.rules : w.rules[i].tag = s.tag}
    BY <1>3, <1>4, <1>5 DEF Tagged
  <1>7. Tagged(r, w) \subseteq Nat  BY <1>1, <1>6
  <1> QED  BY <1>3, <1>4, <1>5, <1>6, <1>7, LeastExists

\* A deletion takes the rule of the tag away, if there is one.
LEMMA DeleteTakes ==
  ASSUME RulesStayPut, kind \in Kind, kind = "firewall.rule", NEW s \in SpecsOf[kind], NEW w, Sound(w),
         NEW c, RuleCall(s, c), c.op = "delete"
  PROVE  \/ DriverEffect(c, w) = {w} /\ NoRuleOf(s.tag, w)
         \/ \E k \in DOMAIN w.rules :
              w.rules[k].tag = s.tag /\ DriverEffect(c, w) = {[w EXCEPT !.rules = RemoveAt(@, k)]}
  <1> DEFINE r == c.arg
             T == Tagged(r, w)
             F == {i \in T : w.rules[i].chain = r.chain}
  <1>1. r \in Rules /\ r.tag = s.tag /\ AtHome(r)  BY DEF RuleCall
  <1>2. /\ T = {i \in DOMAIN w.rules : w.rules[i].tag = s.tag}
        /\ \A i \in T : w.rules[i].chain = r.chain
        /\ T # {} => Least(T) \in T
    BY <1>1, TaggedRules
  <1>3. F = T  BY <1>2
  <1>4. DriverEffect(c, w) = IF Backend = "iptables" THEN DeleteInChain(r, w) ELSE DeleteByHandle(r, w)
    BY NetAssumption DEF DriverEffect, RuleEffect
  <1>5. DeleteInChain(r, w) = {IF F = {} THEN w ELSE [w EXCEPT !.rules = RemoveAt(@, Least(F))]}
    BY DEF DeleteInChain
  <1>6. DeleteByHandle(r, w) = IF T = {} THEN {w}
                               ELSE IF w.rules[Least(T)].chain # r.chain THEN {}
                               ELSE {[w EXCEPT !.rules = RemoveAt(@, Least(T))]}
    BY DEF DeleteByHandle
  <1> HIDE DEF T, F
  <1>7. CASE T = {}
    <2>1. NoRuleOf(s.tag, w)  BY <1>2, <1>7 DEF NoRuleOf
    <2> QED  BY <1>3, <1>4, <1>5, <1>6, <1>7, <2>1
  <1>8. CASE T # {}
    <2>1. DriverEffect(c, w) = {[w EXCEPT !.rules = RemoveAt(@, Least(T))]}
      BY <1>2, <1>3, <1>4, <1>5, <1>6, <1>8
    <2> QED  BY <1>2, <1>8, <2>1
  <1> QED  BY <1>7, <1>8

RulesBut(k, w) == {w.rules[i] : i \in DOMAIN w.rules \ {k}}

\* The rules after one is taken away.
LEMMA RulesAfterDelete ==
  ASSUME NEW w, RuleHost(w), NEW k \in DOMAIN w.rules, NEW x, x = [w EXCEPT !.rules = RemoveAt(@, k)]
  PROVE  /\ RuleHost(x) /\ Len(w.rules) \in Nat /\ Len(x.rules) = Len(w.rules) - 1
         /\ ToSet(x.rules) = RulesBut(k, w)
         /\ AllAtHome(w) => AllAtHome(x)
         /\ OneRule(w) => OneRule(x)
  <1> DEFINE q == w.rules
             z == RemoveAt(q, k)
  <1>1. q \in Seq(Rules) /\ w = [rules |-> q]  BY DEF RuleHost
  <1>2. x = [rules |-> z] /\ x.rules = z  BY <1>1
  <1>3. /\ z \in Seq(Rules) /\ Len(q) \in Nat \ {0} /\ Len(z) = Len(q) - 1
        /\ DOMAIN q = 1..Len(q) /\ DOMAIN z = 1..(Len(q) - 1)
        /\ \A j \in 1..(Len(q) - 1) : z[j] = IF j < k THEN q[j] ELSE q[j + 1]
    BY <1>1, RemovedAt
  <1> HIDE DEF z
  <1>4. RuleHost(x)  BY <1>2, <1>3 DEF RuleHost
  <1> HIDE DEF q
  <1> DEFINE At(j) == IF j < k THEN j ELSE j + 1
  <1>5. k \in 1..Len(q)  BY <1>3 DEF q
  <1>6. \A j \in DOMAIN z : At(j) \in DOMAIN q /\ At(j) # k /\ z[j] = q[At(j)]  BY <1>3, <1>5
  <1>7. \A i, j \in DOMAIN z : At(i) = At(j) => i = j  BY <1>3, <1>5
  <1>8. \A i \in DOMAIN q \ {k} : \E j \in DOMAIN z : At(j) = i
    <2> SUFFICES ASSUME NEW i \in DOMAIN q, i # k PROVE \E j \in DOMAIN z : At(j) = i
      OBVIOUS
    <2>1. CASE i < k
      <3>1. i \in DOMAIN z /\ At(i) = i  BY <1>3, <1>5, <2>1
      <3> QED  BY <3>1
    <2>2. CASE ~(i < k)
      <3>1. i - 1 \in DOMAIN z /\ At(i - 1) = i  BY <1>3, <1>5, <2>2
      <3> QED  BY <3>1
    <2> QED  BY <2>1, <2>2
  <1> HIDE DEF At
  <1>9. {z[i] : i \in DOMAIN z} = {q[i] : i \in DOMAIN q \ {k}}
    <2>1. ASSUME NEW i \in DOMAIN q \ {k} PROVE q[i] \in {z[j] : j \in DOMAIN z}
      <3>1. PICK j \in DOMAIN z : At(j) = i  BY <1>8, <2>1
      <3> QED  BY <1>6, <3>1
    <2>2. ASSUME NEW j \in DOMAIN z PROVE z[j] \in {q[i] : i \in DOMAIN q \ {k}}
      BY <1>6, <2>2
    <2> QED  BY <2>1, <2>2
  <1>10. (\A i \in DOMAIN q : AtHome(q[i])) => \A i \in DOMAIN z : AtHome(z[i])  BY <1>6
  <1>11. OneRule(w) => OneRule(x)  BY <1>2, <1>6, <1>7 DEF OneRule, q
  <1>12. ToSet(x.rules) = RulesBut(k, w)  BY <1>2, <1>9 DEF ToSet, RulesBut, q
  <1> QED  BY <1>2, <1>3, <1>4, <1>10, <1>11, <1>12 DEF q, AllAtHome

\* When the rule of a tag is taken away there is none, and the others stay.
LEMMA TagAfterDelete ==
  ASSUME NEW s \in SpecsOf["firewall.rule"], NEW w, RuleHost(w), OneRule(w),
         NEW k \in DOMAIN w.rules, w.rules[k].tag = s.tag,
         NEW x, x = [w EXCEPT !.rules = RemoveAt(@, k)]
  PROVE  /\ NoRuleOf(s.tag, x)
         /\ OtherRules(s.tag, x) = OtherRules(s.tag, w)
         /\ CountOthers(s.tag, x) = CountOthers(s.tag, w)
  <1>1. /\ RuleHost(x) /\ Len(w.rules) \in Nat /\ Len(x.rules) = Len(w.rules) - 1
        /\ ToSet(x.rules) = RulesBut(k, w)
    BY RulesAfterDelete
  <1>2. \A i \in DOMAIN w.rules \ {k} : w.rules[i].tag # s.tag  BY DEF OneRule
  <1>3. \A i \in DOMAIN x.rules : x.rules[i].tag # s.tag
    <2> SUFFICES ASSUME NEW i \in DOMAIN x.rules PROVE x.rules[i].tag # s.tag  OBVIOUS
    <2>1. x.rules[i] \in RulesBut(k, w)  BY <1>1 DEF ToSet
    <2>2. PICK j \in DOMAIN w.rules \ {k} : x.rules[i] = w.rules[j]  BY <2>1 DEF RulesBut
    <2> QED  BY <1>2, <2>2
  <1>4. NoRuleOf(s.tag, x) /\ ~NoRuleOf(s.tag, w)  BY <1>3 DEF NoRuleOf
  <1>5. {j \in DOMAIN w.rules : w.rules[j].tag # s.tag} = DOMAIN w.rules \ {k}  BY <1>2
  <1>6. {j \in DOMAIN x.rules : x.rules[j].tag # s.tag} = DOMAIN x.rules  BY <1>3
  <1>7. OtherRules(s.tag, x) = OtherRules(s.tag, w)  
    <2>1. OtherRules(s.tag, x) = ToSet(x.rules)  BY <1>6 DEF OtherRules, ToSet
    <2>2. OtherRules(s.tag, w) = RulesBut(k, w)  BY <1>5 DEF OtherRules, RulesBut
    <2> QED  BY <1>1, <2>1, <2>2
  <1>8. CountOthers(s.tag, x) = CountOthers(s.tag, w)  BY <1>1, <1>4 DEF CountOthers
  <1> QED  BY <1>4, <1>7, <1>8

\* The rules after one is appended.
LEMMA RulesAfterAppend ==
  ASSUME NEW w, RuleHost(w), NEW r \in Rules, NEW x, x = [w EXCEPT !.rules = Append(@, r)]
  PROVE  /\ RuleHost(x) /\ Len(w.rules) \in Nat /\ Len(x.rules) = Len(w.rules) + 1
         /\ DOMAIN w.rules = 1..Len(w.rules) /\ DOMAIN x.rules = 1..(Len(w.rules) + 1)
         /\ \A i \in DOMAIN w.rules : x.rules[i] = w.rules[i]
         /\ x.rules[Len(w.rules) + 1] = r
         /\ AllAtHome(w) /\ AtHome(r) => AllAtHome(x)
         /\ OneRule(w) /\ NoRuleOf(r.tag, w) => OneRule(x)
  <1> DEFINE q == w.rules
             z == Append(q, r)
  <1>1. q \in Seq(Rules) /\ w = [rules |-> q]  BY DEF RuleHost
  <1>2. x = [rules |-> z] /\ x.rules = z  BY <1>1
  <1>3. /\ z \in Seq(Rules) /\ Len(q) \in Nat /\ Len(z) = Len(q) + 1 /\ DOMAIN q = 1..Len(q)
        /\ DOMAIN z = 1..(Len(q) + 1) /\ z[Len(q) + 1] = r /\ \A i \in DOMAIN q : z[i] = q[i]
    BY <1>1
  <1> HIDE DEF z
  <1>4. RuleHost(x)  BY <1>2, <1>3 DEF RuleHost
  <1> HIDE DEF q
  <1>5. \A i \in DOMAIN z : i = Len(q) + 1 \/ i \in DOMAIN q  BY <1>3
  <1>6. (\A i \in DOMAIN q : AtHome(q[i])) /\ AtHome(r) => \A i \in DOMAIN z : AtHome(z[i])
    BY <1>3, <1>5
  <1>7. ASSUME OneRule(w), NoRuleOf(r.tag, w) PROVE OneRule(x)
    <2> SUFFICES ASSUME NEW s \in SpecsOf["firewall.rule"], NEW i \in DOMAIN z, NEW j \in DOMAIN z,
                        z[i].tag = s.tag, z[j].tag = s.tag
                 PROVE  i = j
      BY <1>2 DEF OneRule
    <2>1. \A m \in DOMAIN q : q[m].tag # r.tag  BY <1>7 DEF NoRuleOf, q
    <2>2. CASE i \in DOMAIN q /\ j \in DOMAIN q  BY <1>3, <1>7, <2>2 DEF OneRule, q
    <2>3. CASE i = Len(q) + 1 \/ j = Len(q) + 1  BY <1>3, <1>5, <2>1, <2>3
    <2> QED  BY <1>5, <2>2, <2>3
  <1> QED  BY <1>2, <1>3, <1>4, <1>6, <1>7 DEF q, AllAtHome

\* When the rule of a tag is appended it is the only one, and the others stay.
LEMMA TagAfterAppend ==
  ASSUME NEW s \in SpecsOf["firewall.rule"], NEW w, RuleHost(w),
         NEW r \in Rules, r.tag = s.tag, NoRuleOf(s.tag, w),
         NEW x, x = [w EXCEPT !.rules = Append(@, r)]
  PROVE  /\ TheRule(r, x)
         /\ OtherRules(s.tag, x) = OtherRules(s.tag, w)
         /\ CountOthers(s.tag, x) = CountOthers(s.tag, w)
  <1> DEFINE n == Len(w.rules)
  <1>1. /\ n \in Nat /\ Len(x.rules) = n + 1
        /\ DOMAIN w.rules = 1..n /\ DOMAIN x.rules = 1..(n + 1)
        /\ \A i \in DOMAIN w.rules : x.rules[i] = w.rules[i]
        /\ x.rules[n + 1] = r
    BY RulesAfterAppend
  <1> HIDE DEF n
  <1>2. \A i \in DOMAIN w.rules : w.rules[i].tag # s.tag  BY DEF NoRuleOf
  <1>3. n + 1 \in DOMAIN x.rules /\ \A i \in DOMAIN x.rules : i = n + 1 \/ i \in DOMAIN w.rules  BY <1>1
  <1>4. TheRule(r, x)
    <2>1. \A j \in DOMAIN x.rules : x.rules[j].tag = r.tag => j = n + 1  BY <1>1, <1>2, <1>3
    <2> QED  BY <1>1, <1>3, <2>1 DEF TheRule
  <1>5. {j \in DOMAIN w.rules : w.rules[j].tag # s.tag} = DOMAIN w.rules  BY <1>2
  <1>6. {j \in DOMAIN x.rules : x.rules[j].tag # s.tag} = DOMAIN w.rules
    BY <1>1, <1>2, <1>3
  <1>7. OtherRules(s.tag, x) = OtherRules(s.tag, w)
    <2>1. OtherRules(s.tag, x) = {x.rules[i] : i \in DOMAIN w.rules}  BY <1>6 DEF OtherRules
    <2>2. OtherRules(s.tag, w) = {w.rules[i] : i \in DOMAIN w.rules}  BY <1>5 DEF OtherRules
    <2>3. \A i \in DOMAIN w.rules : x.rules[i] = w.rules[i]  BY <1>1
    <2>4. {x.rules[i] : i \in DOMAIN w.rules} = {w.rules[i] : i \in DOMAIN w.rules}  BY <2>3
    <2> QED  BY <2>1, <2>2, <2>4
  <1>8. CountOthers(s.tag, x) = CountOthers(s.tag, w)
    <2>1. ~NoRuleOf(s.tag, x)  BY <1>1, <1>3 DEF NoRuleOf
    <2>2. CountOthers(s.tag, x) = (n + 1) - 1  BY <1>1, <2>1 DEF CountOthers
    <2>3. CountOthers(s.tag, w) = n  BY DEF CountOthers, n
    <2> QED  BY <1>1, <2>2, <2>3
  <1> QED  BY <1>4, <1>7, <1>8

(***************************************************************************)
(* What a call leaves fits what comes after it.                            *)
(***************************************************************************)
LEMMA HeadIsProper ==
  ASSUME NEW s, NEW q, AllProper(s, q), q # <<>>
  PROVE  /\ Proper(s, Head(q)) /\ AllProper(s, Tail(q)) /\ Head(q) = q[1] /\ 1 \in DOMAIN q
         /\ \A i \in DOMAIN Tail(q) : i \in Nat \ {0} /\ i + 1 \in DOMAIN q /\ Tail(q)[i] = q[i + 1]
         /\ \A i \in DOMAIN Tail(q) : i # 1 => i - 1 \in DOMAIN Tail(q) /\ Tail(q)[i - 1] = q[i]
  <1>1. /\ IsSeq(Tail(q)) /\ Len(Tail(q)) = Len(q) - 1 /\ Len(q) \in Nat \ {0}
        /\ DOMAIN q = 1..Len(q) /\ DOMAIN Tail(q) = 1..(Len(q) - 1)
        /\ 1 \in DOMAIN q /\ Head(q) = q[1]
        /\ \A i \in DOMAIN Tail(q) : i + 1 \in DOMAIN q /\ Tail(q)[i] = q[i + 1]
    BY HeadAndTail DEF AllProper
  <1>2. ASSUME NEW i \in DOMAIN Tail(q), i # 1 PROVE i - 1 \in DOMAIN Tail(q) /\ Tail(q)[i - 1] = q[i]
    <2>1. i - 1 \in DOMAIN Tail(q) /\ (i - 1) + 1 = i  BY <1>1, <1>2
    <2> QED  BY <1>1, <2>1
  <1> QED  BY <1>1, <1>2 DEF AllProper

LEMMA ContainerCallLeaves ==
  ASSUME kind \in Kind, kind = "docker.container", NEW s, NEW w, Sound(w),
         NEW q, AllProper(s, q), q # <<>>, NEW b \in BOOLEAN, Tidy(b, q, w), NEW x \in Leaves(Head(q), w)
  PROVE  Sound(x) /\ Tidy(b, <<>>, x) /\ (x \in DriverEffect(Head(q), w) => Tidy(b, Tail(q), x))
  <1> DEFINE c == Head(q)
  <1>1. ContainerHost(w) /\ (NamedNetworks /\ w.box # Gone => Apart(w.box.nets))  BY DEF Sound, ValidHost
  <1>2. Proper(s, c) /\ c = q[1] /\ 1 \in DOMAIN q  BY HeadIsProper
  <1>3. ContainerCall(c)  BY <1>2 DEF Proper
  <1>4. DriverEffect(c, w) = ContainerEffect(c, w)
        /\ Leaves(c, w) = {w} \union ContainerEffect(c, w) \union ContainerBroken(c, w)
    BY DEF DriverEffect, Leaves
  <1>5. NamedNetworks /\ c.op = "connect" /\ w.box # Gone => "bridge" \notin w.box.nets
    BY <1>2 DEF Tidy, ConnectsOnly
  <1>6. Tidy(b, <<>>, x)  BY DEF Tidy, ConnectsOnly
  <1>9. /\ Proper(s, Head(q)) /\ AllProper(s, Tail(q)) /\ Head(q) = q[1] /\ 1 \in DOMAIN q
        /\ \A i \in DOMAIN Tail(q) : i \in Nat \ {0} /\ i + 1 \in DOMAIN q /\ Tail(q)[i] = q[i + 1]
        /\ \A i \in DOMAIN Tail(q) : i # 1 => i - 1 \in DOMAIN Tail(q) /\ Tail(q)[i - 1] = q[i]
    BY HeadIsProper
  <1>7. CASE x \in ContainerEffect(c, w) \union ContainerBroken(c, w)
    <2>1. /\ ContainerHost(x) /\ (NamedNetworks /\ x.box # Gone => Apart(x.box.nets))
          /\ c.op = "run" => x.box = [Started(c.arg, w) EXCEPT !.running = x.box.running]
          /\ c.op = "connect" => w.box # Gone /\ x.box = [w.box EXCEPT !.nets = @ \union {c.arg}]
      BY <1>1, <1>3, <1>5, <1>7, ContainerCallKeepsSound
    <2>2. Sound(x)  BY <2>1 DEF Sound, ValidHost
    <2>3. ASSUME NamedNetworks, x.box # Gone, NEW i \in DOMAIN Tail(q), i = 1, Tail(q)[i].op = "connect"
          PROVE  "bridge" \notin x.box.nets
      <3>1. 2 \in DOMAIN q /\ q[2].op = "connect" /\ q[1] = c  BY <2>3, <1>2, <1>9
      <3>2. c.op = "connect" \/ (c.op = "run" /\ c.arg.net \notin {Gone, "bridge"})
        BY <2>3, <3>1 DEF Tidy, ConnectsOnly
      <3>3. CASE c.op = "connect"
        <4>1. w.box \in Boxes /\ w.box # Gone  BY <1>1, <2>1, <3>3 DEF ContainerHost
        <4>2. x.box.nets = w.box.nets \union {c.arg}  BY <2>1, <3>3, <4>1 DEF Boxes
        <4>3. c.arg # "bridge"  BY <1>3, <2>3, <3>3 DEF ContainerCall
        <4> QED  BY <1>5, <2>3, <3>3, <4>1, <4>2, <4>3
      <3>4. CASE c.op = "run" /\ c.arg.net \notin {Gone, "bridge"}
        <4>1. c.arg \in RunSpecs  BY <1>3, <3>4 DEF ContainerCall
        <4>2. Started(c.arg, w) \in Boxes /\ Started(c.arg, w).nets = {c.arg.net}
          BY <1>1, <3>4, <4>1, StartedIsBox
        <4>3. x.box.nets = {c.arg.net}  BY <2>1, <3>4, <4>2 DEF Boxes
        <4> QED  BY <3>4, <4>3
      <3> QED  BY <3>2, <3>3, <3>4
    <2>4. ASSUME NamedNetworks, NEW i \in DOMAIN Tail(q), i # 1, Tail(q)[i].op = "connect"
          PROVE  \/ Tail(q)[i - 1].op = "connect"
                 \/ Tail(q)[i - 1].op = "run" /\ Tail(q)[i - 1].arg.net \notin {Gone, "bridge"}
      <3>1. i \in Nat \ {0} /\ i + 1 \in DOMAIN q /\ q[i + 1].op = "connect" /\ Tail(q)[i - 1] = q[i]
        BY <2>4, <1>9
      <3>2. i + 1 # 1 /\ (i + 1) - 1 = i  BY <3>1
      <3> QED  BY <2>4, <3>1, <3>2 DEF Tidy, ConnectsOnly
    <2>5. NamedNetworks => ConnectsOnly(Tail(q), x)  BY <2>3, <2>4 DEF ConnectsOnly
    <2>6. Tidy(b, Tail(q), x)  BY <2>5 DEF Tidy
    <2> QED  BY <1>6, <2>2, <2>6
  <1>8. CASE x = w /\ x \notin ContainerEffect(c, w)  BY <1>4, <1>6, <1>8
  <1> QED  BY <1>4, <1>7, <1>8

LEMMA RuleCallLeaves ==
  ASSUME RulesStayPut, kind \in Kind, kind = "firewall.rule", NEW s \in SpecsOf[kind], NEW w, Sound(w),
         NEW q, AllProper(s, q), q # <<>>, NEW b \in BOOLEAN, Tidy(b, q, w), NEW x \in Leaves(Head(q), w)
  PROVE  Sound(x) /\ Tidy(b, <<>>, x) /\ (x \in DriverEffect(Head(q), w) => Tidy(b, Tail(q), x))
  <1> DEFINE c == Head(q)
  <1>1. RuleHost(w) /\ AllAtHome(w)  BY DEF Sound, ValidHost
  <1>2. Proper(s, c) /\ c = q[1] /\ 1 \in DOMAIN q  BY HeadIsProper
  <1>3. RuleCall(s, c)  BY <1>2 DEF Proper
  <1>4. Leaves(c, w) = {w} \union DriverEffect(c, w)  BY DEF Leaves
  <1>5. ~b => OneRule(w) /\ (c.op = "append" => NoRuleOf(s.tag, w))
    BY <1>2, <1>3 DEF Tidy, AppendsLast, RuleCall
  <1>6. s \in SpecsOf["firewall.rule"]  OBVIOUS
  <1>9. /\ Proper(s, Head(q)) /\ AllProper(s, Tail(q)) /\ Head(q) = q[1] /\ 1 \in DOMAIN q
        /\ \A i \in DOMAIN Tail(q) : i \in Nat \ {0} /\ i + 1 \in DOMAIN q /\ Tail(q)[i] = q[i + 1]
        /\ \A i \in DOMAIN Tail(q) : i # 1 => i - 1 \in DOMAIN Tail(q) /\ Tail(q)[i - 1] = q[i]
    BY HeadIsProper
  <1>7. CASE x \in DriverEffect(c, w)
    <2>1. /\ RuleHost(x) /\ AllAtHome(x)
          /\ ~b => OneRule(x)
          /\ ~b /\ c.op = "delete" => NoRuleOf(s.tag, x)
      <3>1. CASE c.op = "delete"
        <4>1. CASE DriverEffect(c, w) = {w} /\ NoRuleOf(s.tag, w)  BY <1>1, <1>5, <1>7, <4>1
        <4>2. ASSUME NEW k \in DOMAIN w.rules, w.rules[k].tag = s.tag,
                     DriverEffect(c, w) = {[w EXCEPT !.rules = RemoveAt(@, k)]}
              PROVE  /\ RuleHost(x) /\ AllAtHome(x)
                     /\ ~b => OneRule(x) /\ NoRuleOf(s.tag, x)
          <5>1. x = [w EXCEPT !.rules = RemoveAt(@, k)]  BY <1>7, <4>2
          <5>0. RuleHost(w) /\ k \in DOMAIN w.rules  BY <1>1, <4>2
          <5>4. RuleHost(x)  BY <5>0, <5>1, RulesAfterDelete
          <5>5. AllAtHome(w) => AllAtHome(x)  BY <5>0, <5>1, RulesAfterDelete
          <5>2. OneRule(w) => OneRule(x)  BY <5>0, <5>1, RulesAfterDelete
          <5>3. OneRule(w) => NoRuleOf(s.tag, x)  BY <1>1, <1>6, <4>2, <5>1, TagAfterDelete
          <5> QED  BY <1>1, <1>5, <5>2, <5>3, <5>4, <5>5
        <4>3. \/ DriverEffect(c, w) = {w} /\ NoRuleOf(s.tag, w)
              \/ \E k \in DOMAIN w.rules :
                   w.rules[k].tag = s.tag /\ DriverEffect(c, w) = {[w EXCEPT !.rules = RemoveAt(@, k)]}
          BY <1>3, <3>1, DeleteTakes
        <4> QED  BY <4>1, <4>2, <4>3
      <3>2. CASE c.op = "append"
        <4>1. c.arg \in Rules /\ c.arg.tag = s.tag /\ AtHome(c.arg)  BY <1>3 DEF RuleCall
        <4>2. x = [w EXCEPT !.rules = Append(@, c.arg)]  BY <1>7, <3>2 DEF DriverEffect, RuleEffect
        <4>3. /\ RuleHost(x)
              /\ AllAtHome(w) /\ AtHome(c.arg)
                   => AllAtHome(x)
              /\ OneRule(w) /\ NoRuleOf(c.arg.tag, w) => OneRule(x)
          BY <1>1, <4>1, <4>2, RulesAfterAppend
        <4> QED  BY <1>1, <1>5, <3>2, <4>1, <4>3
      <3> QED  BY <1>3, <3>1, <3>2 DEF RuleCall
    <2>2. Sound(x)  BY <2>1 DEF Sound, ValidHost
    <2>3. Tidy(b, <<>>, x)  BY <2>1 DEF Tidy, AppendsLast
    <2>4. ASSUME ~b, NEW i \in DOMAIN Tail(q), Tail(q)[i].op = "append"
          PROVE  IF i = 1 THEN NoRuleOf(Tail(q)[i].arg.tag, x)
                 ELSE Tail(q)[i - 1].op = "delete" /\ Tail(q)[i - 1].arg = Tail(q)[i].arg
      <3>1. /\ i \in Nat \ {0} /\ i + 1 \in DOMAIN q /\ Tail(q)[i] = q[i + 1]
            /\ i # 1 => Tail(q)[i - 1] = q[i]
        BY <2>4, <1>9
      <3>2. i + 1 # 1 /\ (i + 1) - 1 = i  BY <3>1
      <3>3. q[i].op = "delete" /\ q[i].arg = q[i + 1].arg  BY <2>4, <3>1, <3>2 DEF Tidy, AppendsLast
      <3>4. CASE i = 1
        <4>1. q[i] = c  BY <1>2, <3>4
        <4>2. NoRuleOf(s.tag, x) /\ c.arg.tag = s.tag  BY <1>3, <2>1, <2>4, <3>3, <4>1 DEF RuleCall
        <4>3. Tail(q)[i].arg.tag = s.tag  BY <3>1, <3>3, <4>1, <4>2
        <4> QED  BY <3>4, <4>2, <4>3
      <3> QED  BY <3>1, <3>3, <3>4
    <2>5. Tidy(b, Tail(q), x)  BY <2>1, <2>4 DEF Tidy, AppendsLast
    <2> QED  BY <2>2, <2>3, <2>5
  <1>8. CASE x = w /\ x \notin DriverEffect(c, w)  BY <1>5, <1>8 DEF Tidy, AppendsLast
  <1> QED  BY <1>4, <1>7, <1>8

LEMMA CallLeaves ==
  ASSUME RulesStayPut, kind \in Kind, NEW s \in SpecsOf[kind], NEW w, Sound(w),
         NEW q, AllProper(s, q), q # <<>>, NEW b \in BOOLEAN, Tidy(b, q, w), NEW x \in Leaves(Head(q), w)
  PROVE  Sound(x) /\ Tidy(b, <<>>, x) /\ (x \in DriverEffect(Head(q), w) => Tidy(b, Tail(q), x))
  <1> DEFINE c == Head(q)
  <1>0. ValidHost(kind, w)  BY DEF Sound
  <1>p. Proper(s, c)  BY HeadIsProper
  <1> HIDE DEF c
  <1>1. CASE kind = "docker.container"  BY <1>1, ContainerCallLeaves
  <1>2. CASE kind = "firewall.rule"  BY <1>2, RuleCallLeaves
  <1> SUFFICES ASSUME kind \notin {"docker.container", "firewall.rule"} PROVE ValidHost(kind, x)
    BY <1>1, <1>2 DEF Sound, Tidy
  <1>w. x \in Leaves(c, w)  BY DEF c
  <1>3. CASE kind = "docker.compose"
    <2>1. StackHost(w)  BY <1>0, <1>3 DEF ValidHost
    <2>2. x \in {w} \union StackEffect(c, w) \union StackBroken(c, w)
      BY <1>3, <1>w DEF Leaves, DriverEffect
    <2>3. \/ x = w
          \/ x.has = w.has /\ x = [file |-> x.file, has |-> x.has]
          \/ \E f : x = [w EXCEPT !.has = [i \in DOMAIN w.has |-> f[i]]]
      <3>0. w = [file |-> w.file, has |-> w.has]  BY <2>1 DEF StackHost
      <3>1. CASE c.op \in {"write", "rmdir"}
        <4>1. x = w \/ \E v : x = [w EXCEPT !.file = v]  BY <2>2, <3>1 DEF StackEffect, StackBroken
        <4> QED  BY <3>0, <4>1
      <3>2. CASE c.op = "up"
        <4>1. x = w \/ \E some : x = UpTo(some, c.arg, w)  BY <2>2, <3>2 DEF StackEffect, StackBroken
        <4>2. ASSUME NEW some, x = UpTo(some, c.arg, w)
              PROVE  \E f : x = [w EXCEPT !.has = [i \in DOMAIN w.has |-> f[i]]]
          <5> DEFINE f == [i \in DOMAIN w.has |->
                  IF i \notin some THEN w.has[i] ELSE IF i \in c.arg.names THEN c.arg.rev ELSE Gone]
          <5>1. x = [w EXCEPT !.has = f]  BY <4>2 DEF UpTo
          <5>2. f = [i \in DOMAIN w.has |-> f[i]]  OBVIOUS
          <5> HIDE DEF f
          <5> QED  BY <5>1, <5>2
        <4> QED  BY <4>1, <4>2
      <3>3. CASE c.op = "down"
        <4>1. x = w \/ \E some : x = [w EXCEPT !.has = [i \in DOMAIN w.has |-> IF i \in some THEN Gone ELSE w.has[i]]]
          <5>1. ASSUME x \in StackEffect(c, w)
                PROVE  x = [w EXCEPT !.has = [i \in DOMAIN w.has |-> IF i \in DOMAIN w.has THEN Gone ELSE w.has[i]]]
            <6>1. x = [w EXCEPT !.has = [i \in DOMAIN w.has |-> Gone]]  BY <3>3, <5>1 DEF StackEffect
            <6>2. [i \in DOMAIN w.has |-> Gone]
                    = [i \in DOMAIN w.has |-> IF i \in DOMAIN w.has THEN Gone ELSE w.has[i]]
              OBVIOUS
            <6> QED  BY <6>1, <6>2
          <5>2. ASSUME x \in StackBroken(c, w)
                PROVE  \E some : x = [w EXCEPT !.has = [i \in DOMAIN w.has |-> IF i \in some THEN Gone ELSE w.has[i]]]
            BY <3>3, <5>2 DEF StackBroken
          <5> QED  BY <2>2, <5>1, <5>2
        <4>2. ASSUME NEW some,
                     x = [w EXCEPT !.has = [i \in DOMAIN w.has |-> IF i \in some THEN Gone ELSE w.has[i]]]
              PROVE  \E f : x = [w EXCEPT !.has = [i \in DOMAIN w.has |-> f[i]]]
          <5> DEFINE f == [i \in DOMAIN w.has |-> IF i \in some THEN Gone ELSE w.has[i]]
          <5>1. x = [w EXCEPT !.has = f]  BY <4>2
          <5>2. f = [i \in DOMAIN w.has |-> f[i]]  OBVIOUS
          <5> HIDE DEF f
          <5> QED  BY <5>1, <5>2
        <4> QED  BY <4>1, <4>2
      <3> QED  BY <1>3, <1>p, <3>1, <3>2, <3>3 DEF Proper
    <2>4. w = [file |-> w.file, has |-> w.has] /\ w.has = [i \in Service |-> w.has[i]]
      BY <2>1 DEF StackHost
    <2>5. DOMAIN w.has = Service  BY <2>4
    <2>6. CASE \E f : x = [w EXCEPT !.has = [i \in DOMAIN w.has |-> f[i]]]
      <3>1. PICK f : x = [w EXCEPT !.has = [i \in DOMAIN w.has |-> f[i]]]  BY <2>6
      <3>2. x = [file |-> w.file, has |-> [i \in Service |-> f[i]]]  BY <2>4, <2>5, <3>1
      <3> QED  BY <1>3, <3>2 DEF ValidHost, StackHost
    <2> QED  BY <1>3, <2>1, <2>3, <2>4, <2>6 DEF ValidHost, StackHost
  <1>4. CASE kind = "dns.record"
    BY <1>0, <1>p, <1>w, <1>4 DEF ValidHost, RecordHost, Leaves, DriverEffect, RecordEffect, Proper
  <1>5. CASE kind = "acme.certificate"
    <2>1. CertHost(w) /\ CertCall(c)  BY <1>0, <1>p, <1>5 DEF ValidHost, Proper
    <2>2. x = w \/ x \in CertEffect(c, w)  BY <1>5, <1>w DEF Leaves, DriverEffect
    <2>3. CertHost(x)
      <3>1. CASE c.op \in {"issue", "renew"}
        <4> DEFINE n == w.count + 1
        <4>1. n \in Nat  BY <2>1 DEF CertHost
        <4>2. x = w \/ x = [cert |-> [pair |-> n, fresh |-> TRUE], key |-> n, count |-> n]
          BY <2>2, <3>1 DEF CertEffect
        <4> HIDE DEF n
        <4>3. [pair |-> n, fresh |-> TRUE] \in Certs  BY <4>1 DEF Certs
        <4>4. [cert |-> [pair |-> n, fresh |-> TRUE], key |-> n, count |-> n]
                \in [cert : Certs \union {Gone}, key : Nat \union {Gone}, count : Nat]
          BY <4>1, <4>3
        <4> QED  BY <2>1, <4>2, <4>4 DEF CertHost
      <3>2. CASE c.op \notin {"issue", "renew"}
        BY <2>1, <2>2, <3>2 DEF CertHost, CertCall, CertEffect
      <3> QED  BY <3>1, <3>2
    <2> QED  BY <1>5, <2>3 DEF ValidHost
  <1>6. CASE kind = "monitoring.check"
    BY <1>0, <1>w, <1>6 DEF ValidHost, Leaves, DriverEffect, CheckEffect
  <1>7. CASE kind = "cron.job"
    BY <1>0, <1>w, <1>7 DEF ValidHost, JobHost, Leaves, DriverEffect, JobEffect
  <1>8. CASE kind = "package"
    <2>1. PackageHost(w) /\ c.op \in {"install", "remove"} /\ c.arg \in STRING \union {Gone}
      BY <1>0, <1>p, <1>8 DEF ValidHost, Proper
    <2>2. x = w \/ x \in PackageEffect(c, w) \union PackageBroken(c, w)  BY <1>8, <1>w DEF Leaves, DriverEffect
    <2> DEFINE v == IF c.arg = Gone THEN "2" ELSE c.arg
    <2>3. v \in STRING /\ v # Gone  BY <2>1, StringAssumption, GoneAssumption
    <2>4. CASE x \in {[version |-> v, status |-> "installed"], [version |-> v, status |-> "half"]}
      <3> HIDE DEF v
      <3> QED  BY <1>8, <2>3, <2>4 DEF ValidHost, PackageHost, Installed
    <2>5. CASE x = w \/ x = [w EXCEPT !.status = "config"]
      BY <1>8, <2>1, <2>5 DEF ValidHost, PackageHost, Installed
    <2>6. x \in {[version |-> v, status |-> "installed"], [version |-> v, status |-> "half"],
                 w, [w EXCEPT !.status = "config"]}
      BY <2>1, <2>2 DEF PackageEffect, PackageBroken
    <2> QED  BY <2>4, <2>5, <2>6
  <1>9. CASE kind = "sysctl.setting"
    BY <1>0, <1>w, <1>9 DEF ValidHost, SettingHost, Leaves, DriverEffect, SettingEffect
  <1>10. CASE kind = "plugin"
    BY <1>0, <1>w, <1>10 DEF ValidHost, ObjectHost, Leaves, DriverEffect, ObjectEffect
  <1> QED  BY <1>3, <1>4, <1>5, <1>6, <1>7, <1>8, <1>9, <1>10, OneOfTheKinds DEF DriverKinds

\* A call whose failure is ignored can always be made.
LEMMA SoftCallsWork ==
  ASSUME RulesStayPut, kind \in Kind, NEW s \in SpecsOf[kind], NEW w, Sound(w), NEW c, Proper(s, c), c.soft
  PROVE  DriverEffect(c, w) # {}
  <1>1. CASE kind = "docker.compose"
    BY <1>1 DEF Proper, DriverEffect, StackEffect
  <1>2. CASE kind = "firewall.rule"
    <2>1. RuleCall(s, c) /\ c.op = "delete"  BY <1>2 DEF Proper, RuleCall
    <2>2. \/ DriverEffect(c, w) = {w} /\ NoRuleOf(s.tag, w)
          \/ \E k \in DOMAIN w.rules :
               w.rules[k].tag = s.tag /\ DriverEffect(c, w) = {[w EXCEPT !.rules = RemoveAt(@, k)]}
      BY <1>2, <2>1, DeleteTakes
    <2> QED  BY <2>2
  <1>3. CASE kind = "acme.certificate"
    BY <1>3 DEF Proper, CertCall, DriverEffect, CertEffect
  <1> QED  BY <1>1, <1>2, <1>3 DEF Proper

(***************************************************************************)
(* What has not changed since the apply began.                             *)
(***************************************************************************)
LEMMA SinceBegins ==
  ASSUME kind \in Kind, NEW s, NEW w, Tidy(FALSE, <<>>, w)
  PROVE  Since(s, w, w)
  BY DEF Since, Tidy

LEMMA CallKeepsSince ==
  ASSUME RulesStayPut, kind \in Kind, NEW s \in SpecsOf[kind], NEW w, Sound(w),
         NEW q, AllProper(s, q), q # <<>>, Tidy(FALSE, q, w), NEW v, Since(s, v, w), NEW x \in Leaves(Head(q), w)
  PROVE  Since(s, v, x)
  <1> DEFINE c == Head(q)
  <1>0. ValidHost(kind, w)  BY DEF Sound
  <1>p. Proper(s, c) /\ c = q[1] /\ 1 \in DOMAIN q  BY HeadIsProper
  <1>1. CASE kind = "firewall.rule"
    <2>1. RuleHost(w)  BY <1>0, <1>1 DEF ValidHost
    <2>2. RuleCall(s, c)  BY <1>1, <1>p DEF Proper
    <2>3. OneRule(w) /\ (c.op = "append" => NoRuleOf(s.tag, w))
      BY <1>1, <1>p, <2>2 DEF Tidy, AppendsLast, RuleCall
    <2>4. s \in SpecsOf["firewall.rule"]  BY <1>1
    <2>5. x = w \/ x \in DriverEffect(c, w)  BY <1>1 DEF Leaves
    <2> HIDE DEF c
    <2>6. OtherRules(s.tag, x) = OtherRules(s.tag, w) /\ CountOthers(s.tag, x) = CountOthers(s.tag, w)
      <3>1. CASE c.op = "delete" /\ x # w
        <4>1. PICK k \in DOMAIN w.rules :
                w.rules[k].tag = s.tag /\ DriverEffect(c, w) = {[w EXCEPT !.rules = RemoveAt(@, k)]}
          BY <1>1, <2>2, <2>5, <3>1, DeleteTakes
        <4>2. x = [w EXCEPT !.rules = RemoveAt(@, k)]  BY <2>5, <3>1, <4>1
        <4>3. w.rules[k].tag = s.tag  BY <4>1
        <4> QED  BY <2>1, <2>3, <2>4, <4>2, <4>3, TagAfterDelete
      <3>2. CASE c.op = "append" /\ x # w
        <4>1. x = [w EXCEPT !.rules = Append(@, c.arg)]
          BY <1>1, <2>5, <3>2 DEF DriverEffect, RuleEffect
        <4>2. c.arg \in Rules /\ c.arg.tag = s.tag  BY <2>2 DEF RuleCall
        <4>3. NoRuleOf(s.tag, w)  BY <2>3, <3>2
        <4> QED  BY <2>1, <2>4, <4>1, <4>2, <4>3, TagAfterAppend
      <3> QED  BY <2>2, <3>1, <3>2 DEF RuleCall
    <2> QED  BY <1>1, <2>6 DEF Since
  <1>2. CASE kind = "monitoring.check"
    BY <1>2 DEF Since, Leaves, DriverEffect, CheckEffect
  <1>3. CASE kind = "sysctl.setting"
    BY <1>3 DEF Since, Leaves, DriverEffect, SettingEffect
  <1> QED  BY <1>1, <1>2, <1>3 DEF Since

(***************************************************************************)
(* The way of an apply to its spec.                                        *)
(***************************************************************************)
LEMMA WayBegins ==
  ASSUME kind \in Kind, NEW s \in SpecsOf[kind], NEW w, DriverDiffers(s, w)
  PROVE  Way(s, DriverPlan(s, w), <<>>, w)
  <1>1. CASE kind = "docker.container"
    BY <1>1 DEF Way, DriverPlan, ContainerPlan, ContainerWay
  <1>2. CASE kind = "docker.compose"    BY <1>2 DEF Way, DriverPlan, StackWay
  <1>3. CASE kind = "firewall.rule"     BY <1>3 DEF Way, DriverPlan, RuleWay
  <1>4. CASE kind = "dns.record"        BY <1>4 DEF Way, DriverPlan, DriverDiffers, RecordWay
  <1>5. CASE kind = "acme.certificate"  BY <1>5 DEF Way, DriverPlan, CertWay
  <1>6. CASE kind = "monitoring.check"  BY <1>6 DEF Way
  <1>7. CASE kind = "cron.job"          BY <1>7 DEF Way, DriverPlan, SimpleWay
  <1>8. CASE kind = "package"           BY <1>8 DEF Way, DriverPlan, SimpleWay
  <1>9. CASE kind = "sysctl.setting"    BY <1>9 DEF Way, DriverPlan, SimpleWay
  <1>10. CASE kind = "plugin"
    <2>1. \E step \in {"create", "update", "delete"} : ObjectPlan(s, w) = <<step>>  BY DEF ObjectPlan
    <2> QED  BY <1>10, <2>1 DEF Way, DriverPlan, SimpleWay
  <1> QED  BY <1>1, <1>2, <1>3, <1>4, <1>5, <1>6, <1>7, <1>8, <1>9, <1>10, OneOfTheKinds DEF DriverKinds

\* The container that a spec is made into.
LEMMA SpecOfContainer ==
  ASSUME kind \in Kind, kind = "docker.container", NEW s \in SpecsOf[kind], s.present
  PROVE  s \in RunSpecs /\ (NamedNetworks => NetsNamed(s))
  <1>1. s \in ContainerSpecs /\ s.ref # Gone  BY SpecIsValid DEF ValidSpec, ValidContainer
  <1> QED  BY <1>1 DEF ContainerSpecs, RunSpecs, NamedNetworks

LEMMA WayTakesStep ==
  ASSUME kind \in Kind, NEW s \in SpecsOf[kind], NEW w, NEW steps, steps # <<>>, Way(s, steps, <<>>, w)
  PROVE  Way(s, Tail(steps), DriverCalls(s, Head(steps)), w)
  <1>1. CASE kind = "docker.container"
    <2>1. ContainerWay(s, steps, <<>>, w)  BY <1>1 DEF Way
    <2>2. CASE s.present
      <3>1. CASE steps = <<"pull", "recreate">>
        <4>1. Head(steps) = "pull" /\ Tail(steps) = <<"recreate">>  BY <3>1
        <4> QED  BY <1>1, <2>2, <4>1 DEF Way, ContainerWay, DriverCalls, ContainerCalls
      <3>2. CASE steps = <<"recreate">>
        <4>1. Head(steps) = "recreate" /\ Tail(steps) = <<>>  BY <3>2
        <4>2. s.extra \in Seq(STRING)  BY <1>1, <2>2, SpecOfContainer DEF RunSpecs
        <4>3. IsSeq(Connects(s.extra))  BY <4>2, ConnectsOfNets
        <4>4. DriverCalls(s, "recreate") =
                <<Call("stop", Gone), Call("remove", Gone), Call("run", s)>> \o Connects(s.extra)
          BY <1>1 DEF DriverCalls, ContainerCalls
        <4>5. DriverCalls(s, "recreate") = <<Call("stop", Gone)>> \o (<<Call("remove", Gone)>> \o Runs(s))
          BY <4>3, <4>4, ThreeInFront DEF Runs
        <4> QED  BY <1>1, <2>2, <4>1, <4>5 DEF Way, ContainerWay, Starting
      <3> QED  BY <2>1, <2>2, <3>1, <3>2 DEF ContainerWay
    <2>3. CASE ~s.present
      <3>1. steps = <<"remove">>  BY <2>1, <2>3 DEF ContainerWay
      <3>2. Head(steps) = "remove" /\ Tail(steps) = <<>>  BY <3>1
      <3> QED  BY <1>1, <2>3, <3>2 DEF Way, ContainerWay, Removing, DriverCalls, ContainerCalls
    <2> QED  BY <2>2, <2>3
  <1>2. CASE kind = "docker.compose"
    <2>1. steps = StackPlan(s)  BY <1>2 DEF Way, StackWay
    <2>2. Tail(steps) = <<>> /\ Head(steps) = IF s.present THEN "up" ELSE "down"  BY <2>1 DEF StackPlan
    <2> QED  BY <1>2, <2>2 DEF Way, StackWay, DriverCalls, StackCalls
  <1>3. CASE kind = "firewall.rule"
    <2>1. steps = RulePlan(s)  BY <1>3 DEF Way, RuleWay
    <2>2. Tail(steps) = <<>> /\ Head(steps) = IF s.present THEN "upsert" ELSE "delete"  BY <2>1 DEF RulePlan
    <2> QED  BY <1>3, <2>2 DEF Way, RuleWay, Replacing, Deleting, DriverCalls, RuleCalls
  <1>4. CASE kind = "dns.record"
    <2>1. steps = RecordPlan(s, w) /\ RecordDiffers(s, w)  BY <1>4 DEF Way, RecordWay
    <2>2. Tail(steps) = <<>> /\ Head(steps) = RecordPlan(s, w)[1]  BY <2>1 DEF RecordPlan
    <2> QED  BY <1>4, <2>1, <2>2 DEF Way, RecordWay, DriverCalls
  <1>5. CASE kind = "acme.certificate"
    <2>1. steps = CertPlan(s, w)  BY <1>5 DEF Way, CertWay
    <2>2. /\ Tail(steps) = <<>>
          /\ Head(steps) \in IF s.present THEN {"issue", "renew"} ELSE {"revoke"}
      BY <2>1 DEF CertPlan
    <2> QED  BY <1>5, <2>2 DEF Way, CertWay, DriverCalls
  <1>6. CASE kind = "monitoring.check"  BY <1>6 DEF Way
  <1>7. CASE kind = "cron.job"
    <2>1. steps = JobPlan(s)  BY <1>7 DEF Way, SimpleWay
    <2>2. Tail(steps) = <<>>  BY <2>1 DEF JobPlan
    <2> QED  BY <1>7, <2>2 DEF Way, SimpleWay, DriverCalls
  <1>8. CASE kind = "package"
    <2>1. steps = PackagePlan(s)  BY <1>8 DEF Way, SimpleWay
    <2>2. Tail(steps) = <<>> /\ Head(steps) = PackagePlan(s)[1]  BY <2>1 DEF PackagePlan
    <2> QED  BY <1>8, <2>2 DEF Way, SimpleWay, DriverCalls
  <1>9. CASE kind = "sysctl.setting"
    <2>1. w.val = Gone \/ steps = <<"set">>  BY <1>9 DEF Way, SimpleWay
    <2>2. CASE steps = <<"set">>
      <3>1. Tail(steps) = <<>>  BY <2>2
      <3> QED  BY <1>9, <3>1 DEF Way, SimpleWay, DriverCalls
    <2> QED  BY <1>9, <2>1, <2>2 DEF Way
  <1>10. CASE kind = "plugin"
    <2>1. PICK step \in {"create", "update", "delete"} : steps = <<step>>  BY <1>10 DEF Way, SimpleWay
    <2>2. Tail(steps) = <<>> /\ Head(steps) = step  BY <2>1
    <2>3. SimpleWay(<<step>>, ObjectCalls(s, step), ObjectDiffers(s, w), <<>>, ObjectCalls(s, step))
      BY DEF SimpleWay
    <2> QED  BY <1>10, <2>1, <2>2, <2>3 DEF Way, DriverCalls
  <1> QED  BY <1>1, <1>2, <1>3, <1>4, <1>5, <1>6, <1>7, <1>8, <1>9, <1>10, OneOfTheKinds DEF DriverKinds

\* The networks of the first call and of the others.
LEMMA ArgsOfRest ==
  ASSUME NEW q, IsSeq(q), q # <<>>
  PROVE  {q[i].arg : i \in DOMAIN q} = {Head(q).arg} \union {Tail(q)[i].arg : i \in DOMAIN Tail(q)}
  <1>1. /\ DOMAIN q = 1..Len(q) /\ Len(q) \in Nat \ {0} /\ DOMAIN Tail(q) = 1..(Len(q) - 1)
        /\ Head(q) = q[1] /\ 1 \in DOMAIN q
        /\ \A i \in DOMAIN Tail(q) : i + 1 \in DOMAIN q /\ Tail(q)[i] = q[i + 1]
    BY HeadAndTail
  <1>2. ASSUME NEW i \in DOMAIN q, i # 1 PROVE i - 1 \in DOMAIN Tail(q) /\ q[i] = Tail(q)[i - 1]
    <2>1. i - 1 \in DOMAIN Tail(q) /\ (i - 1) + 1 = i  BY <1>1, <1>2
    <2> QED  BY <1>1, <2>1
  <1> QED  BY <1>1, <1>2

\* From docker run on.
LEMMA RunsGoOn ==
  ASSUME NEW w, ContainerHost(w), NEW r \in RunSpecs, NEW q, IsSeq(q), q # <<>>,
         (q = Runs(r) /\ w.box = Gone) \/ Connecting(r, q, w),
         ContainerCall(Head(q)),
         NamedNetworks => Head(q).op # "connect" \/ "bridge" \notin w.box.nets,
         NamedNetworks => (w.box # Gone => Apart(w.box.nets))
  PROVE  ContainerEffect(Head(q), w) # {} /\ \A x \in ContainerEffect(Head(q), w) : Connecting(r, Tail(q), x)
  <1> DEFINE c == Head(q)
  <1>1. CASE q = Runs(r) /\ w.box = Gone
    <2>1. r.extra \in Seq(STRING)  BY DEF RunSpecs
    <2> DEFINE z == Connects(r.extra)
    <2>2. /\ IsSeq(z) /\ DOMAIN z = DOMAIN r.extra
          /\ \A i \in DOMAIN r.extra : z[i] = Call("connect", r.extra[i])
          /\ {z[i].arg : i \in DOMAIN z} = ToSet(r.extra)
      BY <2>1, ConnectsOfNets
    <2>3. q = <<Call("run", r)>> \o z  BY <1>1 DEF Runs
    <2> HIDE DEF z
    <2>4. c = Call("run", r) /\ Tail(q) = z  BY <2>2, <2>3, InFront
    <2>5. c.op = "run" /\ c.arg = r  BY <2>4 DEF Call
    <2>6. ContainerEffect(c, w) # {}  BY <1>1, <2>5 DEF ContainerEffect
    <2>7. ASSUME NEW x \in ContainerEffect(c, w) PROVE Connecting(r, z, x)
      <3> HIDE DEF c
      <3>1. /\ x.box # Gone /\ x.box = [Started(r, w) EXCEPT !.running = x.box.running]
            /\ x.box.running \in BOOLEAN /\ x.loc[r.ref] = Started(r, w).id /\ x.box.running
        <4>1. /\ x.box # Gone /\ x.box = [Started(c.arg, w) EXCEPT !.running = x.box.running]
              /\ x.box.running \in BOOLEAN /\ x.loc[c.arg.ref] = Started(c.arg, w).id
              /\ x \in ContainerEffect(c, w) => x.box.running
          BY <2>5, <2>7, <1>1, ContainerCallKeepsSound DEF c
        <4> QED  BY <4>1, <2>5, <2>7
      <3> DEFINE n == Started(r, w)
      <3>2. /\ n \in Boxes /\ n # Gone
            /\ n.nets = {IF r.net = Gone THEN "bridge" ELSE r.net}
            /\ n.ref = r.ref /\ n.opts = r.opts /\ n.vol = r.vol /\ n.env = r.env \union {"PATH"}
            /\ n.cmd = (IF r.cmd = "none" THEN "default" ELSE r.cmd) /\ n.tmpfs = r.tmpfs /\ n.running
            /\ n.id \in Nat /\ n.id # Gone
        BY StartedIsBox
      <3> HIDE DEF n
      <3>3. x.box = [n EXCEPT !.running = x.box.running]  BY <3>1 DEF n
      <3>4. /\ x.box.nets = n.nets /\ x.box.ref = n.ref /\ x.box.opts = n.opts /\ x.box.vol = n.vol
            /\ x.box.env = n.env /\ x.box.cmd = n.cmd /\ x.box.tmpfs = n.tmpfs /\ x.box.id = n.id
        BY <3>2, <3>3 DEF Boxes
      <3>5. x.loc[r.ref] = n.id  BY <3>1 DEF n
      <3>6. Built(r, x)  BY <3>1, <3>2, <3>4, <3>5 DEF Built
      <3>7. \A i \in DOMAIN z : z[i].op = "connect"
        <4>1. \A v : Call("connect", v).op = "connect"  BY DEF Call
        <4> QED  BY <2>2, <4>1
      <3>8. x.box.nets \union {z[i].arg : i \in DOMAIN z} = NetsOf(r)  BY <2>2, <3>2, <3>4 DEF NetsOf
      <3> QED  BY <3>6, <3>7, <3>8 DEF Connecting
    <2> QED  BY <2>4, <2>6, <2>7
  <1>2. CASE Connecting(r, q, w)
    <2>1. /\ DOMAIN q = 1..Len(q) /\ Head(q) = q[1] /\ 1 \in DOMAIN q
          /\ \A i \in DOMAIN Tail(q) : i + 1 \in DOMAIN q /\ Tail(q)[i] = q[i + 1]
      BY HeadAndTail
    <2>2. Built(r, w) /\ (\A i \in DOMAIN q : q[i].op = "connect")
          /\ w.box.nets \union {q[i].arg : i \in DOMAIN q} = NetsOf(r)
      BY <1>2 DEF Connecting
    <2>3. c.op = "connect" /\ w.box # Gone  BY <2>1, <2>2 DEF Built
    <2>4. ContainerEffect(c, w) = {[w EXCEPT !.box.nets = @ \union {c.arg}]}
      BY <2>3 DEF ContainerEffect
    <2>5. {q[i].arg : i \in DOMAIN q} = {c.arg} \union {Tail(q)[i].arg : i \in DOMAIN Tail(q)}
      BY ArgsOfRest
    <2> DEFINE x == [w EXCEPT !.box.nets = @ \union {c.arg}]
    <2>6. /\ w = [reg |-> w.reg, loc |-> w.loc, box |-> w.box] /\ w.box \in Boxes
      BY <2>3 DEF ContainerHost
    <2>7. x.box = [w.box EXCEPT !.nets = @ \union {c.arg}] /\ x.loc = w.loc  BY <2>6
    <2> HIDE DEF c, x
    <2>8. /\ x.box.nets = w.box.nets \union {c.arg} /\ x.box.ref = w.box.ref /\ x.box.opts = w.box.opts
          /\ x.box.vol = w.box.vol /\ x.box.env = w.box.env /\ x.box.cmd = w.box.cmd
          /\ x.box.tmpfs = w.box.tmpfs /\ x.box.id = w.box.id /\ x.box.running = w.box.running
      BY <2>6, <2>7 DEF Boxes
    <2>9. x.box # Gone
      <3>1. x.box \in [ref : Ref, opts : STRING, vol : STRING, env : SUBSET STRING, cmd : STRING,
                       tmpfs : BOOLEAN, id : Nat, nets : SUBSET STRING, running : BOOLEAN]
        <4>1. c.arg \in STRING  BY <2>3 DEF ContainerCall, c
        <4> QED  BY <2>6, <2>7, <4>1 DEF Boxes
      <3> QED  BY <3>1, GoneAssumption DEF Boxes
    <2>10. Built(r, x)  BY <2>2, <2>7, <2>8, <2>9 DEF Built
    <2>11. \A i \in DOMAIN Tail(q) : Tail(q)[i].op = "connect"  BY <2>1, <2>2
    <2>12. x.box.nets \union {Tail(q)[i].arg : i \in DOMAIN Tail(q)} = NetsOf(r)
      BY <2>2, <2>5, <2>8
    <2>13. Connecting(r, Tail(q), x)  BY <2>10, <2>11, <2>12 DEF Connecting
    <2> QED  BY <2>4, <2>13 DEF x, c
  <1> QED  BY <1>1, <1>2

\* Stopping and removing come in front of them.
LEMMA StopsGoOn ==
  ASSUME NEW w, NEW z, IsSeq(z), NEW q
  PROVE  /\ q = <<Call("stop", Gone)>> \o (<<Call("remove", Gone)>> \o z) =>
              /\ q # <<>> /\ Tail(q) = <<Call("remove", Gone)>> \o z
              /\ ContainerEffect(Head(q), w) # {}
         /\ q = <<Call("remove", Gone)>> \o z =>
              /\ q # <<>> /\ Tail(q) = z
              /\ ContainerEffect(Head(q), w) = {[w EXCEPT !.box = Gone]}
  <1> DEFINE a == Call("stop", Gone)
             b == Call("remove", Gone)
  <1>1. a.op = "stop" /\ b.op = "remove"  BY DEF Call
  <1> HIDE DEF a, b
  <1>2. /\ IsSeq(<<b>> \o z) /\ <<b>> \o z # <<>> /\ Head(<<b>> \o z) = b /\ Tail(<<b>> \o z) = z
    BY InFront
  <1> DEFINE y == <<b>> \o z
  <1> HIDE DEF y
  <1>3. <<a>> \o y # <<>> /\ Head(<<a>> \o y) = a /\ Tail(<<a>> \o y) = y
    BY <1>2, InFront DEF y
  <1>4. ContainerEffect(a, w) # {} /\ ContainerEffect(b, w) = {[w EXCEPT !.box = Gone]}
    BY <1>1 DEF ContainerEffect
  <1> QED  BY <1>2, <1>3, <1>4 DEF y, a, b

LEMMA RemovingGoesOn ==
  ASSUME NEW w, ContainerHost(w), NEW q, q # <<>>, Removing(q, w)
  PROVE  ContainerEffect(Head(q), w) # {} /\ \A x \in ContainerEffect(Head(q), w) : Removing(Tail(q), x)
  <1> DEFINE a == Call("stop", Gone)
             b == Call("remove", Gone)
  <1>1. a.op = "stop" /\ b.op = "remove"  BY DEF Call
  <1> HIDE DEF a, b
  <1>2. CASE q = <<a, b>>
    <2>1. Head(q) = a /\ Tail(q) = <<b>>  BY <1>2
    <2> QED  BY <1>1, <2>1 DEF Removing, ContainerEffect, a, b
  <1>3. CASE q = <<b>>
    <2>1. Head(q) = b /\ Tail(q) = <<>>  BY <1>3
    <2>2. ContainerEffect(b, w) = {[w EXCEPT !.box = Gone]}  BY <1>1 DEF ContainerEffect
    <2>3. [w EXCEPT !.box = Gone].box = Gone  BY DEF ContainerHost
    <2> QED  BY <2>1, <2>2, <2>3 DEF Removing
  <1> QED  BY <1>2, <1>3 DEF Removing, a, b

LEMMA ContainerWayGoesOn ==
  ASSUME kind \in Kind, kind = "docker.container", NamedNetworks, NEW s \in SpecsOf[kind], NEW w, Sound(w),
         NEW q, AllProper(s, q), q # <<>>, Tidy(FALSE, q, w), NEW steps, ContainerWay(s, steps, q, w)
  PROVE  ContainerEffect(Head(q), w) # {}
         /\ \A x \in ContainerEffect(Head(q), w) : ContainerWay(s, steps, Tail(q), x)
  <1>1. ContainerHost(w) /\ (w.box # Gone => Apart(w.box.nets))  BY DEF Sound, ValidHost
  <1>2. Proper(s, Head(q)) /\ Head(q) = q[1] /\ 1 \in DOMAIN q  BY HeadIsProper
  <1>3. ContainerCall(Head(q))  BY <1>2 DEF Proper
  <1>4. Head(q).op # "connect" \/ (w.box # Gone => "bridge" \notin w.box.nets)
    BY <1>2 DEF Tidy, ConnectsOnly
  <1>5. IsSeq(q)  BY DEF AllProper
  <1>6. CASE ~s.present
    <2>1. steps = <<>> /\ Removing(q, w)  BY <1>6 DEF ContainerWay
    <2> QED  BY <1>1, <1>6, <2>1, RemovingGoesOn DEF ContainerWay
  <1>7. CASE s.present /\ steps = <<>>
    <2>1. Starting(s, q, w)  BY <1>7 DEF ContainerWay
    <2>2. s \in RunSpecs  BY <1>7, SpecOfContainer
    <2>3. s.extra \in Seq(STRING)  BY <2>2 DEF RunSpecs
    <2>4. IsSeq(Connects(s.extra))  BY <2>3, ConnectsOfNets
    <2>5. IsSeq(Runs(s))  BY <2>4, InFront DEF Runs
    <2> SUFFICES ContainerEffect(Head(q), w) # {}
                 /\ \A x \in ContainerEffect(Head(q), w) : Starting(s, Tail(q), x)
      BY <1>7 DEF ContainerWay
    <2>6. CASE q = <<Call("stop", Gone)>> \o (<<Call("remove", Gone)>> \o Runs(s))
      <3>1. Tail(q) = <<Call("remove", Gone)>> \o Runs(s) /\ ContainerEffect(Head(q), w) # {}
        BY <2>5, <2>6, StopsGoOn
      <3> QED  BY <3>1 DEF Starting
    <2>7. CASE q = <<Call("remove", Gone)>> \o Runs(s)
      <3>1. Tail(q) = Runs(s) /\ ContainerEffect(Head(q), w) = {[w EXCEPT !.box = Gone]}
        BY <2>5, <2>7, StopsGoOn
      <3>2. [w EXCEPT !.box = Gone].box = Gone  BY <1>1 DEF ContainerHost
      <3> QED  BY <3>1, <3>2 DEF Starting
    <2>8. CASE (q = Runs(s) /\ w.box = Gone) \/ Connecting(s, q, w)
      <3>1. Head(q).op # "connect" \/ "bridge" \notin w.box.nets
        <4>1. CASE q = Runs(s) /\ w.box = Gone
          <5>1. Head(q) = Call("run", s)  BY <2>4, <4>1, InFront DEF Runs
          <5> QED  BY <5>1 DEF Call
        <4>2. CASE Connecting(s, q, w)
          <5>1. w.box # Gone  BY <4>2 DEF Connecting, Built
          <5> QED  BY <5>1, <1>4
        <4> QED  BY <2>8, <4>1, <4>2
      <3>2. ContainerEffect(Head(q), w) # {} /\ \A x \in ContainerEffect(Head(q), w) : Connecting(s, Tail(q), x)
        BY <1>1, <1>3, <1>5, <2>2, <2>8, <3>1, RunsGoOn
      <3> QED  BY <3>2 DEF Starting
    <2> QED  BY <2>1, <2>6, <2>7, <2>8 DEF Starting
  <1>8. CASE s.present /\ steps = <<"recreate">> /\ q = <<Call("pull", s.ref)>>
    <2>1. Head(q) = Call("pull", s.ref) /\ Tail(q) = <<>>  BY <1>8
    <2>2. Head(q).op = "pull"  BY <2>1 DEF Call
    <2> QED  BY <1>8, <2>1, <2>2 DEF ContainerEffect, ContainerWay
  <1> QED  BY <1>6, <1>7, <1>8 DEF ContainerWay

\* The calls of a stack.
LEMMA StackCallsWork ==
  ASSUME NEW w, StackHost(w), NEW c
  PROVE  /\ \A v : c = Call("write", v) =>
              /\ StackEffect(c, w) # {}
              /\ \A x \in StackEffect(c, w) : x.file = v
         /\ \A v : c = Call("up", v) =>
              /\ v # TornFile => StackEffect(c, w) # {}
              /\ \A x \in StackEffect(c, w) :
                   /\ x.file = w.file
                   /\ v.names # {} /\ v.names \subseteq Service /\ v.rev # Gone => Services(x) # {}
         /\ c = Call("down", Gone) => /\ StackEffect(c, w) # {}
                                      /\ \A x \in StackEffect(c, w) : Services(x) = {}
         /\ c = SoftCall("rmdir", Gone) => /\ StackEffect(c, w) # {}
                                           /\ \A x \in StackEffect(c, w) : Services(x) = Services(w) /\ x.file = Gone
  <1>0. w = [file |-> w.file, has |-> w.has] /\ w.has = [i \in Service |-> w.has[i]]  BY DEF StackHost
  <1>1. DOMAIN w.has = Service  BY <1>0
  <1>2. ASSUME NEW v, c = Call("write", v)
        PROVE  StackEffect(c, w) # {} /\ \A x \in StackEffect(c, w) : x.file = v
    <2>1. StackEffect(c, w) = {[w EXCEPT !.file = v]}  BY <1>2 DEF StackEffect, Call
    <2>2. [w EXCEPT !.file = v].file = v  BY <1>0
    <2> QED  BY <2>1, <2>2
  <1>3. ASSUME NEW v, c = Call("up", v)
        PROVE  /\ v # TornFile => StackEffect(c, w) # {}
               /\ \A x \in StackEffect(c, w) :
                   /\ x.file = w.file
                   /\ v.names # {} /\ v.names \subseteq Service /\ v.rev # Gone => Services(x) # {}
    <2>1. c.op = "up" /\ c.arg = v  BY <1>3 DEF Call
    <2>2. StackEffect(c, w) = IF v = TornFile THEN {} ELSE {UpTo(DOMAIN w.has, v, w)}
      BY <2>1 DEF StackEffect
    <2> DEFINE f == [i \in DOMAIN w.has |->
                  IF i \notin DOMAIN w.has THEN w.has[i] ELSE IF i \in v.names THEN v.rev ELSE Gone]
               x == UpTo(DOMAIN w.has, v, w)
    <2>3. x = [w EXCEPT !.has = f]  BY DEF UpTo
    <2>4. DOMAIN f = Service /\ \A i \in Service : i \in v.names => f[i] = v.rev  BY <1>1
    <2> HIDE DEF f, x
    <2>5. x.file = w.file /\ x.has = f  BY <1>0, <2>3
    <2>6. ASSUME v.names # {}, v.names \subseteq Service, v.rev # Gone PROVE Services(x) # {}
      <3>1. PICK i \in v.names : i \in Service  BY <2>6
      <3>2. i \in DOMAIN x.has /\ x.has[i] # Gone  BY <2>4, <2>5, <2>6, <3>1
      <3> QED  BY <3>2 DEF Services
    <2> QED  BY <2>2, <2>5, <2>6 DEF x
  <1>4. ASSUME c = Call("down", Gone)
        PROVE  StackEffect(c, w) # {} /\ \A x \in StackEffect(c, w) : Services(x) = {}
    <2> DEFINE f == [i \in DOMAIN w.has |-> Gone]
               x == [w EXCEPT !.has = f]
    <2>1. StackEffect(c, w) = {x}  BY <1>4 DEF StackEffect, Call
    <2>2. \A i \in DOMAIN f : f[i] = Gone  OBVIOUS
    <2>3. x.has = f  BY <1>0
    <2> HIDE DEF f, x
    <2>4. Services(x) = {}  BY <2>2, <2>3 DEF Services
    <2> QED  BY <2>1, <2>4
  <1>5. ASSUME c = SoftCall("rmdir", Gone)
        PROVE  StackEffect(c, w) # {} /\ \A x \in StackEffect(c, w) : Services(x) = Services(w) /\ x.file = Gone
    <2> DEFINE x == [w EXCEPT !.file = Gone]
    <2>1. StackEffect(c, w) = {x}  BY <1>5 DEF StackEffect, SoftCall
    <2>2. x.has = w.has /\ x.file = Gone  BY <1>0
    <2> HIDE DEF x
    <2>3. Services(x) = Services(w)  BY <2>2 DEF Services
    <2> QED  BY <2>1, <2>2, <2>3
  <1> QED  BY <1>2, <1>3, <1>4, <1>5

LEMMA StackWayGoesOn ==
  ASSUME kind \in Kind, kind = "docker.compose", NEW s \in SpecsOf[kind], NEW w, StackHost(w),
         NEW q, q # <<>>, NEW steps, StackWay(s, steps, q, w)
  PROVE  StackEffect(Head(q), w) # {}
         /\ \A x \in StackEffect(Head(q), w) : StackWay(s, steps, Tail(q), x)
  <1>1. steps = <<>>  BY DEF StackWay
  <1>2. s.present => /\ s.source # TornFile /\ s.source.rev # Gone
                     /\ s.source.names # {} /\ s.source.names \subseteq Service
    BY SpecIsValid DEF ValidSpec, ValidStack, TornFile
  <1>3. CASE s.present /\ q = StackUp(s.source)
    <2>1. Head(q) = Call("write", s.source) /\ Tail(q) = <<Call("up", s.source)>>  BY <1>3 DEF StackUp
    <2>2. StackEffect(Head(q), w) # {} /\ \A x \in StackEffect(Head(q), w) : x.file = s.source
      BY <2>1, StackCallsWork
    <2> QED  BY <1>1, <1>3, <2>1, <2>2 DEF StackWay
  <1>4. CASE s.present /\ q = <<Call("up", s.source)>> /\ w.file = s.source
    <2>1. Head(q) = Call("up", s.source) /\ Tail(q) = <<>>  BY <1>4
    <2>2. StackEffect(Head(q), w) # {} /\ \A x \in StackEffect(Head(q), w) : x.file = w.file /\ Services(x) # {}
      BY <1>2, <1>4, <2>1, StackCallsWork
    <2>3. \A x \in StackEffect(Head(q), w) : ~StackDiffers(s, x)
      BY <1>4, <2>2 DEF StackDiffers, StackSeen
    <2> QED  BY <1>1, <2>1, <2>2, <2>3 DEF StackWay
  <1>5. CASE ~s.present /\ q = StackDown
    <2>1. Head(q) = Call("down", Gone) /\ Tail(q) = <<SoftCall("rmdir", Gone)>>  BY <1>5 DEF StackDown
    <2>2. StackEffect(Head(q), w) # {} /\ \A x \in StackEffect(Head(q), w) : Services(x) = {}
      BY <2>1, StackCallsWork
    <2> QED  BY <1>1, <1>5, <2>1, <2>2 DEF StackWay
  <1>6. CASE ~s.present /\ q = <<SoftCall("rmdir", Gone)>> /\ Services(w) = {}
    <2>1. Head(q) = SoftCall("rmdir", Gone) /\ Tail(q) = <<>>  BY <1>6
    <2>2. StackEffect(Head(q), w) # {} /\ \A x \in StackEffect(Head(q), w) : Services(x) = Services(w)
      BY <2>1, StackCallsWork
    <2>3. \A x \in StackEffect(Head(q), w) : ~StackDiffers(s, x)
      BY <1>6, <2>2 DEF StackDiffers, StackSeen
    <2> QED  BY <1>1, <2>1, <2>2, <2>3 DEF StackWay
  <1> QED  BY <1>3, <1>4, <1>5, <1>6 DEF StackWay

\* The calls that put a rule in its place, and those that take one away.
LEMMA ReplacingGoesOn ==
  ASSUME RulesStayPut, kind \in Kind, kind = "firewall.rule", NEW s \in SpecsOf[kind], NEW w, Sound(w),
         NEW q, AllProper(s, q), q # <<>>, Tidy(FALSE, q, w),
         NEW r \in Rules, r.tag = s.tag, Replacing(r, q, w)
  PROVE  DriverEffect(Head(q), w) # {} /\ \A x \in DriverEffect(Head(q), w) : Replacing(r, Tail(q), x)
  <1>0. RuleHost(w)  BY DEF Sound, ValidHost
  <1>p. Proper(s, Head(q)) /\ Head(q) = q[1] /\ 1 \in DOMAIN q  BY HeadIsProper
  <1>1. CASE q = EnsurePresent(r)
    <2>1. Head(q) = SoftCall("delete", r) /\ Tail(q) = <<Call("append", r)>>  BY <1>1 DEF EnsurePresent
    <2>2. Head(q).soft  BY <2>1 DEF SoftCall
    <2>3. DriverEffect(Head(q), w) # {}  BY <1>p, <2>2, SoftCallsWork
    <2> QED  BY <2>1, <2>3 DEF Replacing
  <1>2. CASE q = <<Call("append", r)>>
    <2>1. Head(q) = Call("append", r) /\ Tail(q) = <<>>  BY <1>2
    <2>2. Head(q).op = "append" /\ Head(q).arg = r  BY <2>1 DEF Call
    <2>3. DriverEffect(Head(q), w) = {[w EXCEPT !.rules = Append(@, r)]}
      BY <2>2 DEF DriverEffect, RuleEffect
    <2>4. NoRuleOf(s.tag, w)  BY <1>p, <2>2 DEF Tidy, AppendsLast
    <2>5. s \in SpecsOf["firewall.rule"]  OBVIOUS
    <2>6. ASSUME NEW x \in DriverEffect(Head(q), w) PROVE TheRule(r, x)
      <3>1. x = [w EXCEPT !.rules = Append(@, r)]  BY <2>3, <2>6
      <3> QED  BY <1>0, <2>4, <2>5, <3>1, TagAfterAppend
    <2> QED  BY <2>1, <2>3, <2>6 DEF Replacing
  <1> QED  BY <1>1, <1>2 DEF Replacing

LEMMA DeletingGoesOn ==
  ASSUME RulesStayPut, kind \in Kind, kind = "firewall.rule", NEW s \in SpecsOf[kind], NEW w, Sound(w),
         NEW q, AllProper(s, q), q # <<>>, Tidy(FALSE, q, w), Deleting(s, q, w)
  PROVE  DriverEffect(Head(q), w) # {} /\ \A x \in DriverEffect(Head(q), w) : Deleting(s, Tail(q), x)
  <1>0. RuleHost(w)  BY DEF Sound, ValidHost
  <1>1. q = <<Call("delete", RuleOf(s))>>  BY DEF Deleting, EnsureAbsent
  <1>2. Tail(q) = <<>> /\ Head(q) = Call("delete", RuleOf(s))  BY <1>1
  <1>3. Head(q).op = "delete"  BY <1>2 DEF Call
  <1>4. RuleCall(s, Head(q))
    <2>1. Proper(s, Head(q))  BY HeadIsProper
    <2> QED  BY <2>1 DEF Proper
  <1>5. OneRule(w)  BY DEF Tidy
  <1>6. s \in SpecsOf["firewall.rule"]  OBVIOUS
  <1> DEFINE c == Head(q)
  <1> HIDE DEF c
  <1>7. \/ DriverEffect(c, w) = {w} /\ NoRuleOf(s.tag, w)
        \/ \E k \in DOMAIN w.rules :
             w.rules[k].tag = s.tag /\ DriverEffect(c, w) = {[w EXCEPT !.rules = RemoveAt(@, k)]}
    BY <1>3, <1>4, DeleteTakes DEF c
  <1>8. CASE DriverEffect(c, w) = {w} /\ NoRuleOf(s.tag, w)
    BY <1>2, <1>8 DEF Deleting, c
  <1>9. CASE \E k \in DOMAIN w.rules :
               w.rules[k].tag = s.tag /\ DriverEffect(c, w) = {[w EXCEPT !.rules = RemoveAt(@, k)]}
    <2>1. PICK k \in DOMAIN w.rules :
               w.rules[k].tag = s.tag /\ DriverEffect(c, w) = {[w EXCEPT !.rules = RemoveAt(@, k)]}
      BY <1>9
    <2> DEFINE x == [w EXCEPT !.rules = RemoveAt(@, k)]
    <2>2. DriverEffect(c, w) = {x}  BY <2>1
    <2>3. w.rules[k].tag = s.tag  BY <2>1
    <2>4. NoRuleOf(s.tag, x)  BY <1>0, <1>5, <1>6, <2>3, TagAfterDelete
    <2> HIDE DEF x
    <2> QED  BY <1>2, <2>2, <2>4 DEF Deleting, c
  <1> QED  BY <1>7, <1>8, <1>9

LEMMA RuleWayGoesOn ==
  ASSUME RulesStayPut, kind \in Kind, kind = "firewall.rule", NEW s \in SpecsOf[kind], NEW w, Sound(w),
         NEW q, AllProper(s, q), q # <<>>, Tidy(FALSE, q, w), NEW steps, RuleWay(s, steps, q, w)
  PROVE  DriverEffect(Head(q), w) # {} /\ \A x \in DriverEffect(Head(q), w) : RuleWay(s, steps, Tail(q), x)
  <1>1. steps = <<>>  BY DEF RuleWay
  <1>2. RuleOf(s) \in Rules  BY SpecIsValid DEF ValidSpec, ValidRule
  <1>3. RuleOf(s).tag = s.tag  BY DEF RuleOf
  <1>4. CASE s.present
    <2>1. Replacing(RuleOf(s), q, w)  BY <1>4 DEF RuleWay
    <2>2. DriverEffect(Head(q), w) # {}
          /\ \A x \in DriverEffect(Head(q), w) : Replacing(RuleOf(s), Tail(q), x)
      BY <1>2, <1>3, <2>1, ReplacingGoesOn
    <2> QED  BY <1>1, <1>4, <2>2 DEF RuleWay
  <1>5. CASE ~s.present
    <2>1. Deleting(s, q, w)  BY <1>5 DEF RuleWay
    <2>2. DriverEffect(Head(q), w) # {} /\ \A x \in DriverEffect(Head(q), w) : Deleting(s, Tail(q), x)
      BY <2>1, DeletingGoesOn
    <2> QED  BY <1>1, <1>5, <2>2 DEF RuleWay
  <1> QED  BY <1>4, <1>5

LEMMA RecordWayGoesOn ==
  ASSUME NEW s, ValidRecord(s), NEW w, RecordHost(w), NEW q, q # <<>>, NEW steps, RecordWay(s, steps, q, w)
  PROVE  RecordEffect(Head(q), w) # {} /\ \A x \in RecordEffect(Head(q), w) : RecordWay(s, steps, Tail(q), x)
  <1>1. steps = <<>> /\ RecordDiffers(s, w) /\ q = RecordCalls(s, RecordPlan(s, w)[1])  BY DEF RecordWay
  <1>2. s.present = (s.value # Gone) /\ w = [rec |-> w.rec]  BY DEF ValidRecord, RecordHost
  <1> DEFINE step == RecordPlan(s, w)[1]
             c == Call(step, s.value)
  <1>3. step = IF ~s.present THEN "delete" ELSE IF w.rec = Gone THEN "create" ELSE "update"  BY DEF RecordPlan
  <1>4. q = <<c>>  BY <1>1 DEF RecordCalls
  <1>5. c.op = step /\ c.arg = s.value  BY DEF Call
  <1> HIDE DEF c, step
  <1>6. Head(q) = c /\ Tail(q) = <<>>  BY <1>4
  <1>7. RecordEffect(c, w) = {[w EXCEPT !.rec = s.value]}
    BY <1>1, <1>2, <1>3, <1>5 DEF RecordDiffers, RecordEffect
  <1>8. [w EXCEPT !.rec = s.value].rec = s.value  BY <1>2
  <1>9. \A x \in RecordEffect(c, w) : ~RecordDiffers(s, x)  BY <1>2, <1>7, <1>8 DEF RecordDiffers
  <1> QED  BY <1>1, <1>6, <1>7, <1>9 DEF RecordWay

LEMMA TailOfThree ==
  ASSUME NEW a, NEW b, NEW d
  PROVE  Tail(<<a, b, d>>) = <<b, d>> /\ Head(<<a, b, d>>) = a
  <1> DEFINE q == <<a, b, d>>
             z == Tail(q)
             S == {a, b, d}
  <1>1. q \in Seq(S) /\ Len(q) = 3 /\ q[1] = a /\ q[2] = b /\ q[3] = d  OBVIOUS
  <1> HIDE DEF q, S
  <1>4. IsSeq(q) /\ q # <<>>  BY <1>1, SeqIsSeq
  <1>5. /\ Len(z) = Len(q) - 1 /\ DOMAIN z = 1..(Len(q) - 1) /\ Head(q) = q[1]
        /\ \A i \in DOMAIN z : z[i] = q[i + 1]
    BY <1>4, HeadAndTail
  <1>6. z \in Seq(S)  BY <1>1, <1>4
  <1>2. z \in Seq(S) /\ Len(z) = 2 /\ z[1] = b /\ z[2] = d /\ Head(q) = a
    <2>1. Len(z) = 2 /\ DOMAIN z = 1..2 /\ 1 \in 1..2 /\ 2 \in 1..2  BY <1>1, <1>5
    <2>2. z[1] = q[1 + 1] /\ z[2] = q[2 + 1]  BY <1>5, <2>1
    <2> QED  BY <1>1, <1>5, <1>6, <2>1, <2>2
  <1> HIDE DEF z
  <1>3. z = <<b, d>>  BY <1>2
  <1> QED  BY <1>2, <1>3 DEF z, q

LEMMA CertWayGoesOn ==
  ASSUME NEW s, NEW w, CertHost(w), NEW q, q # <<>>, NEW steps, CertWay(s, steps, q, w)
  PROVE  CertEffect(Head(q), w) # {} /\ \A x \in CertEffect(Head(q), w) : CertWay(s, steps, Tail(q), x)
  <1>1. steps = <<>>  BY DEF CertWay
  <1>0. w = [cert |-> w.cert, key |-> w.key, count |-> w.count] /\ w.count \in Nat  BY DEF CertHost
  <1> DEFINE a == SoftCall("revoke", Gone)
             b == SoftCall("rmcert", Gone)
             d == SoftCall("rmkey", Gone)
  <1>2. a.op = "revoke" /\ b.op = "rmcert" /\ d.op = "rmkey"  BY DEF SoftCall
  <1>3. CertCalls("revoke") = <<a, b, d>>  BY DEF CertCalls
  <1> HIDE DEF a, b, d
  <1>9. Tail(<<a, b, d>>) = <<b, d>> /\ Head(<<a, b, d>>) = a  BY TailOfThree
  <1>4. Tail(CertCalls("revoke")) = <<b, d>> /\ Head(CertCalls("revoke")) = a  BY <1>3, <1>9
  <1>5. CASE s.present /\ q \in {CertCalls("issue"), CertCalls("renew")}
    <2>1. PICK step \in {"issue", "renew"} : q = <<Call(step, Gone)>>  BY <1>5 DEF CertCalls
    <2>2. Head(q) = Call(step, Gone) /\ Tail(q) = <<>>  BY <2>1
    <2>3. Head(q).op = step  BY <2>2 DEF Call
    <2> DEFINE n == w.count + 1
               v == [pair |-> n, fresh |-> TRUE]
               x == [cert |-> v, key |-> n, count |-> n]
    <2>4. CertEffect(Head(q), w) = {x}  BY <2>1, <2>3 DEF CertEffect
    <2>5. n \in Nat  BY <1>0
    <2> HIDE DEF n
    <2>6. v \in Certs /\ v.fresh  BY <2>5 DEF Certs
    <2>7. v # Gone  BY <2>6, CertsAssumption
    <2>8. x.cert = v  OBVIOUS
    <2> HIDE DEF v, x
    <2>9. ~CertDiffers(s, x)  BY <1>5, <2>6, <2>7, <2>8 DEF CertDiffers, CertSeen
    <2> QED  BY <1>1, <2>2, <2>4, <2>9 DEF CertWay
  <1>6. CASE ~s.present /\ q = CertCalls("revoke")
    <2>1. CertEffect(a, w) = {w}  BY <1>2 DEF CertEffect
    <2> QED  BY <1>1, <1>4, <1>6, <2>1 DEF CertWay
  <1>7. CASE ~s.present /\ q = Tail(CertCalls("revoke"))
    <2>0. q = <<b, d>>  BY <1>4, <1>7
    <2>1. Head(q) = b /\ Tail(q) = <<d>>  BY <2>0
    <2>2. CertEffect(b, w) = {[w EXCEPT !.cert = Gone]}  BY <1>2 DEF CertEffect
    <2>3. [w EXCEPT !.cert = Gone].cert = Gone  BY <1>0
    <2> QED  BY <1>1, <1>7, <2>1, <2>2, <2>3 DEF CertWay, d
  <1>8. CASE ~s.present /\ w.cert = Gone /\ q = <<SoftCall("rmkey", Gone)>>
    <2>1. Head(q) = d /\ Tail(q) = <<>>  BY <1>8 DEF d
    <2>2. CertEffect(d, w) = {[w EXCEPT !.key = Gone]}  BY <1>2 DEF CertEffect
    <2>3. [w EXCEPT !.key = Gone].cert = Gone  BY <1>0, <1>8
    <2>4. ~CertDiffers(s, [w EXCEPT !.key = Gone])  BY <1>8, <2>3 DEF CertDiffers, CertSeen
    <2> QED  BY <1>1, <2>1, <2>2, <2>4 DEF CertWay
  <1> QED  BY <1>5, <1>6, <1>7, <1>8 DEF CertWay

LEMMA PackageWayGoesOn ==
  ASSUME NEW s, ValidPackage(s), NEW w, PackageHost(w), NEW q, q = PackageCalls(s, PackagePlan(s)[1])
  PROVE  /\ Tail(q) = <<>> /\ PackageEffect(Head(q), w) # {}
         /\ \A x \in PackageEffect(Head(q), w) : ~PackageDiffers(s, x)
  <1> DEFINE step == PackagePlan(s)[1]
             c == Call(step, s.version)
  <1>1. step = IF s.present THEN "install" ELSE "remove"  BY DEF PackagePlan
  <1>2. c.op = step /\ c.arg = s.version  BY DEF Call
  <1>3. q = <<c>>  BY DEF PackageCalls
  <1> HIDE DEF c, step
  <1>4. Head(q) = c /\ Tail(q) = <<>>  BY <1>3
  <1>5. CASE s.present
    <2> DEFINE v == IF s.version = Gone THEN "2" ELSE s.version
    <2>1. PackageEffect(c, w) = {[version |-> v, status |-> "installed"]}
      BY <1>1, <1>2, <1>5 DEF PackageEffect
    <2>2. s.version \notin {Gone, v} => FALSE  OBVIOUS
    <2> HIDE DEF v
    <2>3. ~PackageDiffers(s, [version |-> v, status |-> "installed"])
      BY <1>5, <2>2 DEF PackageDiffers, Installed
    <2> QED  BY <1>4, <2>1, <2>3
  <1>6. CASE ~s.present
    <2> DEFINE x == IF w.status = "unknown" THEN w ELSE [w EXCEPT !.status = "config"]
    <2>1. PackageEffect(c, w) = {x}  BY <1>1, <1>2, <1>6 DEF PackageEffect
    <2>2. x.status # "installed"  BY DEF PackageHost
    <2> HIDE DEF x
    <2>3. ~PackageDiffers(s, x)  BY <1>6, <2>2 DEF PackageDiffers, Installed
    <2> QED  BY <1>4, <2>1, <2>3
  <1> QED  BY <1>5, <1>6

\* A call of an apply can be made, and leads on.
LEMMA WayGoesOn ==
  ASSUME RulesStayPut, NamedNetworks, kind \in Kind, NEW s \in SpecsOf[kind], NEW w, Sound(w),
         NEW q, AllProper(s, q), q # <<>>, Tidy(FALSE, q, w), NEW steps, Way(s, steps, q, w)
  PROVE  /\ DriverEffect(Head(q), w) # {} \/ kind = "monitoring.check" \/ (kind = "sysctl.setting" /\ w.val = Gone)
         /\ \A x \in DriverEffect(Head(q), w) : Way(s, steps, Tail(q), x)
  <1>0. ValidHost(kind, w)  BY DEF Sound
  <1>v. ValidSpec(kind, s)  BY SpecIsValid
  <1>1. CASE kind = "docker.container"
    <2>1. ContainerWay(s, steps, q, w)  BY <1>1 DEF Way
    <2>2. ContainerEffect(Head(q), w) # {}
          /\ \A x \in ContainerEffect(Head(q), w) : ContainerWay(s, steps, Tail(q), x)
      BY <1>1, <2>1, ContainerWayGoesOn
    <2> QED  BY <1>1, <2>2 DEF Way, DriverEffect
  <1>2. CASE kind = "docker.compose"
    <2>1. StackWay(s, steps, q, w) /\ StackHost(w)  BY <1>0, <1>2 DEF Way, ValidHost
    <2>2. StackEffect(Head(q), w) # {}
          /\ \A x \in StackEffect(Head(q), w) : StackWay(s, steps, Tail(q), x)
      BY <1>2, <2>1, StackWayGoesOn
    <2> QED  BY <1>2, <2>2 DEF Way, DriverEffect
  <1>3. CASE kind = "firewall.rule"
    <2>1. RuleWay(s, steps, q, w)  BY <1>3 DEF Way
    <2>2. DriverEffect(Head(q), w) # {}
          /\ \A x \in DriverEffect(Head(q), w) : RuleWay(s, steps, Tail(q), x)
      BY <1>3, <2>1, RuleWayGoesOn
    <2> QED  BY <1>3, <2>2 DEF Way
  <1>4. CASE kind = "dns.record"
    <2>1. RecordWay(s, steps, q, w) /\ RecordHost(w) /\ ValidRecord(s)
      BY <1>0, <1>v, <1>4 DEF Way, ValidHost, ValidSpec
    <2>2. RecordEffect(Head(q), w) # {}
          /\ \A x \in RecordEffect(Head(q), w) : RecordWay(s, steps, Tail(q), x)
      BY <2>1, RecordWayGoesOn
    <2> QED  BY <1>4, <2>2 DEF Way, DriverEffect
  <1>5. CASE kind = "acme.certificate"
    <2>1. CertWay(s, steps, q, w) /\ CertHost(w)  BY <1>0, <1>5 DEF Way, ValidHost
    <2>2. CertEffect(Head(q), w) # {}
          /\ \A x \in CertEffect(Head(q), w) : CertWay(s, steps, Tail(q), x)
      BY <2>1, CertWayGoesOn
    <2> QED  BY <1>5, <2>2 DEF Way, DriverEffect
  <1>6. CASE kind = "monitoring.check"  BY <1>6 DEF Way
  <1>7. CASE kind = "cron.job"
    <2>1. steps = <<>> /\ q = JobCalls(s)  BY <1>7 DEF Way, SimpleWay, JobPlan
    <2>2. Head(q).arg = Rendered(s) /\ Tail(q) = <<>>
      BY <2>1 DEF JobCalls, Call, Rendered
    <2>3. DriverEffect(Head(q), w) = {[text |-> Rendered(s)]}  BY <1>7, <2>2 DEF DriverEffect, JobEffect
    <2>4. ~JobDiffers(s, [text |-> Rendered(s)])  BY DEF JobDiffers
    <2> QED  BY <1>7, <2>1, <2>2, <2>3, <2>4 DEF Way, SimpleWay
  <1>8. CASE kind = "package"
    <2>1. steps = <<>> /\ q = PackageCalls(s, PackagePlan(s)[1])  BY <1>8 DEF Way, SimpleWay
    <2>2. PackageHost(w) /\ ValidPackage(s)  BY <1>0, <1>v, <1>8 DEF ValidHost, ValidSpec
    <2>3. /\ Tail(q) = <<>> /\ PackageEffect(Head(q), w) # {}
          /\ \A x \in PackageEffect(Head(q), w) : ~PackageDiffers(s, x)
      BY <2>1, <2>2, PackageWayGoesOn
    <2> QED  BY <1>8, <2>1, <2>3 DEF Way, SimpleWay, DriverEffect
  <1>9. CASE kind = "sysctl.setting"
    <2>1. CASE w.val = Gone  BY <1>9, <2>1 DEF DriverEffect, SettingEffect
    <2>2. CASE w.val # Gone
      <3>1. steps = <<>> /\ q = <<Call("write", s.val)>>  BY <1>9, <2>2 DEF Way, SimpleWay, SettingCalls
      <3>2. Head(q) = Call("write", s.val) /\ Tail(q) = <<>>  BY <3>1
      <3>3. DriverEffect(Head(q), w) = {[val |-> s.val]}
        BY <1>9, <2>2, <3>2 DEF DriverEffect, SettingEffect, Call
      <3>4. ~SettingDiffers(s, [val |-> s.val])  BY DEF SettingDiffers
      <3> QED  BY <1>9, <3>1, <3>2, <3>3, <3>4 DEF Way, SimpleWay
    <2> QED  BY <2>1, <2>2
  <1>10. CASE kind = "plugin"
    <2>1. PICK step \in {"create", "update", "delete"} :
            SimpleWay(<<step>>, ObjectCalls(s, step), ObjectDiffers(s, w), steps, q)
      BY <1>10 DEF Way
    <2>2. steps = <<>> /\ q = <<Call(step, s.obj)>>  BY <2>1 DEF SimpleWay, ObjectCalls
    <2>3. Head(q) = Call(step, s.obj) /\ Tail(q) = <<>>  BY <2>2
    <2>4. DriverEffect(Head(q), w) = {[obj |-> s.obj]}  BY <1>10, <2>3 DEF DriverEffect, ObjectEffect, Call
    <2>5. ~ObjectDiffers(s, [obj |-> s.obj])  BY DEF ObjectDiffers
    <2>6. SimpleWay(<<step>>, ObjectCalls(s, step), ObjectDiffers(s, [obj |-> s.obj]), steps, Tail(q))
      BY <2>2, <2>3, <2>5 DEF SimpleWay
    <2> QED  BY <1>10, <2>4, <2>6 DEF Way
  <1> QED  BY <1>1, <1>2, <1>3, <1>4, <1>5, <1>6, <1>7, <1>8, <1>9, <1>10, OneOfTheKinds DEF DriverKinds

\* At its end the host is as the spec says, as far as the provider looks.
LEMMA WayEnds ==
  ASSUME RulesStayPut, NamedNetworks, kind \in Kind, NEW s \in SpecsOf[kind], NEW w, Sound(w),
         Way(s, <<>>, <<>>, w)
  PROVE  ~DriverDiffers(s, w) \/ kind = "monitoring.check" \/ (kind = "sysctl.setting" /\ w.val = Gone)
  <1>0. ValidHost(kind, w)  BY DEF Sound
  <1>1. CASE kind = "docker.container"
    <2>1. ContainerWay(s, <<>>, <<>>, w)  BY <1>1 DEF Way
    <2>2. CASE ~s.present
      <3>1. w.box = Gone  BY <2>1, <2>2 DEF ContainerWay, Removing
      <3>2. s.present = FALSE  BY <1>1, <2>2, SpecIsValid DEF ValidSpec, ValidContainer, NoContainer
      <3> QED  BY <1>1, <3>1, <3>2 DEF DriverDiffers, ContainerDiffers, ContainerSeen, Inspected
    <2>3. CASE s.present
      <3>1. Starting(s, <<>>, w)  BY <2>1, <2>3 DEF ContainerWay
      <3>2. s \in RunSpecs /\ NetsNamed(s)  BY <1>1, <2>3, SpecOfContainer
      <3>3. s.extra \in Seq(STRING)  BY <3>2 DEF RunSpecs
      <3>4. IsSeq(Connects(s.extra))  BY <3>3, ConnectsOfNets
      <3>5. IsSeq(Runs(s)) /\ Runs(s) # <<>>  BY <3>4, InFront DEF Runs
      <3>6. /\ <<Call("remove", Gone)>> \o Runs(s) # <<>>
            /\ <<Call("stop", Gone)>> \o (<<Call("remove", Gone)>> \o Runs(s)) # <<>>
        BY <3>5, StopsGoOn
      <3>7. Connecting(s, <<>>, w)  BY <3>1, <3>5, <3>6 DEF Starting
      <3>8. Built(s, w) /\ w.box.nets = NetsOf(s)
        <4>1. w.box.nets \union {<<>>[i].arg : i \in DOMAIN <<>>} = NetsOf(s)  BY <3>7 DEF Connecting
        <4>2. DOMAIN <<>> = {}  OBVIOUS
        <4>3. {<<>>[i].arg : i \in DOMAIN <<>>} = {}  BY <4>2
        <4> QED  BY <3>7, <4>1, <4>3 DEF Connecting
      <3>9. w.box \in Boxes  BY <1>0, <1>1, <3>8 DEF ValidHost, ContainerHost, Built
      <3> DEFINE o == ContainerSeen(s, w)
      <3>10. o.want = w.loc[s.ref] /\ o.box = [w.box EXCEPT !.vol = Canonical(@)]
        BY <2>3, <3>8 DEF ContainerSeen, Inspected, Built
      <3> HIDE DEF o
      <3>11. /\ o.box.id = w.box.id /\ o.box.ref = w.box.ref /\ o.box.opts = w.box.opts /\ o.box.env = w.box.env
             /\ o.box.vol = Canonical(w.box.vol) /\ o.box.tmpfs = w.box.tmpfs /\ o.box.nets = w.box.nets
             /\ o.box.cmd = w.box.cmd /\ o.box.running = w.box.running
        BY <3>9, <3>10 DEF Boxes
      <3>12. ~ImageDiffers(s, o)  BY <3>8, <3>10, <3>11 DEF ImageDiffers, Built
      <3>13. ~VolumesDiffer(s, o)  BY <3>8, <3>11 DEF VolumesDiffer, Built
      <3>14. ~CommandDiffers(s, o)  BY <3>8, <3>11 DEF CommandDiffers, Built
      <3>15. ~NetworksDiffer(s, o)  BY <3>2, <3>8, <3>11 DEF NetworksDiffer, NetsOf, NetsNamed
      <3>16. s.opts = o.box.opts /\ s.env \subseteq o.box.env /\ o.box.running  BY <3>8, <3>11 DEF Built
      <3>17. o.box # Gone
        <4>1. o.box \in Boxes
          <5>1. Canonical(w.box.vol) \in STRING  BY <3>9, StringAssumption DEF Canonical, Boxes
          <5> QED  BY <3>9, <3>10, <5>1 DEF Boxes
        <4> QED  BY <4>1, GoneAssumption
      <3>18. ~ContainerDiffers(s, w)
        BY <2>3, <3>12, <3>13, <3>14, <3>15, <3>16, <3>17 DEF ContainerDiffers, o
      <3> QED  BY <1>1, <3>18 DEF DriverDiffers
    <2> QED  BY <2>2, <2>3
  <1>2. CASE kind = "docker.compose"
    <2>1. StackPlan(s) # <<>> /\ StackUp(s.source) # <<>> /\ StackDown # <<>>
      BY DEF StackPlan, StackUp, StackDown
    <2>2. ~StackDiffers(s, w)  BY <1>2, <2>1 DEF Way, StackWay
    <2> QED  BY <1>2, <2>2 DEF DriverDiffers
  <1>3. CASE kind = "firewall.rule"
    <2>1. RulePlan(s) # <<>> /\ EnsurePresent(RuleOf(s)) # <<>> /\ EnsureAbsent(RuleOf(s)) # <<>>
      BY DEF RulePlan, EnsurePresent, EnsureAbsent
    <2>2. IF s.present THEN TheRule(RuleOf(s), w) ELSE NoRuleOf(s.tag, w)
      BY <1>3, <2>1 DEF Way, RuleWay, Replacing, Deleting
    <2>3. \/ Query(s.tag, w) = Gone /\ NoRuleOf(s.tag, w)
          \/ /\ Query(s.tag, w) # Gone
             /\ \E i \in DOMAIN w.rules : /\ Query(s.tag, w) = w.rules[i] /\ w.rules[i].tag = s.tag
                                          /\ w.rules[i] \in Rules
      BY <1>3, QueryFinds
    <2>4. RuleOf(s).tag = s.tag /\ RuleOf(s).chain = s.chain /\ RuleOf(s).body = s.body  BY DEF RuleOf
    <2>5. s.present => Query(s.tag, w) = RuleOf(s) /\ Query(s.tag, w) # Gone
      BY <2>2, <2>3, <2>4 DEF TheRule, NoRuleOf
    <2>6. ~s.present => Query(s.tag, w) = Gone  BY <2>2, <2>3 DEF NoRuleOf
    <2>7. ~RuleDiffers(s, w)  BY <2>4, <2>5, <2>6 DEF RuleDiffers
    <2> QED  BY <1>3, <2>7 DEF DriverDiffers
  <1>4. CASE kind = "dns.record"
    <2>1. RecordPlan(s, w) # <<>> /\ RecordCalls(s, RecordPlan(s, w)[1]) # <<>>
      BY DEF RecordPlan, RecordCalls
    <2>2. ~RecordDiffers(s, w)  BY <1>4, <2>1 DEF Way, RecordWay
    <2> QED  BY <1>4, <2>2 DEF DriverDiffers
  <1>5. CASE kind = "acme.certificate"
    <2>1. /\ CertPlan(s, w) # <<>> /\ CertCalls("issue") # <<>> /\ CertCalls("renew") # <<>>
          /\ CertCalls("revoke") # <<>> /\ Tail(CertCalls("revoke")) # <<>>
      <3>1. \A a, b, d : Tail(<<a, b, d>>) = <<b, d>>  BY TailOfThree
      <3>2. Tail(CertCalls("revoke")) # <<>>  BY <3>1 DEF CertCalls
      <3> QED  BY <3>2 DEF CertPlan, CertCalls
    <2>2. ~CertDiffers(s, w)  BY <1>5, <2>1 DEF Way, CertWay
    <2> QED  BY <1>5, <2>2 DEF DriverDiffers
  <1>6. CASE kind = "cron.job"
    <2>1. JobPlan(s) # <<>> /\ JobCalls(s) # <<>>  BY DEF JobPlan, JobCalls
    <2> QED  BY <1>6, <2>1 DEF Way, SimpleWay, DriverDiffers
  <1>7. CASE kind = "package"
    <2>1. PackagePlan(s) # <<>> /\ PackageCalls(s, PackagePlan(s)[1]) # <<>>  BY DEF PackagePlan, PackageCalls
    <2> QED  BY <1>7, <2>1 DEF Way, SimpleWay, DriverDiffers
  <1>8. CASE kind = "sysctl.setting"
    <2>1. SettingCalls(s) # <<>>  BY DEF SettingCalls
    <2> QED  BY <1>8, <2>1 DEF Way, SimpleWay, DriverDiffers
  <1>9. CASE kind = "plugin"
    <2>1. \A step : ObjectCalls(s, step) # <<>> /\ <<step>> # <<>>  BY DEF ObjectCalls
    <2> QED  BY <1>9, <2>1 DEF Way, SimpleWay, DriverDiffers
  <1> QED  BY <1>1, <1>2, <1>3, <1>4, <1>5, <1>6, <1>7, <1>8, <1>9, OneOfTheKinds DEF DriverKinds

\* Where a provider sees no difference there is none.
LEMMA ConformsUnlessDifferent ==
  ASSUME RulesStayPut, kind \in Kind, NEW s \in SpecsOf[kind], NEW w, Sound(w), Tidy(last.lossy, <<>>, w),
         ~DriverDiffers(s, w)
  PROVE  Conforms(s, w)
  <1>0. ValidHost(kind, w)  BY DEF Sound
  <1>v. ValidSpec(kind, s)  BY SpecIsValid
  <1>1. CASE kind = "docker.container"
    <2>1. ContainerHost(w) /\ ~ContainerDiffers(s, w) /\ ValidContainer(s)
      BY <1>0, <1>1, <1>v DEF ValidHost, ValidSpec, DriverDiffers
    <2> DEFINE o == ContainerSeen(s, w)
    <2>2. o.box = Inspected(w) /\ o.want = IF s.present THEN w.loc[s.ref] ELSE Gone  BY DEF ContainerSeen
    <2>3. IF o.box = Gone \/ ~s.present THEN (o.box # Gone) = s.present
          ELSE /\ ~ImageDiffers(s, o) /\ s.opts = o.box.opts /\ s.env \subseteq o.box.env
               /\ ~VolumesDiffer(s, o) /\ ~NetworksDiffer(s, o) /\ ~CommandDiffers(s, o) /\ o.box.running
      <3>1. s.present \in BOOLEAN
        <4>1. s.present => s \in ContainerSpecs  BY <2>1 DEF ValidContainer
        <4>2. ~s.present => s.present = FALSE  BY <2>1 DEF ValidContainer, NoContainer
        <4>3. s \in ContainerSpecs => s.present \in BOOLEAN  BY DEF ContainerSpecs
        <4> QED  BY <4>1, <4>2, <4>3
      <3> QED  BY <2>1, <3>1 DEF ContainerDiffers
    <2> HIDE DEF o
    <2>4. w.box # Gone => o.box = [w.box EXCEPT !.vol = Canonical(@)] /\ w.box \in Boxes
      BY <2>1, <2>2 DEF Inspected, ContainerHost
    <2>5. w.box # Gone =>
            /\ o.box.id = w.box.id /\ o.box.ref = w.box.ref /\ o.box.opts = w.box.opts /\ o.box.env = w.box.env
            /\ o.box.vol = Canonical(w.box.vol) /\ o.box.tmpfs = w.box.tmpfs /\ o.box.nets = w.box.nets
            /\ o.box.cmd = w.box.cmd /\ o.box.running = w.box.running
      BY <2>4 DEF Boxes
    <2>6. w.box # Gone => o.box # Gone
      <3>1. w.box # Gone => o.box \in Boxes
        <4>1. w.box # Gone => Canonical(w.box.vol) \in STRING  BY <2>4, StringAssumption DEF Canonical, Boxes
        <4> QED  BY <2>4, <4>1 DEF Boxes
      <3> QED  BY <3>1, GoneAssumption
    <2>7. CASE ~s.present
      <3>1. s.present = FALSE  BY <2>1, <2>7 DEF ValidContainer, NoContainer
      <3>2. w.box = Gone  BY <2>3, <2>6, <3>1
      <3> QED  BY <1>1, <2>7, <3>2 DEF Conforms
    <2>8. CASE s.present
      <3>1. s \in ContainerSpecs  BY <2>1, <2>8 DEF ValidContainer
      <3>2. s.present = TRUE /\ s.extra \in Seq(STRING)  BY <2>8, <3>1 DEF ContainerSpecs
      <3>3. o.box # Gone  BY <2>3, <3>2
      <3>4. w.box # Gone  BY <2>2, <3>3 DEF Inspected
      <3>5. /\ ~ImageDiffers(s, o) /\ s.opts = o.box.opts /\ s.env \subseteq o.box.env
            /\ ~VolumesDiffer(s, o) /\ ~NetworksDiffer(s, o) /\ ~CommandDiffers(s, o) /\ o.box.running
        BY <2>3, <2>8, <3>3
      <3>6. w.box.running  BY <2>5, <3>4, <3>5
      <3>7. w.loc[w.box.ref] # Gone  BY <2>1, <3>4, <3>6 DEF ContainerHost
      <3>8. w.box.id = w.loc[s.ref]  BY <2>2, <2>5, <2>8, <3>4, <3>5, <3>7 DEF ImageDiffers
      <3>9. Canonical(w.box.vol) = Canonical(s.vol) /\ w.box.tmpfs = s.tmpfs
        BY <2>5, <3>4, <3>5 DEF VolumesDiffer
      <3>10. s.cmd # "none" => w.box.cmd = s.cmd  BY <2>5, <3>4, <3>5 DEF CommandDiffers
      <3>11. s.net # Gone => s.net \in w.box.nets  BY <2>5, <3>4, <3>5 DEF NetworksDiffer
      <3>12. ToSet(s.extra) \subseteq w.box.nets
        <4>1. CASE s.extra = <<>>
          <5>1. ToSet(s.extra) = {}  BY <4>1 DEF ToSet
          <5> QED  BY <5>1
        <4>2. CASE s.extra # <<>>  BY <2>5, <3>4, <3>5, <4>2 DEF NetworksDiffer
        <4> QED  BY <4>1, <4>2
      <3>13. w.box.opts = s.opts /\ s.env \subseteq w.box.env  BY <2>5, <3>4, <3>5
      <3> QED  BY <1>1, <2>8, <3>4, <3>6, <3>8, <3>9, <3>10, <3>11, <3>12, <3>13 DEF Conforms
    <2> QED  BY <2>7, <2>8
  <1>2. CASE kind = "docker.compose"
    BY <1>2 DEF Conforms, DriverDiffers, StackDiffers, StackSeen
  <1>3. CASE kind = "firewall.rule"
    <2>1. RuleHost(w) /\ AllAtHome(w) /\ ~RuleDiffers(s, w)
      BY <1>0, <1>3 DEF ValidHost, DriverDiffers, Sound
    <2>2. \/ Query(s.tag, w) = Gone /\ NoRuleOf(s.tag, w)
          \/ /\ Query(s.tag, w) # Gone
             /\ \E i \in DOMAIN w.rules : /\ Query(s.tag, w) = w.rules[i] /\ w.rules[i].tag = s.tag
                                          /\ w.rules[i] \in Rules
      BY <1>3, QueryFinds
    <2> DEFINE mine == {i \in DOMAIN w.rules : w.rules[i].tag = s.tag}
    <2>3. CASE s.present
      <3>1. PICK i \in DOMAIN w.rules : /\ Query(s.tag, w) = w.rules[i] /\ w.rules[i].tag = s.tag
                                        /\ w.rules[i] \in Rules
        BY <2>1, <2>2, <2>3 DEF RuleDiffers
      <3>2. w.rules[i].chain = s.chain /\ w.rules[i].body = s.body  BY <2>1, <2>3, <3>1 DEF RuleDiffers
      <3>3. AtHome(w.rules[i])  BY <2>1 DEF AllAtHome
      <3>4. s \in SpecsOf["firewall.rule"] /\ TagMatches(w.rules[i].tag, s.tag)  BY <1>3, <3>1 DEF TagMatches
      <3>5. PlaceOf(w.rules[i]) = PlaceOf(s)  BY <3>3, <3>4 DEF AtHome
      <3>6. w.rules[i].table = s.table  BY <3>5 DEF PlaceOf
      <3> DEFINE r == w.rules[i]
      <3>7. r \in Rules /\ r.tag = s.tag /\ r.table = s.table /\ r.chain = s.chain /\ r.body = s.body
        BY <3>1, <3>2, <3>6
      <3> HIDE DEF r
      <3>8. r = RuleOf(s)  BY <3>7 DEF Rules, RuleOf
      <3>9. i \in mine /\ w.rules[i] = RuleOf(s)  BY <3>1, <3>8 DEF r
      <3>10. ~last.lossy => mine = {i}
        <4>1. ~last.lossy => \A j \in mine : j = i
          BY <1>3, <3>1 DEF Tidy, OneRule
        <4> QED  BY <3>9, <4>1
      <3>11. last.lossy \/ Cardinality(mine) = 1
        <4>1. Cardinality({i}) = 1  BY FS_Singleton
        <4> HIDE DEF mine
        <4> QED  BY <3>10, <4>1
      <3> QED  BY <1>3, <2>3, <3>9, <3>11 DEF Conforms
    <2>4. CASE ~s.present
      <3>1. NoRuleOf(s.tag, w)  BY <2>1, <2>2, <2>4 DEF RuleDiffers
      <3>2. mine = {}  BY <3>1 DEF NoRuleOf
      <3>3. Cardinality({}) = 0  BY FS_EmptySet
      <3> QED  BY <1>3, <2>4, <3>2, <3>3 DEF Conforms
    <2> QED  BY <2>3, <2>4
  <1>4. CASE kind = "dns.record"
    BY <1>4, <1>v DEF Conforms, DriverDiffers, RecordDiffers, ValidSpec, ValidRecord
  <1>5. CASE kind = "acme.certificate"
    BY <1>5 DEF Conforms, DriverDiffers, CertDiffers, CertSeen
  <1>6. CASE kind = "monitoring.check"
    BY <1>6 DEF Conforms, DriverDiffers, CheckDiffers
  <1>7. CASE kind = "cron.job"
    BY <1>7 DEF Conforms, DriverDiffers, JobDiffers
  <1>8. CASE kind = "package"
    BY <1>8, <1>v DEF Conforms, DriverDiffers, PackageDiffers, Installed, ValidSpec, ValidPackage
  <1>9. CASE kind = "sysctl.setting"
    BY <1>9 DEF Conforms, DriverDiffers, SettingDiffers
  <1>10. CASE kind = "plugin"
    BY <1>10 DEF Conforms, DriverDiffers, ObjectDiffers
  <1> QED  BY <1>1, <1>2, <1>3, <1>4, <1>5, <1>6, <1>7, <1>8, <1>9, <1>10, OneOfTheKinds DEF DriverKinds

(***************************************************************************)
(* The way of a rollback back.                                             *)
(***************************************************************************)

LEMMA RestoreRunsIsSeq ==
  ASSUME NEW r \in RunSpecs
  PROVE  /\ IsSeq(Connects(r.extra)) /\ IsSeq(Runs(r)) /\ Runs(r) # <<>>
         /\ IsSeq(RestoreRuns(r)) /\ RestoreRuns(r) # <<>>
         /\ Head(RestoreRuns(r)) = Call("pull", r.ref) /\ Tail(RestoreRuns(r)) = Runs(r)
         /\ Head(Runs(r)) = Call("run", r)
  <1>1. r.extra \in Seq(STRING)  BY DEF RunSpecs
  <1>2. IsSeq(Connects(r.extra))  BY <1>1, ConnectsOfNets
  <1>3. IsSeq(Runs(r)) /\ Runs(r) # <<>> /\ Head(Runs(r)) = Call("run", r)  BY <1>2, InFront DEF Runs
  <1> DEFINE q == Runs(r)
  <1> HIDE DEF q
  <1>4. /\ IsSeq(<<Call("pull", r.ref)>> \o q) /\ <<Call("pull", r.ref)>> \o q # <<>>
        /\ Head(<<Call("pull", r.ref)>> \o q) = Call("pull", r.ref) /\ Tail(<<Call("pull", r.ref)>> \o q) = q
    BY <1>3, InFront DEF q
  <1> QED  BY <1>2, <1>3, <1>4 DEF RestoreRuns, q

LEMMA BackBegins ==
  ASSUME RulesStayPut, NamedNetworks, kind \in Kind, NEW s \in SpecsOf[kind], NEW b, Sound(b), NEW w
  PROVE  Back(s, b, DriverUndo(s, DriverSaved(s, b), w), w)
  <1>1. CASE kind = "docker.container"
    <2> DEFINE v == ContainerSaved(b)
               r == RestoredContainer(v)
               q == DriverUndo(s, DriverSaved(s, b), w)
    <2>1. q = ContainerUndo(v)  BY <1>1 DEF DriverUndo, DriverSaved
    <2> SUFFICES ContainerBack(b, q, w)  BY <1>1 DEF Back
    <2>2. CASE b.box = Gone
      <3>1. v = Gone  BY <2>2 DEF ContainerSaved
      <3> DEFINE z == <<Call("stop", Gone), Call("remove", Gone)>>
      <3>2. ContainerUndo(v) = z \o <<>>  BY <3>1 DEF ContainerUndo
      <3>3. z \in Seq({Call("stop", Gone), Call("remove", Gone)})  OBVIOUS
      <3> HIDE DEF z
      <3>4. z \o <<>> = z  BY <3>3
      <3> HIDE DEF q, v
      <3>5. q = z  BY <2>1, <3>2, <3>4
      <3> QED  BY <2>2, <3>5 DEF ContainerBack, Removing, z
    <2>3. CASE b.box # Gone
      <3>1. /\ Whole(v) /\ v # Gone /\ v.ref = b.box.ref
        BY <1>1, <2>3, SavedIsWhole
      <3> HIDE DEF v
      <3>2. r \in RunSpecs /\ r.ref = v.ref
        <4>1. /\ r \in RunSpecs
              /\ r = [present |-> TRUE, ref |-> v.ref, opts |-> v.opts, vol |-> v.vol, env |-> v.env,
                      cmd |-> v.cmd, tmpfs |-> FALSE, net |-> r.net, extra |-> r.extra]
          BY <3>1, RestoredIsWhole
        <4> HIDE DEF r
        <4> QED  BY <4>1
      <3>3. ContainerUndo(v) = <<Call("stop", Gone), Call("remove", Gone)>>
                \o (<<Call("pull", v.ref), Call("run", r)>> \o Connects(r.extra))
        BY <3>1 DEF ContainerUndo
      <3> HIDE DEF r, q
      <3>4. IsSeq(Connects(r.extra)) /\ IsSeq(RestoreRuns(r))  BY <3>2, RestoreRunsIsSeq
      <3>5. <<Call("pull", v.ref), Call("run", r)>> \o Connects(r.extra) = RestoreRuns(r)
        BY <3>2, <3>4, TwoInFront DEF RestoreRuns, Runs
      <3>6. <<Call("stop", Gone), Call("remove", Gone)>> \o RestoreRuns(r)
              = <<Call("stop", Gone)>> \o (<<Call("remove", Gone)>> \o RestoreRuns(r))
        BY <3>4, TwoInFront
      <3>7. q = <<Call("stop", Gone)>> \o (<<Call("remove", Gone)>> \o RestoreRuns(r))
        BY <2>1, <3>3, <3>5, <3>6
      <3> QED  BY <2>3, <3>7 DEF ContainerBack, r, v
    <2> QED  BY <2>2, <2>3
  <1>2. CASE kind = "docker.compose"
    BY <1>2 DEF Back, DriverUndo, DriverSaved, StackSaved, StackUndo, StackBack
  <1>3. CASE kind = "firewall.rule"
    BY <1>3 DEF Back, DriverUndo, DriverSaved, RuleUndo, RuleBack, Deleting, Replacing
  <1>4. CASE kind = "dns.record"
    BY <1>4 DEF Back, DriverUndo, DriverSaved, RecordSaved, RecordUndo, RecordBack
  <1>5. CASE kind = "acme.certificate"
    BY <1>5 DEF Back, DriverUndo, DriverSaved, CertBack
  <1>6. CASE kind = "monitoring.check"
    BY <1>6 DEF Back, DriverUndo
  <1>7. CASE kind = "cron.job"
    BY <1>7 DEF Back, DriverUndo, DriverSaved, JobSaved
  <1>8. CASE kind = "package"
    BY <1>8 DEF Back, DriverUndo, DriverSaved, PackageBack
  <1>9. CASE kind = "sysctl.setting"
    BY <1>9 DEF Back, DriverUndo, DriverSaved, SettingSaved
  <1>10. CASE kind = "plugin"
    BY <1>10 DEF Back, DriverUndo, DriverSaved, ObjectSaved
  <1> QED  BY <1>1, <1>2, <1>3, <1>4, <1>5, <1>6, <1>7, <1>8, <1>9, <1>10, OneOfTheKinds DEF DriverKinds

LEMMA ContainerBackGoesOn ==
  ASSUME kind \in Kind, kind = "docker.container", NamedNetworks, NEW s, NEW b, Sound(b), NEW w, Sound(w),
         NEW q, AllProper(s, q), q # <<>>, Tidy(FALSE, q, w), ContainerBack(b, q, w),
         NEW x \in ContainerEffect(Head(q), w)
  PROVE  ContainerBack(b, Tail(q), x)
  <1>1. ContainerHost(w) /\ (w.box # Gone => Apart(w.box.nets))  BY DEF Sound, ValidHost
  <1>2. Proper(s, Head(q)) /\ Head(q) = q[1] /\ 1 \in DOMAIN q  BY HeadIsProper
  <1>3. ContainerCall(Head(q))  BY <1>2 DEF Proper
  <1>4. Head(q).op # "connect" \/ (w.box # Gone => "bridge" \notin w.box.nets)
    BY <1>2 DEF Tidy, ConnectsOnly
  <1>5. IsSeq(q)  BY DEF AllProper
  <1>6. CASE b.box = Gone
    <2>1. Removing(q, w)  BY <1>6 DEF ContainerBack
    <2>2. \A y \in ContainerEffect(Head(q), w) : Removing(Tail(q), y)  BY <1>1, <2>1, RemovingGoesOn
    <2> QED  BY <1>6, <2>2 DEF ContainerBack
  <1>7. CASE b.box # Gone
    <2> DEFINE v == ContainerSaved(b)
               r == RestoredContainer(v)
    <2>1. Whole(v)  BY <1>7, SavedIsWhole
    <2> HIDE DEF v
    <2>2. r \in RunSpecs  BY <2>1, RestoredIsWhole
    <2> HIDE DEF r
    <2>3. \/ q = <<Call("stop", Gone)>> \o (<<Call("remove", Gone)>> \o RestoreRuns(r))
          \/ q = <<Call("remove", Gone)>> \o RestoreRuns(r)
          \/ q = RestoreRuns(r) /\ w.box = Gone
          \/ q = Runs(r) /\ w.box = Gone
          \/ Connecting(r, q, w)
      BY <1>7 DEF ContainerBack, r, v
    <2>4. /\ IsSeq(Connects(r.extra)) /\ IsSeq(Runs(r)) /\ Runs(r) # <<>>
          /\ IsSeq(RestoreRuns(r)) /\ RestoreRuns(r) # <<>>
          /\ Head(RestoreRuns(r)) = Call("pull", r.ref) /\ Tail(RestoreRuns(r)) = Runs(r)
          /\ Head(Runs(r)) = Call("run", r)
      BY <2>2, RestoreRunsIsSeq
    <2> SUFFICES \/ Tail(q) = <<Call("remove", Gone)>> \o RestoreRuns(r)
                 \/ Tail(q) = RestoreRuns(r) /\ x.box = Gone
                 \/ Tail(q) = Runs(r) /\ x.box = Gone
                 \/ Connecting(r, Tail(q), x)
      BY <1>7 DEF ContainerBack, r, v
    <2>5. CASE q = <<Call("stop", Gone)>> \o (<<Call("remove", Gone)>> \o RestoreRuns(r))
      BY <2>4, <2>5, StopsGoOn
    <2>6. CASE q = <<Call("remove", Gone)>> \o RestoreRuns(r)
      <3>1. Tail(q) = RestoreRuns(r) /\ ContainerEffect(Head(q), w) = {[w EXCEPT !.box = Gone]}
        BY <2>4, <2>6, StopsGoOn
      <3>2. [w EXCEPT !.box = Gone].box = Gone  BY <1>1 DEF ContainerHost
      <3> QED  BY <3>1, <3>2
    <2>7. CASE q = RestoreRuns(r) /\ w.box = Gone
      <3>1. Head(q).op = "pull" /\ Tail(q) = Runs(r)  BY <2>4, <2>7 DEF Call
      <3>2. x = [w EXCEPT !.loc[Head(q).arg] = w.reg[Head(q).arg]]  BY <3>1 DEF ContainerEffect
      <3>3. x.box = w.box  BY <1>1, <3>2 DEF ContainerHost
      <3> QED  BY <2>7, <3>1, <3>3
    <2>8. CASE (q = Runs(r) /\ w.box = Gone) \/ Connecting(r, q, w)
      <3>1. Head(q).op # "connect" \/ "bridge" \notin w.box.nets
        <4>1. CASE q = Runs(r) /\ w.box = Gone
          BY <2>4, <4>1 DEF Call
        <4>2. CASE Connecting(r, q, w)
          <5>1. w.box # Gone  BY <4>2 DEF Connecting, Built
          <5> QED  BY <5>1, <1>4
        <4> QED  BY <2>8, <4>1, <4>2
      <3>2. \A y \in ContainerEffect(Head(q), w) : Connecting(r, Tail(q), y)
        BY <1>1, <1>3, <1>5, <2>2, <2>8, <3>1, RunsGoOn
      <3> QED  BY <3>2
    <2> QED  BY <2>3, <2>5, <2>6, <2>7, <2>8
  <1> QED  BY <1>6, <1>7

LEMMA StackBackGoesOn ==
  ASSUME NEW b, NEW w, StackHost(w), NEW q, q # <<>>, StackBack(b, q, w), NEW x \in StackEffect(Head(q), w)
  PROVE  StackBack(b, Tail(q), x)
  <1>1. CASE b.file = Gone /\ q = StackDown
    <2>1. Head(q) = Call("down", Gone) /\ Tail(q) = <<SoftCall("rmdir", Gone)>>  BY <1>1 DEF StackDown
    <2>2. Services(x) = {}  BY <2>1, StackCallsWork
    <2> QED  BY <1>1, <2>1, <2>2 DEF StackBack
  <1>2. CASE b.file = Gone /\ q = <<SoftCall("rmdir", Gone)>> /\ Services(w) = {}
    <2>1. Head(q) = SoftCall("rmdir", Gone) /\ Tail(q) = <<>>  BY <1>2
    <2>2. Services(x) = Services(w) /\ x.file = Gone  BY <2>1, StackCallsWork
    <2> QED  BY <1>2, <2>1, <2>2 DEF StackBack
  <1>3. CASE b.file # Gone /\ q = StackUp(b.file)
    <2>1. Head(q) = Call("write", b.file) /\ Tail(q) = <<Call("up", b.file)>>  BY <1>3 DEF StackUp
    <2>2. x.file = b.file  BY <2>1, StackCallsWork
    <2> QED  BY <1>3, <2>1, <2>2 DEF StackBack
  <1>4. CASE b.file # Gone /\ q = <<Call("up", b.file)>> /\ w.file = b.file
    <2>1. Head(q) = Call("up", b.file) /\ Tail(q) = <<>>  BY <1>4
    <2>2. x.file = w.file  BY <2>1, StackCallsWork
    <2> QED  BY <1>4, <2>1, <2>2 DEF StackBack
  <1> QED  BY <1>1, <1>2, <1>3, <1>4 DEF StackBack

LEMMA RuleBackGoesOn ==
  ASSUME RulesStayPut, kind \in Kind, kind = "firewall.rule", NEW s \in SpecsOf[kind],
         NEW b, Sound(b), NEW w, Sound(w),
         NEW q, AllProper(s, q), q # <<>>, Tidy(FALSE, q, w), RuleBack(s, b, q, w),
         NEW x \in DriverEffect(Head(q), w)
  PROVE  RuleBack(s, b, Tail(q), x)
  <1> DEFINE r == RuleSaved(s, b)
  <1>1. Kept(s, r)  BY QueryIsKept DEF RuleSaved
  <1> HIDE DEF r
  <1>2. CASE r = Gone
    <2>1. Deleting(s, q, w)  BY <1>2 DEF RuleBack, r
    <2>2. \A y \in DriverEffect(Head(q), w) : Deleting(s, Tail(q), y)  BY <2>1, DeletingGoesOn
    <2> QED  BY <1>2, <2>2 DEF RuleBack, r
  <1>3. CASE r # Gone
    <2>1. Replacing(r, q, w)  BY <1>3 DEF RuleBack, r
    <2>2. r \in Rules /\ r.tag = s.tag  BY <1>1, <1>3 DEF Kept
    <2>3. \A y \in DriverEffect(Head(q), w) : Replacing(r, Tail(q), y)  BY <2>1, <2>2, ReplacingGoesOn
    <2> QED  BY <1>3, <2>3 DEF RuleBack, r
  <1> QED  BY <1>2, <1>3

LEMMA RecordBackGoesOn ==
  ASSUME NEW b, NEW w, RecordHost(w), NEW q, q # <<>>, RecordBack(b, q, w), NEW x \in RecordEffect(Head(q), w)
  PROVE  RecordBack(b, Tail(q), x)
  <1>1. w = [rec |-> w.rec]  BY DEF RecordHost
  <1>2. PICK op \in {"update", "create", "delete"} :
          q = <<Call(op, b.rec)>> /\ (op = "delete" => b.rec = Gone)
    BY DEF RecordBack
  <1>3. Head(q) = Call(op, b.rec) /\ Tail(q) = <<>>  BY <1>2
  <1>4. x.rec = b.rec  BY <1>1, <1>2, <1>3 DEF RecordEffect, Call
  <1> QED  BY <1>3, <1>4 DEF RecordBack

LEMMA CertBackGoesOn ==
  ASSUME NEW b, NEW w, CertHost(w), NEW q, q # <<>>, CertBack(b, q, w), NEW x \in CertEffect(Head(q), w)
  PROVE  CertBack(b, Tail(q), x)
  <1>0. w = [cert |-> w.cert, key |-> w.key, count |-> w.count]  BY DEF CertHost
  <1>1. CertSaved(b).cert = b.cert /\ CertSaved(b).key = b.key  BY DEF CertSaved
  <1>2. CASE b.cert = Gone
    <2> DEFINE a == SoftCall("rmcert", Gone)
               d == SoftCall("rmkey", Gone)
    <2>1. a.op = "rmcert" /\ d.op = "rmkey"  BY DEF SoftCall
    <2>2. CertUndo(CertSaved(b)) = <<a, d>>  BY <1>1, <1>2 DEF CertUndo
    <2> HIDE DEF a, d
    <2>3. CASE q = <<a, d>>
      <3>1. Head(q) = a /\ Tail(q) = <<d>>  BY <2>3
      <3>2. x.cert = Gone  BY <1>0, <2>1, <3>1 DEF CertEffect
      <3> QED  BY <1>2, <3>1, <3>2 DEF CertBack, d
    <2>4. CASE q = <<d>> /\ w.cert = Gone
      <3>1. Head(q) = d /\ Tail(q) = <<>>  BY <2>4
      <3>2. x.cert = Gone  BY <1>0, <2>1, <2>4, <3>1 DEF CertEffect
      <3> QED  BY <1>2, <3>1, <3>2 DEF CertBack
    <2> QED  BY <1>2, <2>2, <2>3, <2>4 DEF CertBack, d
  <1>3. CASE b.cert # Gone
    <2> DEFINE a == Call("wrcert", b.cert)
               d == Call("wrkey", b.key)
    <2>1. a.op = "wrcert" /\ a.arg = b.cert /\ d.op = "wrkey" /\ d.arg = b.key  BY DEF Call
    <2>2. CertUndo(CertSaved(b)) = <<a>> \o (IF b.key = Gone THEN <<>> ELSE <<d>>)
      BY <1>1, <1>3 DEF CertUndo
    <2> HIDE DEF a, d
    <2> DEFINE z == IF b.key = Gone THEN <<>> ELSE <<d>>
    <2>3. IsSeq(z)  BY ShortSeqs
    <2>4. CASE q = <<a>> \o z
      <3>1. Head(q) = a /\ Tail(q) = z  BY <2>3, <2>4, InFront
      <3>2. x.cert = b.cert  BY <1>0, <2>1, <3>1 DEF CertEffect
      <3> QED  BY <1>3, <3>1, <3>2 DEF CertBack, d
    <2>5. CASE q = <<d>> /\ w.cert = b.cert
      <3>1. Head(q) = d /\ Tail(q) = <<>>  BY <2>5
      <3>2. x.cert = b.cert /\ x.key = b.key  BY <1>0, <2>1, <2>5, <3>1 DEF CertEffect
      <3> QED  BY <1>3, <3>1, <3>2 DEF CertBack
    <2> QED  BY <1>3, <2>2, <2>4, <2>5 DEF CertBack, d
  <1> QED  BY <1>2, <1>3

LEMMA PackageBackGoesOn ==
  ASSUME kind = "package", NEW b, PackageHost(b), NEW w, PackageHost(w), NEW q, q # <<>>, PackageBack(b, q, w),
         NEW x \in PackageEffect(Head(q), w)
  PROVE  PackageBack(b, Tail(q), x)
  <1> DEFINE v == PackageSaved(b)
  <1>1. v.present = (b.status # "unknown") /\ v.version = b.version  BY DEF PackageSaved
  <1>2. q = PackageUndo(v, w)  BY DEF PackageBack
  <1> HIDE DEF v
  <1>3. CASE b.status = "unknown"
    <2>1. q = <<Call("remove", Gone)>>  BY <1>1, <1>2, <1>3 DEF PackageUndo
    <2>2. Head(q) = Call("remove", Gone) /\ Tail(q) = <<>>  BY <2>1
    <2>3. x = IF w.status = "unknown" THEN w ELSE [w EXCEPT !.status = "config"]
      BY <2>2 DEF PackageEffect, Call
    <2>4. x.status # "installed"  BY <2>3 DEF PackageHost
    <2>5. Again(b, x)  BY <1>3, <2>4 DEF Again, Installed
    <2> QED  BY <2>2, <2>5 DEF PackageBack
  <1>4. CASE b.status # "unknown"
    <2>1. q = <<Call("install", b.version)>>  BY <1>1, <1>2, <1>4 DEF PackageUndo
    <2>2. Head(q) = Call("install", b.version) /\ Tail(q) = <<>>  BY <2>1
    <2>3. x = [version |-> IF b.version = Gone THEN "2" ELSE b.version, status |-> "installed"]
      BY <2>2 DEF PackageEffect, Call
    <2>4. b.status = "installed" => x = b  BY <2>3 DEF PackageHost, Installed
    <2>5. Again(b, x)  BY <1>4, <2>4 DEF Again
    <2> QED  BY <2>2, <2>5 DEF PackageBack
  <1> QED  BY <1>3, <1>4

LEMMA BackGoesOn ==
  ASSUME RulesStayPut, NamedNetworks, kind \in Kind, NEW s \in SpecsOf[kind], NEW b, Sound(b), NEW w, Sound(w),
         NEW q, AllProper(s, q), q # <<>>, Tidy(FALSE, q, w), Back(s, b, q, w),
         NEW x \in DriverEffect(Head(q), w)
  PROVE  Back(s, b, Tail(q), x)
  <1>0. ValidHost(kind, w) /\ ValidHost(kind, b)  BY DEF Sound
  <1>1. CASE kind = "docker.container"
    <2>1. ContainerBack(b, q, w) /\ x \in ContainerEffect(Head(q), w)  BY <1>1 DEF Back, DriverEffect
    <2>2. ContainerBack(b, Tail(q), x)  BY <1>1, <2>1, ContainerBackGoesOn
    <2> QED  BY <1>1, <2>2 DEF Back
  <1>2. CASE kind = "docker.compose"
    <2>1. StackBack(b, q, w) /\ x \in StackEffect(Head(q), w) /\ StackHost(w)
      BY <1>0, <1>2 DEF Back, DriverEffect, ValidHost
    <2>2. StackBack(b, Tail(q), x)  BY <2>1, StackBackGoesOn
    <2> QED  BY <1>2, <2>2 DEF Back
  <1>3. CASE kind = "firewall.rule"
    <2>1. RuleBack(s, b, q, w)  BY <1>3 DEF Back
    <2>2. RuleBack(s, b, Tail(q), x)  BY <1>3, <2>1, RuleBackGoesOn
    <2> QED  BY <1>3, <2>2 DEF Back
  <1>4. CASE kind = "dns.record"
    <2>1. RecordBack(b, q, w) /\ x \in RecordEffect(Head(q), w) /\ RecordHost(w)
      BY <1>0, <1>4 DEF Back, DriverEffect, ValidHost
    <2>2. RecordBack(b, Tail(q), x)  BY <2>1, RecordBackGoesOn
    <2> QED  BY <1>4, <2>2 DEF Back
  <1>5. CASE kind = "acme.certificate"
    <2>1. CertBack(b, q, w) /\ x \in CertEffect(Head(q), w) /\ CertHost(w)
      BY <1>0, <1>5 DEF Back, DriverEffect, ValidHost
    <2>2. CertBack(b, Tail(q), x)  BY <2>1, CertBackGoesOn
    <2> QED  BY <1>5, <2>2 DEF Back
  <1>6. CASE kind = "monitoring.check"  BY <1>6 DEF Back
  <1>7. CASE kind = "cron.job"
    <2>1. q = JobUndo(b.text) /\ b = [text |-> b.text]  BY <1>0, <1>7 DEF Back, ValidHost, JobHost
    <2>2. Head(q).arg = b.text /\ Tail(q) = <<>>  BY <2>1 DEF JobUndo, Call
    <2>3. x = b  BY <1>7, <2>1, <2>2 DEF DriverEffect, JobEffect
    <2> QED  BY <1>7, <2>2, <2>3 DEF Back
  <1>8. CASE kind = "package"
    <2>1. PackageBack(b, q, w) /\ x \in PackageEffect(Head(q), w) /\ PackageHost(w) /\ PackageHost(b)
      BY <1>0, <1>8 DEF Back, DriverEffect, ValidHost
    <2>2. PackageBack(b, Tail(q), x)  BY <1>8, <2>1, PackageBackGoesOn
    <2> QED  BY <1>8, <2>2 DEF Back
  <1>9. CASE kind = "sysctl.setting"
    <2>1. q = <<Call("write", b.val)>> /\ b = [val |-> b.val]
      BY <1>0, <1>9 DEF Back, ValidHost, SettingHost, SettingUndo
    <2>2. Head(q).arg = b.val /\ Tail(q) = <<>>  BY <2>1 DEF Call
    <2>3. x = b  BY <1>9, <2>1, <2>2 DEF DriverEffect, SettingEffect
    <2> QED  BY <1>9, <2>2, <2>3 DEF Back
  <1>10. CASE kind = "plugin"
    <2>1. q = ObjectUndo(b.obj) /\ b = [obj |-> b.obj]  BY <1>0, <1>10 DEF Back, ValidHost, ObjectHost
    <2>2. Head(q).arg = b.obj /\ Tail(q) = <<>>  BY <2>1 DEF ObjectUndo, Call
    <2>3. x = b  BY <1>10, <2>1, <2>2 DEF DriverEffect, ObjectEffect
    <2> QED  BY <1>10, <2>2, <2>3 DEF Back
  <1> QED  BY <1>1, <1>2, <1>3, <1>4, <1>5, <1>6, <1>7, <1>8, <1>9, <1>10, OneOfTheKinds DEF DriverKinds

\* The rules of one name and the others make up the list.
LEMMA RulesWithOne ==
  ASSUME NEW w, RuleHost(w), NEW r, TheRule(r, w)
  PROVE  ToSet(w.rules) = OtherRules(r.tag, w) \union {r} /\ CountOthers(r.tag, w) = Len(w.rules) - 1
  <1>1. PICK i \in DOMAIN w.rules : w.rules[i] = r /\ \A j \in DOMAIN w.rules : w.rules[j].tag = r.tag => j = i
    BY DEF TheRule
  <1>2. \A j \in DOMAIN w.rules : w.rules[j] = r \/ w.rules[j].tag # r.tag  BY <1>1
  <1>3. ToSet(w.rules) = {w.rules[j] : j \in DOMAIN w.rules}  BY DEF ToSet
  <1>4. ToSet(w.rules) = OtherRules(r.tag, w) \union {r}  BY <1>1, <1>2, <1>3 DEF OtherRules
  <1>5. ~NoRuleOf(r.tag, w)  BY <1>1 DEF NoRuleOf
  <1> QED  BY <1>4, <1>5 DEF CountOthers

LEMMA RulesWithNone ==
  ASSUME NEW w, RuleHost(w), NEW tag, NoRuleOf(tag, w)
  PROVE  ToSet(w.rules) = OtherRules(tag, w) /\ CountOthers(tag, w) = Len(w.rules)
  <1>1. ToSet(w.rules) = {w.rules[j] : j \in DOMAIN w.rules}  BY DEF ToSet
  <1>2. {j \in DOMAIN w.rules : w.rules[j].tag # tag} = DOMAIN w.rules  BY DEF NoRuleOf
  <1>3. ToSet(w.rules) = OtherRules(tag, w)  BY <1>1, <1>2 DEF OtherRules
  <1> QED  BY <1>3 DEF CountOthers

\* At its end the host is as it was.
LEMMA BackEnds ==
  ASSUME RulesStayPut, NamedNetworks, kind \in Kind, NEW s \in SpecsOf[kind], NEW b, Sound(b), NEW w, Sound(w),
         Since(s, b, w), Back(s, b, <<>>, w)
  PROVE  Again(b, w)
  <1>0. ValidHost(kind, w) /\ ValidHost(kind, b)  BY DEF Sound
  <1>1. CASE kind = "docker.container"
    <2>1. ContainerBack(b, <<>>, w)  BY <1>1 DEF Back
    <2>2. CASE b.box = Gone
      <3>1. w.box = Gone  BY <2>1, <2>2 DEF ContainerBack, Removing
      <3> QED  BY <1>1, <2>2, <3>1 DEF Again
    <2>3. CASE b.box # Gone
      <3> DEFINE v == ContainerSaved(b)
                 r == RestoredContainer(v)
      <3>1. /\ Whole(v) /\ v.ref = b.box.ref /\ v.opts = b.box.opts /\ v.vol = Canonical(b.box.vol)
            /\ v.env = b.box.env /\ v.cmd = b.box.cmd /\ v.nets = b.box.nets
        BY <1>1, <2>3, SavedIsWhole
      <3> HIDE DEF v
      <3>2. /\ r \in RunSpecs
            /\ r = [present |-> TRUE, ref |-> v.ref, opts |-> v.opts, vol |-> v.vol, env |-> v.env,
                    cmd |-> v.cmd, tmpfs |-> FALSE, net |-> r.net, extra |-> r.extra]
            /\ NetsOf(r) = v.nets
        BY <3>1, RestoredIsWhole
      <3> HIDE DEF r
      <3>3. r.ref = v.ref /\ r.opts = v.opts /\ r.vol = v.vol /\ r.env = v.env /\ r.cmd = v.cmd  BY <3>2
      <3>4. /\ IsSeq(Runs(r)) /\ Runs(r) # <<>> /\ IsSeq(RestoreRuns(r)) /\ RestoreRuns(r) # <<>>
        BY <3>2, RestoreRunsIsSeq
      <3>5. /\ <<Call("remove", Gone)>> \o RestoreRuns(r) # <<>>
            /\ <<Call("stop", Gone)>> \o (<<Call("remove", Gone)>> \o RestoreRuns(r)) # <<>>
        BY <3>4, StopsGoOn
      <3>6. Connecting(r, <<>>, w)  BY <2>1, <2>3, <3>4, <3>5 DEF ContainerBack, r, v
      <3>7. Built(r, w) /\ w.box.nets = NetsOf(r)
        <4>1. w.box.nets \union {<<>>[i].arg : i \in DOMAIN <<>>} = NetsOf(r)  BY <3>6 DEF Connecting
        <4>2. DOMAIN <<>> = {}  OBVIOUS
        <4>3. {<<>>[i].arg : i \in DOMAIN <<>>} = {}  BY <4>2
        <4> QED  BY <3>6, <4>1, <4>3 DEF Connecting
      <3>8. "PATH" \in v.env /\ v.cmd # "none"  BY <3>1 DEF Whole
      <3>9. w.box # Gone /\ w.box.ref = b.box.ref /\ w.box.opts = b.box.opts /\ w.box.nets = b.box.nets
        BY <3>1, <3>2, <3>3, <3>7 DEF Built
      <3>10. w.box.vol = Canonical(b.box.vol)  BY <3>1, <3>3, <3>7 DEF Built
      <3>11. Canonical(w.box.vol) = Canonical(b.box.vol)  BY <3>10 DEF Canonical
      <3>12. w.box.env = b.box.env
        <4>1. w.box.env = v.env \union {"PATH"}  BY <3>3, <3>7 DEF Built
        <4> QED  BY <3>1, <3>8, <4>1
      <3>13. w.box.cmd = b.box.cmd  BY <3>1, <3>3, <3>7, <3>8 DEF Built
      <3> QED  BY <1>1, <2>3, <3>9, <3>11, <3>12, <3>13 DEF Again
    <2> QED  BY <2>2, <2>3
  <1>2. CASE kind = "docker.compose"
    <2>1. \A v : StackDown # <<>> /\ StackUp(v) # <<>>  BY DEF StackDown, StackUp
    <2>2. StackBack(b, <<>>, w)  BY <1>2 DEF Back
    <2>3. w.file = b.file /\ (b.file = Gone => Services(w) = {})  BY <2>1, <2>2 DEF StackBack
    <2> QED  BY <1>2, <2>3 DEF Again
  <1>3. CASE kind = "firewall.rule"
    <2>1. RuleHost(w) /\ RuleHost(b)  BY <1>0, <1>3 DEF ValidHost
    <2>2. \/ Query(s.tag, b) = Gone /\ NoRuleOf(s.tag, b)
          \/ /\ Query(s.tag, b) # Gone
             /\ \E i \in DOMAIN b.rules : /\ Query(s.tag, b) = b.rules[i] /\ b.rules[i].tag = s.tag
                                          /\ b.rules[i] \in Rules
      BY <1>3, QueryFinds
    <2>3. /\ OneRule(b) /\ OtherRules(s.tag, w) = OtherRules(s.tag, b)
          /\ CountOthers(s.tag, w) = CountOthers(s.tag, b)
      BY <1>3 DEF Since
    <2>4. RuleBack(s, b, <<>>, w)  BY <1>3 DEF Back
    <2>5. \A r : EnsurePresent(r) # <<>> /\ EnsureAbsent(r) # <<>>  BY DEF EnsurePresent, EnsureAbsent
    <2>6. Len(w.rules) \in Nat /\ Len(b.rules) \in Nat  BY <2>1 DEF RuleHost
    <2>7. CASE Query(s.tag, b) = Gone
      <3>1. NoRuleOf(s.tag, b)  BY <2>2, <2>7
      <3>2. NoRuleOf(s.tag, w)  BY <2>4, <2>5, <2>7 DEF RuleBack, RuleSaved, Deleting
      <3>3. ToSet(b.rules) = OtherRules(s.tag, b) /\ CountOthers(s.tag, b) = Len(b.rules)
        BY <2>1, <3>1, RulesWithNone
      <3>4. ToSet(w.rules) = OtherRules(s.tag, w) /\ CountOthers(s.tag, w) = Len(w.rules)
        BY <2>1, <3>2, RulesWithNone
      <3> QED  BY <1>3, <2>3, <3>3, <3>4 DEF Again
    <2>8. CASE Query(s.tag, b) # Gone
      <3> DEFINE r == Query(s.tag, b)
      <3> HIDE DEF r
      <3>1. PICK i \in DOMAIN b.rules : r = b.rules[i] /\ b.rules[i].tag = s.tag
        BY <2>2, <2>8 DEF r
      <3>2. r.tag = s.tag  BY <3>1
      <3>3. s \in SpecsOf["firewall.rule"]  BY <1>3
      <3>4. \A j \in DOMAIN b.rules : b.rules[j].tag = r.tag => j = i  BY <2>3, <3>1, <3>3 DEF OneRule
      <3>5. TheRule(r, b)  BY <3>1, <3>4 DEF TheRule
      <3>6. TheRule(r, w)  BY <2>4, <2>5, <2>8 DEF RuleBack, RuleSaved, Replacing, r
      <3>7. ToSet(b.rules) = OtherRules(r.tag, b) \union {r} /\ CountOthers(r.tag, b) = Len(b.rules) - 1
        BY <2>1, <3>5, RulesWithOne
      <3>8. ToSet(w.rules) = OtherRules(r.tag, w) \union {r} /\ CountOthers(r.tag, w) = Len(w.rules) - 1
        BY <2>1, <3>6, RulesWithOne
      <3>9. ToSet(w.rules) = ToSet(b.rules)  BY <2>3, <3>2, <3>7, <3>8
      <3>10. Len(w.rules) = Len(b.rules)  BY <2>3, <2>6, <3>2, <3>7, <3>8
      <3> QED  BY <1>3, <3>9, <3>10 DEF Again
    <2> QED  BY <2>7, <2>8
  <1>4. CASE kind = "dns.record"
    <2>1. w = [rec |-> w.rec] /\ b = [rec |-> b.rec]  BY <1>0, <1>4 DEF ValidHost, RecordHost
    <2>2. w.rec = b.rec  BY <1>4 DEF Back, RecordBack
    <2>3. w = b  BY <2>1, <2>2
    <2> QED  BY <1>4, <2>3 DEF Again
  <1>5. CASE kind = "acme.certificate"
    <2>1. CertBack(b, <<>>, w)  BY <1>5 DEF Back
    <2>2. CertUndo(CertSaved(b)) # <<>>
      <3>1. CASE CertSaved(b).cert = Gone  BY <3>1 DEF CertUndo
      <3>2. CASE CertSaved(b).cert # Gone
        <4> DEFINE z == IF CertSaved(b).key = Gone THEN <<>> ELSE <<Call("wrkey", CertSaved(b).key)>>
        <4>1. IsSeq(z)  BY ShortSeqs
        <4>2. CertUndo(CertSaved(b)) = <<Call("wrcert", CertSaved(b).cert)>> \o z  BY <3>2 DEF CertUndo
        <4> HIDE DEF z
        <4>3. <<Call("wrcert", CertSaved(b).cert)>> \o z # <<>>  BY <4>1, InFront
        <4> QED  BY <4>2, <4>3
      <3> QED  BY <3>1, <3>2
    <2>3. w.cert = b.cert /\ (b.cert # Gone /\ b.key # Gone => w.key = b.key)
      BY <2>1, <2>2 DEF CertBack
    <2> QED  BY <1>5, <2>3 DEF Again
  <1>6. CASE kind = "monitoring.check"  BY <1>6 DEF Since, Again
  <1>7. CASE kind = "cron.job"
    <2>1. JobUndo(b.text) # <<>>  BY DEF JobUndo
    <2> QED  BY <1>7, <2>1 DEF Back, Again
  <1>8. CASE kind = "package"
    <2>1. PackageHost(w) /\ PackageHost(b)  BY <1>0, <1>8 DEF ValidHost
    <2>2. PackageBack(b, <<>>, w)  BY <1>8 DEF Back
    <2> DEFINE v == PackageSaved(b)
    <2>3. v.present = (b.status # "unknown") /\ v.version = b.version  BY DEF PackageSaved
    <2> HIDE DEF v
    <2>4. CASE <<>> = PackageUndo(v, w)
      <3>1. IF b.status = "unknown" THEN ~Installed(w) ELSE Installed(w) /\ b.version = w.version
        BY <2>3, <2>4 DEF PackageUndo
      <3>2. b.status = "installed" => w = b  BY <2>1, <3>1 DEF PackageHost, Installed
      <3> QED  BY <1>8, <2>1, <3>1, <3>2 DEF Again, PackageHost
    <2> QED  BY <2>2, <2>4 DEF PackageBack, v
  <1>9. CASE kind = "sysctl.setting"
    <2>1. w = [val |-> w.val] /\ b = [val |-> b.val]  BY <1>0, <1>9 DEF ValidHost, SettingHost
    <2>2. w.val = b.val \/ w = b  BY <1>9 DEF Back, SettingUndo, Since
    <2>3. w = b  BY <2>1, <2>2
    <2> QED  BY <1>9, <2>3 DEF Again
  <1>10. CASE kind = "plugin"
    <2>1. ObjectUndo(b.obj) # <<>>  BY DEF ObjectUndo
    <2> QED  BY <1>10, <2>1 DEF Back, Again
  <1> QED  BY <1>1, <1>2, <1>3, <1>4, <1>5, <1>6, <1>7, <1>8, <1>9, <1>10, OneOfTheKinds DEF DriverKinds

(***************************************************************************)
(* The invariant.                                                          *)
(***************************************************************************)

\* What is said of hosts, calls and ways depends on no other variable.
LEMMA KindStays ==
  ASSUME UNCHANGED kind
  PROVE  /\ \A w : Sound(w)' <=> Sound(w)
         /\ \A s, c : Proper(s, c)' <=> Proper(s, c)
         /\ \A s, step : StepOf(s, step)' <=> StepOf(s, step)
         /\ \A s, v : Kept(s, v)' <=> Kept(s, v)
         /\ \A b, q, w : Tidy(b, q, w)' <=> Tidy(b, q, w)
         /\ \A s, b, w : Since(s, b, w)' <=> Since(s, b, w)
         /\ \A s, steps, q, w : Way(s, steps, q, w)' <=> Way(s, steps, q, w)
         /\ \A s, w : DriverDiffers(s, w)' <=> DriverDiffers(s, w)
         /\ \A s, w : DriverSaved(s, w)' = DriverSaved(s, w)
         /\ \A b, w : Again(b, w)' <=> Again(b, w)
         /\ \A s, b, q, w : Back(s, b, q, w)' <=> Back(s, b, q, w)
  <1>1. \A w : Sound(w)' <=> Sound(w)  BY DEF Sound
  <1>2. \A s, c : Proper(s, c)' <=> Proper(s, c)  BY DEF Proper
  <1>3. \A s, step : StepOf(s, step)' <=> StepOf(s, step)  BY DEF StepOf
  <1>4. \A s, v : Kept(s, v)' <=> Kept(s, v)  BY DEF Kept
  <1>5. \A b, q, w : Tidy(b, q, w)' <=> Tidy(b, q, w)  BY DEF Tidy
  <1>6. \A s, b, w : Since(s, b, w)' <=> Since(s, b, w)  BY DEF Since
  <1>7. \A s, steps, q, w : Way(s, steps, q, w)' <=> Way(s, steps, q, w)  BY DEF Way
  <1>8. \A s, w : DriverDiffers(s, w)' <=> DriverDiffers(s, w)  BY DEF DriverDiffers
  <1>9. \A s, w : DriverSaved(s, w)' = DriverSaved(s, w)  BY DEF DriverSaved
  <1>10. \A b, w : Again(b, w)' <=> Again(b, w)  BY DEF Again
  <1>11. \A s, b, q, w : Back(s, b, q, w)' <=> Back(s, b, q, w)  BY <1>10 DEF Back, PackageBack
  <1> QED  BY <1>1, <1>2, <1>3, <1>4, <1>5, <1>6, <1>7, <1>8, <1>9, <1>10, <1>11

\* The record of what is under way, changed in two or three places.
LEMMA WorkChanges ==
  ASSUME NEW r, r = [steps |-> r.steps, left |-> r.left, err |-> r.err, at |-> r.at, calls |-> r.calls],
         NEW a, NEW v
  PROVE  /\ [r EXCEPT !.at = a, !.steps = v]
              = [steps |-> v, left |-> r.left, err |-> r.err, at |-> a, calls |-> r.calls]
         /\ [r EXCEPT !.at = a, !.left = v]
              = [steps |-> r.steps, left |-> v, err |-> r.err, at |-> a, calls |-> r.calls]
         /\ [r EXCEPT !.calls = v, !.at = a]
              = [steps |-> r.steps, left |-> r.left, err |-> r.err, at |-> a, calls |-> v]
         /\ \A q : [r EXCEPT !.at = a, !.steps = v, !.calls = q]
              = [steps |-> v, left |-> r.left, err |-> r.err, at |-> a, calls |-> q]
         /\ \A q : [r EXCEPT !.at = a, !.left = v, !.calls = q]
              = [steps |-> r.steps, left |-> v, err |-> r.err, at |-> a, calls |-> q]
         /\ \A q : [r EXCEPT !.at = a, !.calls = v, !.err = q]
              = [steps |-> r.steps, left |-> r.left, err |-> q, at |-> a, calls |-> v]
  <1> DEFINE m == [r EXCEPT !.at = a]
             n == [r EXCEPT !.calls = v]
             x == [m EXCEPT !.steps = v]
             y == [m EXCEPT !.left = v]
             z == [m EXCEPT !.calls = v]
  <1>1. m = [steps |-> r.steps, left |-> r.left, err |-> r.err, at |-> a, calls |-> r.calls]  OBVIOUS
  <1>2. n = [steps |-> r.steps, left |-> r.left, err |-> r.err, at |-> r.at, calls |-> v]  OBVIOUS
  <1> HIDE DEF m, n
  <1>3. x = [steps |-> v, left |-> r.left, err |-> r.err, at |-> a, calls |-> r.calls]  BY <1>1
  <1>4. y = [steps |-> r.steps, left |-> v, err |-> r.err, at |-> a, calls |-> r.calls]  BY <1>1
  <1>5. z = [steps |-> r.steps, left |-> r.left, err |-> r.err, at |-> a, calls |-> v]  BY <1>1
  <1>6. [n EXCEPT !.at = a] = [steps |-> r.steps, left |-> r.left, err |-> r.err, at |-> a, calls |-> v]  BY <1>2
  <1> HIDE DEF x, y, z
  <1>7. \A q : [x EXCEPT !.calls = q] = [steps |-> v, left |-> r.left, err |-> r.err, at |-> a, calls |-> q]
    BY <1>3
  <1>8. \A q : [y EXCEPT !.calls = q] = [steps |-> r.steps, left |-> v, err |-> r.err, at |-> a, calls |-> q]
    BY <1>4
  <1>9. \A q : [z EXCEPT !.err = q] = [steps |-> r.steps, left |-> r.left, err |-> q, at |-> a, calls |-> v]
    BY <1>5
  <1>10. [r EXCEPT !.at = a, !.steps = v] = x  BY DEF x, m
  <1>11. [r EXCEPT !.at = a, !.left = v] = y  BY DEF y, m
  <1>12. \A q : [r EXCEPT !.at = a, !.steps = v, !.calls = q] = [x EXCEPT !.calls = q]  BY DEF x, m
  <1>13. \A q : [r EXCEPT !.at = a, !.left = v, !.calls = q] = [y EXCEPT !.calls = q]  BY DEF y, m
  <1>14. \A q : [r EXCEPT !.at = a, !.calls = v, !.err = q] = [z EXCEPT !.err = q]  BY DEF z, m
  <1>15. [r EXCEPT !.calls = v, !.at = a] = [n EXCEPT !.at = a]  BY DEF n
  <1> QED  BY <1>3, <1>4, <1>6, <1>7, <1>8, <1>9, <1>10, <1>11, <1>12, <1>13, <1>14, <1>15

LEMMA RestingFields ==
  /\ Resting = [steps |-> Resting.steps, left |-> Resting.left, err |-> Resting.err, at |-> Resting.at,
                calls |-> Resting.calls]
  /\ Resting.steps = <<>> /\ Resting.left = 0 /\ Resting.err = FALSE /\ Resting.at = "idle" /\ Resting.calls = <<>>
  BY DEF Resting

LEMMA ApplyBeginsKeepsInv ==
  ASSUME RulesStayPut, DriverInv, NEW s \in SpecsOf[kind], ApplyBegins(s)
  PROVE  DriverInv'
  <1>k. UNCHANGED kind /\ kind \in Kind  BY DEF ApplyBegins, DriverInv
  <1>0. work = Resting /\ Sound(world) /\ Tidy(last.lossy, <<>>, world) /\ last.lossy \in BOOLEAN
    BY DEF ApplyBegins, DriverInv, WorkOK, LastOK, PartsOK, Resting
  <1>1. /\ world' = world /\ was' = world /\ ckpts' = <<>>
        /\ last' = [spec |-> s, lossy |-> last.lossy,
                    end |-> IF DriverDiffers(s, world) THEN "open" ELSE "applied",
                    hit |-> FALSE, moved |-> FALSE]
    BY DEF ApplyBegins
  <1>2. work' = IF DriverDiffers(s, world)
                THEN [steps |-> DriverPlan(s, world), left |-> 0, err |-> FALSE, at |-> "step", calls |-> <<>>]
                ELSE Resting
    <2> DEFINE q == DriverPlan(s, world)
    <2>1. work' = IF DriverDiffers(s, world) THEN [Resting EXCEPT !.at = "step", !.steps = q] ELSE Resting
      BY DEF ApplyBegins
    <2> HIDE DEF q
    <2>2. [Resting EXCEPT !.at = "step", !.steps = q]
            = [steps |-> q, left |-> 0, err |-> FALSE, at |-> "step", calls |-> <<>>]
      <3> DEFINE r == Resting
      <3>1. /\ r = [steps |-> r.steps, left |-> r.left, err |-> r.err, at |-> r.at, calls |-> r.calls]
            /\ r.left = 0 /\ r.err = FALSE /\ r.calls = <<>>
        BY RestingFields
      <3> HIDE DEF r
      <3>2. [r EXCEPT !.at = "step", !.steps = q]
              = [steps |-> q, left |-> r.left, err |-> r.err, at |-> "step", calls |-> r.calls]
        BY <3>1, WorkChanges
      <3> QED  BY <3>1, <3>2 DEF r
    <2> QED  BY <2>1, <2>2 DEF q
  <1>3. IsSeq(DriverPlan(s, world)) /\ \A i \in DOMAIN DriverPlan(s, world) : StepOf(s, DriverPlan(s, world)[i])
    BY <1>k, PlanIsOfSteps
  <1>4. WorkOK'
    <2>1. IsSeq(<<>>) /\ Len(<<>>) = 0  BY ShortSeqs
    <2>2. IsSeq(ckpts') /\ Len(ckpts') = 0  BY <1>1, <2>1
    <2>3. CASE work' = Resting  BY <2>1, <2>2, <2>3 DEF WorkOK, Resting
    <2> DEFINE q == DriverPlan(s, world)
    <2>4. IsSeq(q)  BY <1>3
    <2> HIDE DEF q
    <2>5. CASE work' = [steps |-> q, left |-> 0, err |-> FALSE, at |-> "step", calls |-> <<>>]
      BY <2>1, <2>2, <2>4, <2>5 DEF WorkOK
    <2> QED  BY <1>2, <2>3, <2>5 DEF q
  <1>5. LastOK'  BY <1>k, <1>0, <1>1, <1>2 DEF LastOK, Resting
  <1>6. PartsOK'  BY <1>k, <1>0, <1>1, <1>2, <1>3, KindStays DEF PartsOK, Resting
  <1>7. GoingOn'
    <2>1. DriverDiffers(s, world) => Way(s, DriverPlan(s, world), <<>>, world)  BY <1>k, WayBegins
    <2> QED  BY <1>k, <1>1, <1>2, <2>1, KindStays DEF GoingOn, Resting
  <1>8. FirstKept'  BY <1>1 DEF FirstKept
  <1>9. GoingBack'
    <2>1. ~last.lossy => Since(s, world, world)
      <3>1. ~last.lossy => Tidy(FALSE, <<>>, world)  BY <1>0
      <3> QED  BY <1>k, <3>1, SinceBegins
    <2> QED  BY <1>k, <1>1, <1>2, <2>1, KindStays DEF GoingBack, Resting
  <1>10. last'.end = "applied" /\ ~last'.moved => ~DriverDiffers(last.spec, world)'
    BY <1>k, <1>1, KindStays
  <1>11. UndoRestores' /\ RetrySucceeds'  BY <1>1 DEF UndoRestores, RetrySucceeds
  <1> QED  BY <1>k, <1>4, <1>5, <1>6, <1>7, <1>8, <1>9, <1>10, <1>11 DEF DriverInv

\* A sequence with one more element.
LEMMA OneMore ==
  ASSUME NEW q, IsSeq(q), NEW v
  PROVE  /\ IsSeq(Append(q, v)) /\ Append(q, v) # <<>> /\ Len(q) \in Nat /\ Len(Append(q, v)) = Len(q) + 1
         /\ q # <<>> => Append(q, v)[1] = q[1]
         /\ q = <<>> => Append(q, v)[1] = v
         /\ \A i \in DOMAIN Append(q, v) : Append(q, v)[i] = v \/ (i \in DOMAIN q /\ Append(q, v)[i] = q[i])
  <1> DEFINE S == ToSet(q) \union {v}
             z == Append(q, v)
  <1>1. q \in Seq(ToSet(q)) /\ ToSet(q) \subseteq S  BY DEF IsSeq
  <1>2. q \in Seq(S) /\ v \in S  BY <1>1
  <1> HIDE DEF S
  <1>3. z \in Seq(S) /\ Len(z) = Len(q) + 1 /\ Len(q) \in Nat  BY <1>2
  <1>4. IsSeq(z)  BY <1>3, SeqIsSeq
  <1>5. DOMAIN z = 1..(Len(q) + 1) /\ DOMAIN q = 1..Len(q) /\ z[Len(q) + 1] = v
        /\ \A i \in 1..Len(q) : z[i] = q[i]
    BY <1>2
  <1>6. q # <<>> => Len(q) # 0  BY <1>2
  <1>7. q = <<>> => Len(q) = 0  OBVIOUS
  <1> HIDE DEF z
  <1>8. q # <<>> => z[1] = q[1]  BY <1>3, <1>5, <1>6
  <1>9. q = <<>> => z[1] = v  BY <1>5, <1>7
  <1>10. \A i \in DOMAIN z : z[i] = v \/ (i \in DOMAIN q /\ z[i] = q[i])  BY <1>3, <1>5
  <1>11. z # <<>>  BY <1>3
  <1> QED  BY <1>3, <1>4, <1>8, <1>9, <1>10, <1>11 DEF z

\* What holds of what is under way.
LEMMA AtWork ==
  ASSUME DriverInv, work.at # "idle"
  PROVE  /\ kind \in Kind /\ last.end = "open" /\ last.spec \in SpecsOf[kind]
         /\ work = [steps |-> work.steps, left |-> work.left, err |-> work.err, at |-> work.at, calls |-> work.calls]
         /\ last = [spec |-> last.spec, lossy |-> last.lossy, end |-> last.end, hit |-> last.hit, moved |-> last.moved]
         /\ IsSeq(work.steps) /\ IsSeq(ckpts) /\ work.left \in Nat /\ work.left <= Len(ckpts)
         /\ Sound(world) /\ Sound(was) /\ AllProper(last.spec, work.calls)
         /\ Tidy(last.lossy, work.calls, world) /\ last.lossy \in BOOLEAN
         /\ last.hit \in BOOLEAN /\ last.moved \in BOOLEAN /\ work.err \in BOOLEAN
         /\ work.at \in {"step", "undo"} => work.calls = <<>>
         /\ work.at = "apply" => ckpts # <<>>
         /\ ~last.lossy /\ ~last.moved => Since(last.spec, was, world) /\ Tidy(FALSE, work.calls, world)
  BY DEF DriverInv, WorkOK, LastOK, PartsOK, GoingBack, AllProper

LEMMA StepBeginsKeepsInv ==
  ASSUME RulesStayPut, DriverInv, StepBegins
  PROVE  DriverInv'
  <1> DEFINE s == last.spec
             v == DriverSaved(s, world)
             q == DriverCalls(s, Head(work.steps))
             z == Tail(work.steps)
  <1>1. work.at = "step" /\ work.steps # <<>>  BY DEF StepBegins
  <1>2. /\ kind \in Kind /\ last.end = "open" /\ s \in SpecsOf[kind]
        /\ work = [steps |-> work.steps, left |-> work.left, err |-> work.err, at |-> work.at, calls |-> work.calls]
        /\ IsSeq(work.steps) /\ IsSeq(ckpts) /\ work.left \in Nat /\ work.left <= Len(ckpts)
        /\ Sound(world) /\ Sound(was) /\ Tidy(last.lossy, <<>>, world) /\ last.lossy \in BOOLEAN
        /\ work.err \in BOOLEAN /\ work.calls = <<>>
    BY <1>1, AtWork
  <1>3. UNCHANGED <<kind, world, was, last>> /\ ckpts' = Append(ckpts, v)  BY DEF StepBegins
  <1>4. work' = [steps |-> z, left |-> work.left, err |-> work.err, at |-> "apply", calls |-> q]
    <2>1. work' = [work EXCEPT !.at = "apply", !.steps = Tail(@), !.calls = q]  BY DEF StepBegins
    <2> HIDE DEF q
    <2> QED  BY <1>2, <2>1, WorkChanges
  <1>5. /\ IsSeq(z) /\ 1 \in DOMAIN work.steps /\ Head(work.steps) = work.steps[1]
        /\ \A i \in DOMAIN z : i + 1 \in DOMAIN work.steps /\ z[i] = work.steps[i + 1]
    BY <1>1, <1>2, HeadAndTail
  <1>6. \A i \in DOMAIN work.steps : StepOf(s, work.steps[i])  BY DEF DriverInv, PartsOK
  <1>7. StepOf(s, Head(work.steps)) /\ \A i \in DOMAIN z : StepOf(s, z[i])  BY <1>5, <1>6
  <1>8. AllProper(s, q) /\ Tidy(last.lossy, q, world)  BY <1>2, <1>7, CallsAreProper
  <1>9. Kept(s, v)  BY <1>2, SavedIsKept
  <1>10. /\ IsSeq(Append(ckpts, v)) /\ Append(ckpts, v) # <<>>
         /\ Len(ckpts) \in Nat /\ Len(Append(ckpts, v)) = Len(ckpts) + 1
         /\ ckpts # <<>> => Append(ckpts, v)[1] = ckpts[1]
         /\ ckpts = <<>> => Append(ckpts, v)[1] = v
         /\ \A i \in DOMAIN Append(ckpts, v) :
              Append(ckpts, v)[i] = v \/ (i \in DOMAIN ckpts /\ Append(ckpts, v)[i] = ckpts[i])
    BY <1>2, OneMore
  <1> HIDE DEF q, z, v
  <1>11. WorkOK'  BY <1>2, <1>3, <1>4, <1>5, <1>8, <1>10 DEF WorkOK, AllProper
  <1>12. LastOK'  BY <1>2, <1>3, <1>4 DEF LastOK, DriverInv
  <1>13. PartsOK'
    <2>1. \A i \in DOMAIN ckpts : Kept(s, ckpts[i])  BY DEF DriverInv, PartsOK
    <2>2. \A i \in DOMAIN ckpts' : Kept(s, ckpts'[i])  BY <1>3, <1>9, <1>10, <2>1
    <2> QED  BY <1>2, <1>3, <1>4, <1>7, <1>8, <2>2, KindStays DEF PartsOK, AllProper
  <1>14. GoingOn'
    <2>1. ~last.hit /\ ~last.moved /\ ~last.lossy /\ NamedNetworks => Way(s, work.steps, <<>>, world)
      BY <1>1, <1>2 DEF DriverInv, GoingOn
    <2>2. ~last.hit /\ ~last.moved /\ ~last.lossy /\ NamedNetworks => Way(s, z, q, world)
      BY <1>1, <1>2, <2>1, WayTakesStep DEF z, q
    <2> QED  BY <1>3, <1>4, <2>2, KindStays DEF GoingOn
  <1>15. FirstKept'
    <2>1. ~last.moved => /\ ckpts = <<>> => world = was
                         /\ ckpts # <<>> => ckpts[1] = DriverSaved(s, was)
      BY <1>1 DEF DriverInv, FirstKept
    <2>2. ~last.moved => Append(ckpts, v)[1] = DriverSaved(s, was)  BY <1>10, <2>1 DEF v
    <2> QED  BY <1>3, <1>4, <1>10, <2>2, KindStays DEF FirstKept
  <1>16. GoingBack'  BY <1>2, <1>3, <1>4, KindStays DEF DriverInv, GoingBack
  <1>17. UndoRestores' /\ RetrySucceeds' /\ last'.end # "applied"
    BY <1>2, <1>3 DEF UndoRestores, RetrySucceeds
  <1> QED  BY <1>2, <1>3, <1>11, <1>12, <1>13, <1>14, <1>15, <1>16, <1>17 DEF DriverInv

\* When nothing is under way any more.
LEMMA ComesToRest ==
  ASSUME work' = Resting, IsSeq(ckpts), UNCHANGED ckpts
  PROVE  WorkOK' /\ GoingOn'
  <1>1. IsSeq(<<>>)  BY ShortSeqs
  <1>2. IsSeq(ckpts') /\ Len(ckpts') \in Nat  BY DEF IsSeq
  <1>3. WorkOK'  BY <1>1, <1>2 DEF WorkOK, Resting
  <1>4. GoingOn'  BY DEF GoingOn, Resting
  <1> QED  BY <1>3, <1>4

LEMMA VerifiedKeepsInv ==
  ASSUME RulesStayPut, DriverInv, Verified
  PROVE  DriverInv'
  <1> DEFINE s == last.spec
             how == IF DriverDiffers(s, world) THEN "failed" ELSE "applied"
  <1>1. work.at = "step" /\ work.steps = <<>>  BY DEF Verified
  <1>2. /\ kind \in Kind /\ last.end = "open" /\ s \in SpecsOf[kind]
        /\ last = [spec |-> last.spec, lossy |-> last.lossy, end |-> last.end, hit |-> last.hit, moved |-> last.moved]
        /\ IsSeq(ckpts)
        /\ Sound(world) /\ Sound(was) /\ Tidy(last.lossy, <<>>, world) /\ last.lossy \in BOOLEAN
        /\ last.hit \in BOOLEAN /\ last.moved \in BOOLEAN
        /\ ~last.lossy /\ ~last.moved => Since(s, was, world)
    BY <1>1, AtWork
  <1>3. /\ UNCHANGED <<kind, world, was, ckpts>> /\ work' = Resting
        /\ last' = [last EXCEPT !.end = how]
    BY DEF Verified, End
  <1>4. how \in {"failed", "applied"}  OBVIOUS
  <1>5. last' = [spec |-> s, lossy |-> last.lossy, end |-> how, hit |-> last.hit, moved |-> last.moved]
    <2> HIDE DEF how
    <2> QED  BY <1>2, <1>3
  <1>6. how = "applied" => ~DriverDiffers(s, world)  OBVIOUS
  <1>7. how = "failed" => DriverDiffers(s, world)  OBVIOUS
  <1> HIDE DEF how
  <1>8. WorkOK' /\ GoingOn'  BY <1>2, <1>3, ComesToRest
  <1>9. LastOK'  BY <1>2, <1>3, <1>4, <1>5, RestingFields DEF LastOK
  <1>10. PartsOK'
    <2>1. \A i \in DOMAIN ckpts : Kept(s, ckpts[i])  BY DEF DriverInv, PartsOK
    <2> QED  BY <1>2, <1>3, <1>5, <2>1, KindStays, RestingFields DEF PartsOK
  <1>12. FirstKept'  BY <1>3, <1>5, KindStays, RestingFields DEF DriverInv, FirstKept
  <1>13. GoingBack'  BY <1>2, <1>3, <1>5, KindStays, RestingFields DEF GoingBack
  <1>14. (last.end = "applied" /\ ~last.moved => ~DriverDiffers(last.spec, world))'
    BY <1>3, <1>5, <1>6, KindStays
  <1>15. UndoRestores'  BY <1>4, <1>5 DEF UndoRestores
  <1>16. NamedNetworks => RetrySucceeds'
    <2>1. how = "failed" /\ ~last.hit /\ ~last.moved /\ ~last.lossy /\ NamedNetworks
            => kind = "monitoring.check" \/ (kind = "sysctl.setting" /\ world.val = Gone)
      <3>1. ~last.hit /\ ~last.moved /\ ~last.lossy /\ NamedNetworks => Way(s, <<>>, <<>>, world)
        BY <1>1, AtWork DEF DriverInv, GoingOn
      <3> QED  BY <1>2, <1>7, <3>1, WayEnds
    <2> QED  BY <1>3, <1>5, <2>1 DEF RetrySucceeds
  <1> QED  BY <1>2, <1>3, <1>8, <1>9, <1>10, <1>12, <1>13, <1>14, <1>15, <1>16 DEF DriverInv

\* A call that has its effect, or whose failure is ignored.
LEMMA GoesOnFields ==
  ASSUME work = [steps |-> work.steps, left |-> work.left, err |-> work.err, at |-> work.at, calls |-> work.calls],
         Calling, NEW z, GoesOn(z)
  PROVE  \E at \in {"apply", "step", "undo", "undoing"} :
           /\ work' = [steps |-> work.steps, left |-> work.left, err |-> work.err, at |-> at, calls |-> z]
           /\ at \in {"step", "undo"} => z = <<>>
           /\ at \in {"apply", "step"} <=> work.at = "apply"
  <1> DEFINE at == IF z # <<>> THEN work.at ELSE IF work.at = "apply" THEN "step" ELSE "undo"
  <1>1. work' = [work EXCEPT !.calls = z, !.at = at]  BY DEF GoesOn
  <1>2. at \in {"apply", "step", "undo", "undoing"} /\ (at \in {"step", "undo"} => z = <<>>)
        /\ (at \in {"apply", "step"} <=> work.at = "apply")
    BY DEF Calling
  <1> HIDE DEF at
  <1>3. work' = [steps |-> work.steps, left |-> work.left, err |-> work.err, at |-> at, calls |-> z]
    BY <1>1, WorkChanges
  <1> QED  BY <1>2, <1>3

\* What is left to show when an apply or a rollback goes on.
LEMMA GoesOnKeepsInv ==
  ASSUME DriverInv, Calling, NEW z, GoesOn(z), UNCHANGED <<kind, ckpts, was>>,
         last'.spec = last.spec /\ last'.end = last.end /\ last'.moved = last.moved,
         last' = [spec |-> last'.spec, lossy |-> last'.lossy, end |-> last'.end, hit |-> last'.hit,
                  moved |-> last'.moved],
         last'.hit \in BOOLEAN /\ last'.lossy \in BOOLEAN,
         last'.lossy \/ (last'.lossy = last.lossy /\ last'.hit = last.hit),
         Sound(world'), AllProper(last.spec, z), Tidy(last'.lossy, z, world'),
         ~last'.lossy /\ ~last.moved => Since(last.spec, was, world'),
         ~last'.hit /\ ~last'.lossy /\ ~last.moved /\ NamedNetworks /\ work.at = "apply"
           => Way(last.spec, work.steps, z, world'),
         ~last'.lossy /\ ~last.moved /\ NamedNetworks /\ work.at = "undoing" /\ work.left = 0 /\ ~work.err
           => Back(last.spec, was, z, world')
  PROVE  DriverInv'
  <1> DEFINE s == last.spec
  <1>1. work.at \in {"apply", "undoing"} /\ work.at # "idle"  BY DEF Calling
  <1>2. /\ kind \in Kind /\ last.end = "open" /\ s \in SpecsOf[kind]
        /\ work = [steps |-> work.steps, left |-> work.left, err |-> work.err, at |-> work.at, calls |-> work.calls]
        /\ IsSeq(work.steps) /\ IsSeq(ckpts) /\ work.left \in Nat /\ work.left <= Len(ckpts)
        /\ Sound(was) /\ last.moved \in BOOLEAN /\ work.err \in BOOLEAN
        /\ work.at = "apply" => ckpts # <<>>
    BY <1>1, AtWork
  <1>3. PICK at \in {"apply", "step", "undo", "undoing"} :
           /\ work' = [steps |-> work.steps, left |-> work.left, err |-> work.err, at |-> at, calls |-> z]
           /\ at \in {"step", "undo"} => z = <<>>
           /\ at \in {"apply", "step"} <=> work.at = "apply"
    BY <1>2, GoesOnFields
  <1>4. IsSeq(z) /\ \A i \in DOMAIN z : Proper(s, z[i])  BY DEF AllProper
  <1>5. WorkOK'  BY <1>2, <1>3, <1>4 DEF WorkOK
  <1>6. LastOK'  BY <1>2, <1>3 DEF LastOK
  <1>7. PartsOK'
    <2>1. /\ \A i \in DOMAIN ckpts : Kept(s, ckpts[i])
          /\ \A i \in DOMAIN work.steps : StepOf(s, work.steps[i])
      BY DEF DriverInv, PartsOK
    <2> QED  BY <1>2, <1>3, <1>4, <2>1, KindStays DEF PartsOK
  <1>8. GoingOn'  BY <1>3, KindStays DEF GoingOn
  <1>9. FirstKept'  BY <1>2, <1>3, KindStays DEF DriverInv, FirstKept
  <1>10. GoingBack'
    <2>1. at \in {"undo", "undoing"} => work.at = "undoing"  BY <1>1, <1>3
    <2> QED  BY <1>3, <2>1, KindStays DEF GoingBack
  <1>11. UndoRestores' /\ RetrySucceeds' /\ last'.end # "applied"
    BY <1>2 DEF UndoRestores, RetrySucceeds
  <1> QED  BY <1>2, <1>5, <1>6, <1>7, <1>8, <1>9, <1>10, <1>11 DEF DriverInv

\* What is left to show when an apply is given up or stops, or a rollback ends.
LEMMA RestKeepsInv ==
  ASSUME DriverInv, work.at # "idle", work' = Resting, UNCHANGED <<kind, ckpts, was>>,
         last'.spec = last.spec /\ last'.moved = last.moved /\ last'.lossy = last.lossy /\ last'.hit \in BOOLEAN,
         last' = [spec |-> last'.spec, lossy |-> last'.lossy, end |-> last'.end, hit |-> last'.hit,
                  moved |-> last'.moved],
         last'.end \notin {"none", "applied"},
         Sound(world'), Tidy(last.lossy, <<>>, world'),
         ~last.lossy /\ ~last.moved => Since(last.spec, was, world'),
         NamedNetworks => UndoRestores' /\ RetrySucceeds'
  PROVE  DriverInv'
  <1> DEFINE s == last.spec
  <1>1. /\ kind \in Kind /\ last.end = "open" /\ s \in SpecsOf[kind]
        /\ IsSeq(ckpts) /\ Sound(was) /\ last.moved \in BOOLEAN /\ last.lossy \in BOOLEAN
    BY AtWork
  <1>2. WorkOK' /\ GoingOn'  BY <1>1, ComesToRest
  <1>3. LastOK'  BY <1>1, RestingFields DEF LastOK
  <1>4. PartsOK'
    <2>1. \A i \in DOMAIN ckpts : Kept(s, ckpts[i])  BY DEF DriverInv, PartsOK
    <2>2. DOMAIN work'.calls = {} /\ DOMAIN work'.steps = {} /\ work'.calls = <<>>  BY RestingFields
    <2> QED  BY <1>1, <2>1, <2>2, KindStays DEF PartsOK
  <1>5. FirstKept'  BY KindStays, RestingFields DEF DriverInv, FirstKept
  <1>6. GoingBack'  BY KindStays, RestingFields DEF GoingBack
  <1> QED  BY <1>1, <1>2, <1>3, <1>4, <1>5, <1>6 DEF DriverInv

\* What is left to show when a call of a rollback fails.
LEMMA NotedKeepsInv ==
  ASSUME DriverInv, work.at = "undoing", work' = [work EXCEPT !.at = "undo", !.calls = <<>>, !.err = TRUE],
         UNCHANGED <<kind, ckpts, was>>,
         last'.spec = last.spec /\ last'.moved = last.moved /\ last'.lossy = last.lossy /\ last'.hit \in BOOLEAN,
         last' = [spec |-> last'.spec, lossy |-> last'.lossy, end |-> last'.end, hit |-> last'.hit,
                  moved |-> last'.moved],
         last'.end = last.end,
         Sound(world'), Tidy(last.lossy, <<>>, world'),
         ~last.lossy /\ ~last.moved => Since(last.spec, was, world')
  PROVE  DriverInv'
  <1> DEFINE s == last.spec
  <1>1. /\ kind \in Kind /\ last.end = "open" /\ s \in SpecsOf[kind]
        /\ work = [steps |-> work.steps, left |-> work.left, err |-> work.err, at |-> work.at, calls |-> work.calls]
        /\ IsSeq(work.steps) /\ IsSeq(ckpts) /\ work.left \in Nat /\ work.left <= Len(ckpts)
        /\ Sound(was) /\ last.moved \in BOOLEAN /\ last.lossy \in BOOLEAN
    BY AtWork
  <1>2. work' = [steps |-> work.steps, left |-> work.left, err |-> TRUE, at |-> "undo", calls |-> <<>>]
    BY <1>1, WorkChanges
  <1>3. IsSeq(<<>>) /\ DOMAIN <<>> = {}  BY ShortSeqs
  <1>4. WorkOK'  BY <1>1, <1>2, <1>3 DEF WorkOK
  <1>5. LastOK'  BY <1>1, <1>2 DEF LastOK
  <1>6. PartsOK'
    <2>1. /\ \A i \in DOMAIN ckpts : Kept(s, ckpts[i])
          /\ \A i \in DOMAIN work.steps : StepOf(s, work.steps[i])
      BY DEF DriverInv, PartsOK
    <2> QED  BY <1>1, <1>2, <1>3, <2>1, KindStays DEF PartsOK
  <1>7. GoingOn'  BY <1>2 DEF GoingOn
  <1>8. FirstKept'  BY <1>2, KindStays DEF DriverInv, FirstKept
  <1>9. GoingBack'  BY <1>2, KindStays DEF GoingBack
  <1>10. UndoRestores' /\ RetrySucceeds' /\ last'.end # "applied"
    BY <1>1 DEF UndoRestores, RetrySucceeds
  <1> QED  BY <1>1, <1>4, <1>5, <1>6, <1>7, <1>8, <1>9, <1>10 DEF DriverInv

LEMMA CallWorksKeepsInv ==
  ASSUME RulesStayPut, DriverInv, CallWorks
  PROVE  DriverInv'
  <1> DEFINE s == last.spec
             q == work.calls
             c == Head(work.calls)
             again == IF kind = "monitoring.check" THEN CheckAgain(c, world) ELSE <<>>
  <1>1. Calling /\ q # <<>> /\ work.at \in {"apply", "undoing"} /\ work.at # "idle"
    BY DEF CallWorks, Calling
  <1>2. /\ kind \in Kind /\ last.end = "open" /\ s \in SpecsOf[kind]
        /\ last = [spec |-> last.spec, lossy |-> last.lossy, end |-> last.end, hit |-> last.hit, moved |-> last.moved]
        /\ Sound(world) /\ Sound(was) /\ AllProper(s, q)
        /\ Tidy(last.lossy, q, world) /\ last.lossy \in BOOLEAN
        /\ last.hit \in BOOLEAN /\ last.moved \in BOOLEAN /\ work.err \in BOOLEAN
        /\ ~last.lossy /\ ~last.moved => Since(s, was, world) /\ Tidy(FALSE, q, world)
    BY <1>1, AtWork
  <1>3. UNCHANGED <<kind, ckpts, was>>  BY DEF CallWorks
  <1>4. ~last.hit /\ ~last.moved /\ ~last.lossy /\ NamedNetworks /\ work.at = "apply"
          => Way(s, work.steps, q, world)
    BY DEF DriverInv, GoingOn
  <1>5. ~last.moved /\ ~last.lossy /\ NamedNetworks /\ work.at = "undoing" /\ work.left = 0 /\ ~work.err
          => Back(s, was, q, world)
    BY DEF DriverInv, GoingBack
  <1>6. Proper(s, c) /\ AllProper(s, Tail(q))  BY <1>1, <1>2, HeadIsProper
  <1>7. \A x \in Leaves(c, world) :
          Sound(x) /\ Tidy(last.lossy, <<>>, x) /\ (x \in DriverEffect(c, world) => Tidy(last.lossy, Tail(q), x))
    BY <1>1, <1>2, CallLeaves
  <1>8. world \in Leaves(c, world) /\ DriverEffect(c, world) \subseteq Leaves(c, world)  BY DEF Leaves
  <1>9. c.soft => DriverEffect(c, world) # {}  BY <1>2, <1>6, SoftCallsWork
  <1>10. \/ world' \in DriverEffect(c, world) /\ GoesOn(Tail(q)) /\ UNCHANGED last
         \/ DriverEffect(c, world) = {} /\ again # <<>> /\ GoesOn(again) /\ UNCHANGED <<world, last>>
         \/ DriverEffect(c, world) = {} /\ c.soft
         \/ DriverEffect(c, world) = {} /\ GivesUp /\ UNCHANGED world
    <2> HIDE DEF again
    <2> QED  BY DEF CallWorks, again
  <1>11. CASE world' \in DriverEffect(c, world) /\ GoesOn(Tail(q)) /\ UNCHANGED last
    <2>1. world' \in Leaves(c, world)  BY <1>8, <1>11
    <2>2. Sound(world') /\ Tidy(last.lossy, Tail(q), world')  BY <1>7, <1>11, <2>1
    <2>3. ~last.lossy /\ ~last.moved => Since(s, was, world')
      BY <1>1, <1>2, <2>1, CallKeepsSince
    <2>4. ~last.hit /\ ~last.moved /\ ~last.lossy /\ NamedNetworks /\ work.at = "apply"
            => Way(s, work.steps, Tail(q), world')
      BY <1>1, <1>2, <1>4, <1>11, WayGoesOn
    <2>5. ~last.moved /\ ~last.lossy /\ NamedNetworks /\ work.at = "undoing" /\ work.left = 0 /\ ~work.err
            => Back(s, was, Tail(q), world')
      BY <1>1, <1>2, <1>5, <1>11, BackGoesOn
    <2> QED  BY <1>1, <1>2, <1>3, <1>6, <1>11, <2>2, <2>3, <2>4, <2>5, GoesOnKeepsInv
  <1>12. CASE DriverEffect(c, world) = {} /\ again # <<>> /\ GoesOn(again) /\ UNCHANGED <<world, last>>
    <2>1. kind = "monitoring.check" /\ again = CheckAgain(c, world)  BY <1>12
    <2> HIDE DEF again
    <2>2. AllProper(s, again)  BY <2>1, ProbesAreProper
    <2>3. Tidy(last.lossy, again, world)  BY <2>1 DEF Tidy
    <2>4. Way(s, work.steps, again, world)  BY <2>1 DEF Way
    <2>5. ~(~last.moved /\ ~last.lossy /\ NamedNetworks /\ work.at = "undoing" /\ work.left = 0 /\ ~work.err)
      BY <1>1, <1>5, <2>1 DEF Back
    <2> QED  BY <1>1, <1>2, <1>3, <1>12, <2>2, <2>3, <2>4, <2>5, GoesOnKeepsInv
  <1>13. CASE DriverEffect(c, world) = {} /\ c.soft  BY <1>9, <1>13
  <1>14. CASE DriverEffect(c, world) = {} /\ GivesUp /\ UNCHANGED world
    <2>1. Sound(world') /\ Tidy(last.lossy, <<>>, world')  BY <1>7, <1>8, <1>14
    <2>2. ~last.lossy /\ ~last.moved => Since(s, was, world')  BY <1>2, <1>14
    <2>3. CASE work.at = "apply"
      <3>1. work' = Resting /\ last' = [last EXCEPT !.end = "failed"]  BY <1>14, <2>3 DEF GivesUp, End
      <3>2. last' = [spec |-> s, lossy |-> last.lossy, end |-> "failed", hit |-> last.hit, moved |-> last.moved]
        BY <1>2, <3>1
      <3>3. NamedNetworks => RetrySucceeds'
        <4>1. ~last.hit /\ ~last.moved /\ ~last.lossy /\ NamedNetworks
                => kind = "monitoring.check" \/ (kind = "sysctl.setting" /\ world.val = Gone)
          BY <1>1, <1>2, <1>4, <1>14, <2>3, WayGoesOn
        <4> QED  BY <1>3, <1>14, <3>2, <4>1 DEF RetrySucceeds
      <3>4. UndoRestores'  BY <3>2 DEF UndoRestores
      <3> QED  BY <1>1, <1>2, <1>3, <2>1, <2>2, <3>1, <3>2, <3>3, <3>4, RestKeepsInv
    <2>4. CASE work.at = "undoing"
      <3>1. work' = [work EXCEPT !.at = "undo", !.calls = <<>>, !.err = TRUE] /\ UNCHANGED last
        BY <1>14, <2>4 DEF GivesUp
      <3> QED  BY <1>2, <1>3, <2>1, <2>2, <2>4, <3>1, NotedKeepsInv
    <2> QED  BY <1>1, <2>3, <2>4
  <1> QED  BY <1>10, <1>11, <1>12, <1>13, <1>14

LEMMA LastChanges ==
  ASSUME NEW r, r = [spec |-> r.spec, lossy |-> r.lossy, end |-> r.end, hit |-> r.hit, moved |-> r.moved], NEW a, NEW v
  PROVE  /\ [r EXCEPT !.hit = a, !.lossy = v]
              = [spec |-> r.spec, lossy |-> v, end |-> r.end, hit |-> a, moved |-> r.moved]
         /\ [r EXCEPT !.hit = a, !.end = v]
              = [spec |-> r.spec, lossy |-> r.lossy, end |-> v, hit |-> a, moved |-> r.moved]
         /\ [r EXCEPT !.end = v]
              = [spec |-> r.spec, lossy |-> r.lossy, end |-> v, hit |-> r.hit, moved |-> r.moved]
  <1> DEFINE m == [r EXCEPT !.hit = a]
  <1>1. m = [spec |-> r.spec, lossy |-> r.lossy, end |-> r.end, hit |-> a, moved |-> r.moved]  OBVIOUS
  <1>2. [r EXCEPT !.hit = a, !.lossy = v] = [m EXCEPT !.lossy = v]  OBVIOUS
  <1>3. [r EXCEPT !.hit = a, !.end = v] = [m EXCEPT !.end = v]  OBVIOUS
  <1> HIDE DEF m
  <1>4. [m EXCEPT !.lossy = v] = [spec |-> r.spec, lossy |-> v, end |-> r.end, hit |-> a, moved |-> r.moved]  BY <1>1
  <1>5. [m EXCEPT !.end = v] = [spec |-> r.spec, lossy |-> r.lossy, end |-> v, hit |-> a, moved |-> r.moved]  BY <1>1
  <1> QED  BY <1>2, <1>3, <1>4, <1>5

LEMMA NothingToCallKeepsInv ==
  ASSUME DriverInv, NothingToCall
  PROVE  DriverInv'
  <1>1. Calling /\ work.calls = <<>> /\ GoesOn(<<>>) /\ work.at # "idle"  BY DEF NothingToCall, Calling
  <1>2. UNCHANGED <<kind, world, ckpts, was, last>>  BY DEF NothingToCall
  <1>3. /\ last = [spec |-> last.spec, lossy |-> last.lossy, end |-> last.end, hit |-> last.hit, moved |-> last.moved]
        /\ Sound(world) /\ AllProper(last.spec, <<>>) /\ Tidy(last.lossy, <<>>, world)
        /\ last.lossy \in BOOLEAN /\ last.hit \in BOOLEAN
        /\ ~last.lossy /\ ~last.moved => Since(last.spec, was, world)
    BY <1>1, AtWork
  <1>4. ~last.hit /\ ~last.moved /\ ~last.lossy /\ NamedNetworks /\ work.at = "apply"
          => Way(last.spec, work.steps, <<>>, world)
    BY <1>1 DEF DriverInv, GoingOn
  <1>5. ~last.moved /\ ~last.lossy /\ NamedNetworks /\ work.at = "undoing" /\ work.left = 0 /\ ~work.err
          => Back(last.spec, was, <<>>, world)
    BY <1>1 DEF DriverInv, GoingBack
  <1> QED  BY <1>1, <1>2, <1>3, <1>4, <1>5, GoesOnKeepsInv

\* A failure that goes unnoticed is not of a container's call, and leaves what
\* may be there.
LEMMA UnnoticedIsSound ==
  ASSUME RulesStayPut, kind \in Kind, NEW s \in SpecsOf[kind], Sound(world),
         NEW q, AllProper(s, q), q # <<>>, NEW b \in BOOLEAN, Tidy(b, q, world), Unnoticed(Head(q))
  PROVE  Sound(world') /\ Tidy(TRUE, Tail(q), world')
  <1>1. Proper(s, Head(q))  BY HeadIsProper
  <1>2. world \in Leaves(Head(q), world)  BY DEF Leaves
  <1>3. world' \in Leaves(Head(q), world)  BY <1>2 DEF Unnoticed
  <1>4. Sound(world')  BY <1>3, CallLeaves
  <1>5. kind # "docker.container"  BY <1>1 DEF Unnoticed, Proper, ContainerCall
  <1>6. Tidy(TRUE, Tail(q), world')  BY <1>5 DEF Tidy
  <1> QED  BY <1>4, <1>6

LEMMA CallFailsKeepsInv ==
  ASSUME RulesStayPut, DriverInv, CallFails
  PROVE  DriverInv'
  <1> DEFINE s == last.spec
             q == work.calls
             c == Head(work.calls)
  <1>1. Calling /\ q # <<>> /\ work.at \in {"apply", "undoing"} /\ work.at # "idle"
    BY DEF CallFails, Calling
  <1>2. /\ kind \in Kind /\ last.end = "open" /\ s \in SpecsOf[kind]
        /\ last = [spec |-> last.spec, lossy |-> last.lossy, end |-> last.end, hit |-> last.hit, moved |-> last.moved]
        /\ Sound(world) /\ Sound(was) /\ AllProper(s, q)
        /\ Tidy(last.lossy, q, world) /\ last.lossy \in BOOLEAN
        /\ last.hit \in BOOLEAN /\ last.moved \in BOOLEAN /\ work.err \in BOOLEAN
        /\ ~last.lossy /\ ~last.moved => Since(s, was, world) /\ Tidy(FALSE, q, world)
    BY <1>1, AtWork
  <1>3. UNCHANGED <<kind, ckpts, was>>  BY DEF CallFails
  <1>4. CASE Unnoticed(c) /\ GoesOn(Tail(q)) /\ last' = [last EXCEPT !.hit = TRUE, !.lossy = TRUE]
    <2>1. last' = [spec |-> s, lossy |-> TRUE, end |-> last.end, hit |-> TRUE, moved |-> last.moved]
      BY <1>2, <1>4, LastChanges
    <2>2. AllProper(s, Tail(q))  BY <1>1, <1>2, HeadIsProper
    <2>3. Sound(world') /\ Tidy(TRUE, Tail(q), world')  BY <1>1, <1>2, <1>4, UnnoticedIsSound
    <2> QED  BY <1>1, <1>2, <1>3, <1>4, <2>1, <2>2, <2>3, GoesOnKeepsInv
  <1>5. CASE /\ world' \in Leaves(c, world)
             /\ IF work.at = "apply" THEN work' = Resting
                ELSE work' = [work EXCEPT !.at = "undo", !.calls = <<>>, !.err = TRUE]
             /\ last' = [last EXCEPT !.hit = TRUE, !.end = IF work.at = "apply" THEN "failed" ELSE @]
    <2> DEFINE how == IF work.at = "apply" THEN "failed" ELSE last.end
    <2>1. last' = [spec |-> s, lossy |-> last.lossy, end |-> how, hit |-> TRUE, moved |-> last.moved]
      <3>1. last' = [last EXCEPT !.hit = TRUE, !.end = how]  BY <1>5
      <3> HIDE DEF how
      <3> QED  BY <1>2, <3>1, LastChanges
    <2>2. Sound(world') /\ Tidy(last.lossy, <<>>, world')  BY <1>1, <1>2, <1>5, CallLeaves
    <2>3. ~last.lossy /\ ~last.moved => Since(s, was, world')  BY <1>1, <1>2, <1>5, CallKeepsSince
    <2>4. CASE work.at = "apply"
      <3>1. work' = Resting /\ last'.end = "failed"  BY <1>5, <2>1, <2>4
      <3>2. UndoRestores' /\ RetrySucceeds'  BY <2>1, <3>1 DEF UndoRestores, RetrySucceeds
      <3> QED  BY <1>1, <1>3, <2>1, <2>2, <2>3, <3>1, <3>2, RestKeepsInv
    <2>5. CASE work.at = "undoing"
      <3>1. work' = [work EXCEPT !.at = "undo", !.calls = <<>>, !.err = TRUE] /\ last'.end = last.end
        BY <1>5, <2>1, <2>5
      <3> QED  BY <1>3, <2>1, <2>2, <2>3, <2>5, <3>1, NotedKeepsInv
    <2> QED  BY <1>1, <2>4, <2>5
  <1> QED  BY <1>4, <1>5 DEF CallFails

LEMMA StopsKeepsInv ==
  ASSUME RulesStayPut, DriverInv, Stops
  PROVE  DriverInv'
  <1> DEFINE s == last.spec
             q == work.calls
  <1>1. /\ work.at # "idle" /\ work' = Resting /\ UNCHANGED <<kind, ckpts, was>>
        /\ last' = [last EXCEPT !.hit = TRUE, !.end = "stopped"]
        /\ world' = world \/ (q # <<>> /\ world' \in Leaves(Head(q), world))
    BY DEF Stops
  <1>2. /\ kind \in Kind /\ last.end = "open" /\ s \in SpecsOf[kind]
        /\ last = [spec |-> last.spec, lossy |-> last.lossy, end |-> last.end, hit |-> last.hit, moved |-> last.moved]
        /\ Sound(world) /\ Sound(was) /\ AllProper(s, q)
        /\ Tidy(last.lossy, q, world) /\ last.lossy \in BOOLEAN
        /\ ~last.lossy /\ ~last.moved => Since(s, was, world) /\ Tidy(FALSE, q, world)
    BY <1>1, AtWork
  <1>3. last' = [spec |-> s, lossy |-> last.lossy, end |-> "stopped", hit |-> TRUE, moved |-> last.moved]
    BY <1>1, <1>2, LastChanges
  <1>4. Sound(world') /\ Tidy(last.lossy, <<>>, world')
    <2>1. CASE q # <<>>
      <3>1. world \in Leaves(Head(q), world)  BY DEF Leaves
      <3>2. world' \in Leaves(Head(q), world)  BY <1>1, <3>1
      <3> QED  BY <1>2, <2>1, <3>2, CallLeaves
    <2>2. CASE q = <<>>  BY <1>1, <1>2, <2>2
    <2> QED  BY <2>1, <2>2
  <1>5. ~last.lossy /\ ~last.moved => Since(s, was, world')  BY <1>1, <1>2, CallKeepsSince
  <1>6. UndoRestores' /\ RetrySucceeds'  BY <1>3 DEF UndoRestores, RetrySucceeds
  <1> QED  BY <1>1, <1>3, <1>4, <1>5, <1>6, RestKeepsInv

LEMMA MovesKeepsInv ==
  ASSUME RulesStayPut, DriverInv, Moves
  PROVE  DriverInv'
  <1>1. UNCHANGED <<kind, work, ckpts, was>> /\ world' \in Outside(world) /\ last' = [last EXCEPT !.moved = TRUE]
    BY DEF Moves
  <1>2. /\ last = [spec |-> last.spec, lossy |-> last.lossy, end |-> last.end, hit |-> last.hit, moved |-> last.moved]
        /\ kind \in Kind /\ Sound(world) /\ Sound(was) /\ Tidy(last.lossy, work.calls, world)
        /\ last.lossy \in BOOLEAN /\ WorkOK /\ LastOK
    BY DEF DriverInv, LastOK, PartsOK
  <1>3. last' = [spec |-> last.spec, lossy |-> last.lossy, end |-> last.end, hit |-> last.hit, moved |-> TRUE]
    BY <1>1, <1>2
  <1>4. Sound(world') /\ Tidy(last.lossy, work.calls, world')  BY <1>1, <1>2, ChangesFromOutside
  <1>5. WorkOK'  BY <1>1, <1>2 DEF WorkOK
  <1>6. LastOK'  BY <1>1, <1>2, <1>3 DEF LastOK
  <1>7. PartsOK'
    <2>1. PartsOK  BY DEF DriverInv
    <2> QED  BY <1>1, <1>2, <1>3, <1>4, <2>1, KindStays DEF PartsOK
  <1>8. GoingOn' /\ FirstKept' /\ GoingBack'  BY <1>3 DEF GoingOn, FirstKept, GoingBack
  <1>9. UndoRestores' /\ RetrySucceeds' /\ last'.moved  BY <1>3 DEF UndoRestores, RetrySucceeds
  <1> QED  BY <1>1, <1>2, <1>5, <1>6, <1>7, <1>8, <1>9 DEF DriverInv

LEMMA UndoBeginsKeepsInv ==
  ASSUME DriverInv, UndoBegins
  PROVE  DriverInv'
  <1>1. /\ work.at = "idle" /\ ckpts # <<>> /\ UNCHANGED <<kind, world, was, ckpts>>
        /\ work' = [Resting EXCEPT !.at = "undo", !.left = Len(ckpts)]
        /\ last' = [last EXCEPT !.end = "open"]
    BY DEF UndoBegins
  <1>2. /\ kind \in Kind /\ Sound(world) /\ Sound(was) /\ Tidy(last.lossy, <<>>, world)
        /\ last = [spec |-> last.spec, lossy |-> last.lossy, end |-> last.end, hit |-> last.hit, moved |-> last.moved]
        /\ last.lossy \in BOOLEAN /\ last.hit \in BOOLEAN /\ last.moved \in BOOLEAN
        /\ last.end # "none" /\ last.spec \in SpecsOf[kind] /\ IsSeq(ckpts)
    BY <1>1, RestingFields DEF DriverInv, WorkOK, LastOK, PartsOK
  <1>3. last' = [spec |-> last.spec, lossy |-> last.lossy, end |-> "open", hit |-> last.hit, moved |-> last.moved]
    BY <1>1, <1>2, LastChanges
  <1>4. work' = [steps |-> <<>>, left |-> Len(ckpts), err |-> FALSE, at |-> "undo", calls |-> <<>>]
    <2> DEFINE r == Resting
    <2>1. /\ r = [steps |-> r.steps, left |-> r.left, err |-> r.err, at |-> r.at, calls |-> r.calls]
          /\ r.steps = <<>> /\ r.err = FALSE /\ r.calls = <<>>
      BY RestingFields
    <2>2. work' = [r EXCEPT !.at = "undo", !.left = Len(ckpts)]  BY <1>1
    <2> HIDE DEF r
    <2> QED  BY <2>1, <2>2, WorkChanges
  <1>5. Len(ckpts) \in Nat /\ Len(ckpts) # 0 /\ Len(ckpts) <= Len(ckpts)  BY <1>1, <1>2 DEF IsSeq
  <1>6. IsSeq(<<>>) /\ DOMAIN <<>> = {}  BY ShortSeqs
  <1>7. WorkOK'
    <2> DEFINE n == Len(ckpts)
               z == <<>>
    <2>1. work' = [steps |-> z, left |-> n, err |-> FALSE, at |-> "undo", calls |-> z] /\ IsSeq(z) /\ z = <<>>
          /\ n \in Nat /\ n <= Len(ckpts) /\ IsSeq(ckpts) /\ ckpts' = ckpts
      BY <1>1, <1>2, <1>4, <1>5, <1>6
    <2> HIDE DEF n, z
    <2> QED  BY <2>1 DEF WorkOK
  <1>8. LastOK'  BY <1>1, <1>2, <1>3 DEF LastOK
  <1>9. PartsOK'
    <2>1. \A i \in DOMAIN ckpts : Kept(last.spec, ckpts[i])  BY DEF DriverInv, PartsOK
    <2>2. work'.calls = <<>> /\ DOMAIN work'.calls = {} /\ DOMAIN work'.steps = {}  BY <1>4, <1>6
    <2> QED  BY <1>1, <1>2, <1>3, <2>1, <2>2, KindStays DEF PartsOK
  <1>10. GoingOn'  BY <1>4 DEF GoingOn
  <1>11. FirstKept'  BY <1>1, <1>3, <1>4, KindStays DEF DriverInv, FirstKept
  <1>12. GoingBack'  BY <1>1, <1>2, <1>3, <1>4, <1>5, KindStays DEF DriverInv, GoingBack
  <1>13. UndoRestores' /\ RetrySucceeds' /\ last'.end # "applied"
    BY <1>3 DEF UndoRestores, RetrySucceeds
  <1> QED  BY <1>1, <1>2, <1>7, <1>8, <1>9, <1>10, <1>11, <1>12, <1>13 DEF DriverInv

LEMMA UndoTakesKeepsInv ==
  ASSUME RulesStayPut, DriverInv, UndoTakes
  PROVE  DriverInv'
  <1> DEFINE s == last.spec
             v == ckpts[work.left]
             q == DriverUndo(s, v, world)
             n == work.left - 1
  <1>1. work.at = "undo" /\ work.left > 0 /\ UNCHANGED <<kind, world, was, ckpts, last>>  BY DEF UndoTakes
  <1>2. /\ kind \in Kind /\ last.end = "open" /\ s \in SpecsOf[kind]
        /\ work = [steps |-> work.steps, left |-> work.left, err |-> work.err, at |-> work.at, calls |-> work.calls]
        /\ IsSeq(work.steps) /\ IsSeq(ckpts) /\ work.left \in Nat /\ work.left <= Len(ckpts)
        /\ Sound(world) /\ Sound(was) /\ Tidy(last.lossy, <<>>, world) /\ last.lossy \in BOOLEAN
        /\ work.err \in BOOLEAN /\ work.calls = <<>>
    BY <1>1, AtWork
  <1>3. work' = [steps |-> work.steps, left |-> n, err |-> work.err, at |-> "undoing", calls |-> q]
    <2>1. work' = [work EXCEPT !.at = "undoing", !.left = n, !.calls = q]  BY DEF UndoTakes
    <2> HIDE DEF n, q
    <2> QED  BY <1>2, <2>1, WorkChanges
  <1>4. n \in Nat /\ n <= Len(ckpts) /\ (n = 0 => work.left = 1)  BY <1>1, <1>2 DEF IsSeq
  <1>5. work.left \in DOMAIN ckpts /\ ckpts # <<>>
    <2>1. DOMAIN ckpts = 1..Len(ckpts)  BY <1>2 DEF IsSeq
    <2>2. work.left \in DOMAIN ckpts  BY <1>1, <1>2, <2>1 DEF IsSeq
    <2> QED  BY <2>2, ShortSeqs
  <1>6. Kept(s, v)  BY <1>5 DEF DriverInv, PartsOK
  <1> HIDE DEF v
  <1>7. AllProper(s, q) /\ Tidy(last.lossy, q, world)  BY <1>2, <1>6, UndoIsProper
  <1>8. ~last.moved /\ ~last.lossy /\ NamedNetworks /\ n = 0 => Back(s, was, q, world)
    <2>1. ~last.moved /\ n = 0 => v = DriverSaved(s, was)
      BY <1>1, <1>4, <1>5 DEF DriverInv, FirstKept, v
    <2> QED  BY <1>2, <2>1, BackBegins
  <1> HIDE DEF q, n
  <1>9. WorkOK'  BY <1>1, <1>2, <1>3, <1>4, <1>7 DEF WorkOK, AllProper
  <1>10. LastOK'  BY <1>1, <1>2, <1>3 DEF LastOK, DriverInv
  <1>11. PartsOK'
    <2>1. /\ \A i \in DOMAIN ckpts : Kept(s, ckpts[i])
          /\ \A i \in DOMAIN work.steps : StepOf(s, work.steps[i])
      BY DEF DriverInv, PartsOK
    <2> QED  BY <1>1, <1>2, <1>3, <1>7, <2>1, KindStays DEF PartsOK, AllProper
  <1>12. GoingOn'  BY <1>3 DEF GoingOn
  <1>13. FirstKept'  BY <1>1, <1>3, KindStays DEF DriverInv, FirstKept
  <1>14. GoingBack'  BY <1>1, <1>2, <1>3, <1>8, KindStays DEF DriverInv, GoingBack
  <1>15. UndoRestores' /\ RetrySucceeds' /\ last'.end # "applied"
    BY <1>1, <1>2 DEF UndoRestores, RetrySucceeds
  <1> QED  BY <1>1, <1>2, <1>9, <1>10, <1>11, <1>12, <1>13, <1>14, <1>15 DEF DriverInv

LEMMA UndoEndsKeepsInv ==
  ASSUME RulesStayPut, DriverInv, UndoEnds
  PROVE  DriverInv'
  <1> DEFINE s == last.spec
             how == IF work.err THEN "stuck" ELSE "undone"
  <1>1. /\ work.at = "undo" /\ work.at # "idle" /\ work.left = 0 /\ work' = Resting
        /\ UNCHANGED <<kind, world, was, ckpts>> /\ last' = [last EXCEPT !.end = how]
    BY DEF UndoEnds, End
  <1>2. /\ kind \in Kind /\ s \in SpecsOf[kind]
        /\ last = [spec |-> last.spec, lossy |-> last.lossy, end |-> last.end, hit |-> last.hit, moved |-> last.moved]
        /\ Sound(world) /\ Sound(was) /\ Tidy(last.lossy, <<>>, world)
        /\ last.hit \in BOOLEAN /\ last.lossy \in BOOLEAN /\ last.moved \in BOOLEAN /\ work.err \in BOOLEAN
        /\ ~last.lossy /\ ~last.moved => Since(s, was, world)
        /\ work.calls = <<>>
    BY <1>1, AtWork
  <1>3. how \in {"stuck", "undone"} /\ (how = "undone" => ~work.err)  BY <1>2
  <1> HIDE DEF how
  <1>4. last' = [spec |-> s, lossy |-> last.lossy, end |-> how, hit |-> last.hit, moved |-> last.moved]
    BY <1>1, <1>2, LastChanges
  <1>5. NamedNetworks => UndoRestores'
    <2>1. SUFFICES ASSUME NamedNetworks, how = "undone", ~last.moved, ~last.lossy  PROVE Again(was, world)
      BY <1>1, <1>4, KindStays DEF UndoRestores
    <2>2. Back(s, was, <<>>, world)  BY <1>1, <1>2, <1>3, <2>1 DEF DriverInv, GoingBack
    <2> QED  BY <1>2, <2>1, <2>2, BackEnds
  <1>6. RetrySucceeds'  BY <1>3, <1>4 DEF RetrySucceeds
  <1> QED  BY <1>1, <1>2, <1>3, <1>4, <1>5, <1>6, RestKeepsInv

LEMMA DriverInvBegins ==
  ASSUME RulesStayPut, DriversInit
  PROVE  DriverInv
  <1>1. /\ kind \in Kind /\ world \in WorldsOf[kind] /\ work = Resting /\ ckpts = <<>> /\ was = world
        /\ last = [spec |-> Gone, lossy |-> FALSE, end |-> "none", hit |-> FALSE, moved |-> FALSE]
    BY DEF DriversInit
  <1>2. Sound(world) /\ Tidy(FALSE, <<>>, world)  BY <1>1, WorldsAreSound
  <1>3. IsSeq(<<>>) /\ Len(<<>>) = 0 /\ DOMAIN <<>> = {}  BY ShortSeqs
  <1>4. WorkOK  BY <1>1, <1>3 DEF WorkOK, Resting
  <1>5. LastOK  BY <1>1, RestingFields DEF LastOK
  <1>6. PartsOK  BY <1>1, <1>2, <1>3, RestingFields DEF PartsOK
  <1>7. GoingOn /\ FirstKept /\ GoingBack  BY <1>1, RestingFields DEF GoingOn, FirstKept, GoingBack
  <1>8. UndoRestores /\ RetrySucceeds /\ last.end # "applied"  BY <1>1 DEF UndoRestores, RetrySucceeds
  <1> QED  BY <1>1, <1>4, <1>5, <1>6, <1>7, <1>8 DEF DriverInv

LEMMA DriverInvStays ==
  ASSUME RulesStayPut, DriverInv, [DriversNext]_driverVars
  PROVE  DriverInv'
  <1>1. CASE \E s \in SpecsOf[kind] : ApplyBegins(s)  BY <1>1, ApplyBeginsKeepsInv
  <1>2. CASE StepBegins  BY <1>2, StepBeginsKeepsInv
  <1>3. CASE CallWorks  BY <1>3, CallWorksKeepsInv
  <1>4. CASE NothingToCall  BY <1>4, NothingToCallKeepsInv
  <1>5. CASE Verified  BY <1>5, VerifiedKeepsInv
  <1>6. CASE CallFails  BY <1>6, CallFailsKeepsInv
  <1>7. CASE Stops  BY <1>7, StopsKeepsInv
  <1>8. CASE Moves  BY <1>8, MovesKeepsInv
  <1>9. CASE UndoBegins  BY <1>9, UndoBeginsKeepsInv
  <1>10. CASE UndoTakes  BY <1>10, UndoTakesKeepsInv
  <1>11. CASE UndoEnds  BY <1>11, UndoEndsKeepsInv
  <1>12. CASE UNCHANGED driverVars
    <2>1. UNCHANGED <<kind, world, work, ckpts, was, last>>  BY <1>12 DEF driverVars
    <2>2. WorkOK' /\ LastOK'  BY <2>1 DEF DriverInv, WorkOK, LastOK
    <2>3. PartsOK'  BY <2>1, KindStays DEF DriverInv, PartsOK
    <2>4. GoingOn' /\ FirstKept' /\ GoingBack'
      BY <2>1, KindStays DEF DriverInv, GoingOn, FirstKept, GoingBack
    <2>5. NamedNetworks => UndoRestores' /\ RetrySucceeds'
      BY <2>1, KindStays DEF DriverInv, UndoRestores, RetrySucceeds
    <2>6. (last.end = "applied" /\ ~last.moved => ~DriverDiffers(last.spec, world))'
      BY <2>1, KindStays DEF DriverInv
    <2> QED  BY <2>1, <2>2, <2>3, <2>4, <2>5, <2>6 DEF DriverInv
  <1> QED  BY <1>1, <1>2, <1>3, <1>4, <1>5, <1>6, <1>7, <1>8, <1>9, <1>10, <1>11, <1>12 DEF DriversNext

(***************************************************************************)
(* Theorems.                                                               *)
(***************************************************************************)

LEMMA RulesStillStay ==
  ASSUME [DriversNext]_driverVars, RulesStayPut'
  PROVE  RulesStayPut
  <1>1. kind' = kind
    BY DEF DriversNext, driverVars, ApplyBegins, StepBegins, CallWorks, NothingToCall, Verified,
           CallFails, Stops, Moves, UndoBegins, UndoTakes, UndoEnds
  <1> QED  BY <1>1 DEF RulesStayPut, AllAtHome, OneRule, AtHome

\* Whatever fails or stops: hosts are sound, the calls of an apply to come lead
\* to its spec, and those of a rollback back to the host the apply began with; of
\* the firewall provider only under RulesStayPut (DriverInv; the actions of
\* Drivers, crates/iac-providers).
THEOREM DriverInvariant == DriversSpec => [](RulesStayPut => DriverInv)
  <1>1. DriversInit => (RulesStayPut => DriverInv)  BY DriverInvBegins
  <1>2. (RulesStayPut => DriverInv) /\ [DriversNext]_driverVars => (RulesStayPut => DriverInv)'
    BY DriverInvStays, RulesStillStay
  <1> QED  BY <1>1, <1>2, PTL DEF DriversSpec

\* An apply that reports success has left a resource that conforms to its spec,
\* whatever had failed or been cut off before it: for nine of the ten providers
\* without conditions on specs and hosts, for the firewall provider if rules keep
\* their table and chain, no name is a prefix of another and no host begins with
\* two rules of a name (OkMeansConforms; the observe and diff of the providers).
THEOREM OkMeansConformsCorrect == DriversSpec => [](RulesStayPut => OkMeansConforms)
  <1>1. RulesStayPut /\ DriverInv => OkMeansConforms
    <2>1. SUFFICES ASSUME RulesStayPut, DriverInv, last.end = "applied", ~last.moved
                  PROVE  Conforms(last.spec, world)
      BY DEF OkMeansConforms
    <2>2. kind \in Kind /\ last.spec \in SpecsOf[kind] /\ work = Resting /\ Sound(world)
          /\ Tidy(last.lossy, work.calls, world) /\ ~DriverDiffers(last.spec, world)
      BY <2>1 DEF DriverInv, WorkOK, LastOK, PartsOK
    <2>3. Tidy(last.lossy, <<>>, world)  BY <2>2, RestingFields
    <2> QED  BY <2>1, <2>2, <2>3, ConformsUnlessDifferent
  <1> QED  BY <1>1, DriverInvariant, PTL

\* A rollback that reports success has put back what the apply changed, however
\* often it was cut off and begun again, under the same condition on firewall
\* rules, and without docker's default network beside named ones (UndoRestores;
\* rollback of the providers).
THEOREM UndoRestoresCorrect ==
  ASSUME NamedNetworks
  PROVE  DriversSpec => [](RulesStayPut => UndoRestores)
  <1>1. DriverInv => UndoRestores  BY DEF DriverInv
  <1> QED  BY <1>1, DriverInvariant, PTL

\* An apply in which nothing fails succeeds from whatever an apply or a rollback
\* has left behind, under the same conditions (RetrySucceeds; plan and apply of
\* the providers).
THEOREM RetrySucceedsCorrect ==
  ASSUME NamedNetworks
  PROVE  DriversSpec => [](RulesStayPut => RetrySucceeds)
  <1>1. DriverInv => RetrySucceeds  BY DEF DriverInv
  <1> QED  BY <1>1, DriverInvariant, PTL

=============================================================================
