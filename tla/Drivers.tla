------------------------------- MODULE Drivers ------------------------------
(***************************************************************************)
(* The life of one resource under one of the providers of Containers,      *)
(* NetDrivers and HostDrivers: applies with one spec after another and     *)
(* rollbacks of the last one, call by call.  Every call of a backend may   *)
(* fail, with or without its effect, and the process may stop between any  *)
(* two of them.  Executor has several resources and takes a step as one.   *)
(***************************************************************************)
EXTENDS HostDrivers

CONSTANTS
  Kind,      \* the providers
  SpecsOf,   \* per provider, the specs that are applied
  WorldsOf,  \* per provider, the hosts to begin with
  MaxApply,  \* bound: applies
  MaxUpset   \* bound: calls that fail, stops and changes from outside

ValidSpec(k, s) ==
  CASE k = "docker.container" -> ValidContainer(s)
    [] k = "docker.compose"   -> ValidStack(s)
    [] k = "firewall.rule"    -> ValidRule(s)
    [] k = "dns.record"       -> ValidRecord(s)
    [] k = "cron.job"         -> ValidJob(s)
    [] k = "package"          -> ValidPackage(s)
    [] k = "plugin"           -> ValidObject(s)
    [] OTHER                  -> TRUE

\* What there may be on a host.
ValidHost(k, w) ==
  CASE k = "docker.container" -> ContainerHost(w)
    [] k = "docker.compose"   -> StackHost(w)
    [] k = "firewall.rule"    -> RuleHost(w)
    [] k = "dns.record"       -> RecordHost(w)
    [] k = "acme.certificate" -> CertHost(w)
    [] k = "monitoring.check" -> CheckHost(w)
    [] k = "cron.job"         -> JobHost(w)
    [] k = "package"          -> PackageHost(w)
    [] k = "sysctl.setting"   -> SettingHost(w)
    [] k = "plugin"           -> ObjectHost(w)

ASSUME DriversAssumption ==
  /\ MaxApply \in Nat /\ MaxUpset \in Nat
  /\ Kind \subseteq {"docker.container", "docker.compose", "firewall.rule", "dns.record", "acme.certificate",
                    "monitoring.check", "cron.job", "package", "sysctl.setting", "plugin"}
  /\ \A k \in Kind : (\A s \in SpecsOf[k] : ValidSpec(k, s)) /\ \A w \in WorldsOf[k] : ValidHost(k, w)

VARIABLES
  kind,    \* the provider of the resource
  world,   \* what it works on
  work,    \* the apply or rollback under way
  ckpts,   \* the checkpoints of the last apply
  applies, \* applies so far
  upsets,  \* failed calls, stops and changes from outside so far
  \* history
  was,     \* the world when the last apply began
  last     \* the spec of the last apply, how it or its rollback ended, and
           \* whether something failed (hit) or changed from outside (moved)
           \* meanwhile, or an error was ignored at any time (lossy)

driverVars == <<kind, world, work, ckpts, applies, upsets, was, last>>

(***************************************************************************)
(* The provider of the resource.                                           *)
(***************************************************************************)
DriverDiffers(s, w) ==
  CASE kind = "docker.container" -> ContainerDiffers(s, w)
    [] kind = "docker.compose"   -> StackDiffers(s, w)
    [] kind = "firewall.rule"    -> RuleDiffers(s, w)
    [] kind = "dns.record"       -> RecordDiffers(s, w)
    [] kind = "acme.certificate" -> CertDiffers(s, w)
    [] kind = "monitoring.check" -> CheckDiffers(s, w)
    [] kind = "cron.job"         -> JobDiffers(s, w)
    [] kind = "package"          -> PackageDiffers(s, w)
    [] kind = "sysctl.setting"   -> SettingDiffers(s, w)
    [] kind = "plugin"           -> ObjectDiffers(s, w)

DriverPlan(s, w) ==
  CASE kind = "docker.container" -> ContainerPlan(s)
    [] kind = "docker.compose"   -> StackPlan(s)
    [] kind = "firewall.rule"    -> RulePlan(s)
    [] kind = "dns.record"       -> RecordPlan(s, w)
    [] kind = "acme.certificate" -> CertPlan(s, w)
    [] kind = "monitoring.check" -> <<"verify">>
    [] kind = "cron.job"         -> JobPlan(s)
    [] kind = "package"          -> PackagePlan(s)
    [] kind = "sysctl.setting"   -> <<"set">>
    [] kind = "plugin"           -> ObjectPlan(s, w)

DriverCalls(s, step) ==
  CASE kind = "docker.container" -> ContainerCalls(s, step)
    [] kind = "docker.compose"   -> StackCalls(s, step)
    [] kind = "firewall.rule"    -> RuleCalls(s, step)
    [] kind = "dns.record"       -> RecordCalls(s, step)
    [] kind = "acme.certificate" -> CertCalls(step)
    [] kind = "monitoring.check" -> CheckCalls(s)
    [] kind = "cron.job"         -> JobCalls(s)
    [] kind = "package"          -> PackageCalls(s, step)
    [] kind = "sysctl.setting"   -> SettingCalls(s)
    [] kind = "plugin"           -> ObjectCalls(s, step)

DriverSaved(s, w) ==
  CASE kind = "docker.container" -> ContainerSaved(w)
    [] kind = "docker.compose"   -> StackSaved(w)
    [] kind = "firewall.rule"    -> RuleSaved(s, w)
    [] kind = "dns.record"       -> RecordSaved(w)
    [] kind = "acme.certificate" -> CertSaved(w)
    [] kind = "monitoring.check" -> Gone
    [] kind = "cron.job"         -> JobSaved(w)
    [] kind = "package"          -> PackageSaved(w)
    [] kind = "sysctl.setting"   -> SettingSaved(w)
    [] kind = "plugin"           -> ObjectSaved(w)

DriverUndo(s, saved, w) ==
  CASE kind = "docker.container" -> ContainerUndo(saved)
    [] kind = "docker.compose"   -> StackUndo(saved)
    [] kind = "firewall.rule"    -> RuleUndo(s, saved)
    [] kind = "dns.record"       -> RecordUndo(saved, w)
    [] kind = "acme.certificate" -> CertUndo(saved)
    [] kind = "monitoring.check" -> <<>>
    [] kind = "cron.job"         -> JobUndo(saved)
    [] kind = "package"          -> PackageUndo(saved, w)
    [] kind = "sysctl.setting"   -> SettingUndo(saved)
    [] kind = "plugin"           -> ObjectUndo(saved)

\* What a call that succeeds does; {}: it cannot.
DriverEffect(c, w) ==
  CASE kind = "docker.container" -> ContainerEffect(c, w)
    [] kind = "docker.compose"   -> StackEffect(c, w)
    [] kind = "firewall.rule"    -> RuleEffect(c, w)
    [] kind = "dns.record"       -> RecordEffect(c, w)
    [] kind = "acme.certificate" -> CertEffect(c, w)
    [] kind = "monitoring.check" -> CheckEffect(c, w)
    [] kind = "cron.job"         -> JobEffect(c, w)
    [] kind = "package"          -> PackageEffect(c, w)
    [] kind = "sysctl.setting"   -> SettingEffect(c, w)
    [] kind = "plugin"           -> ObjectEffect(c, w)

\* What a call that fails leaves: nothing, all of it (it timed out), some of it.
Leaves(c, w) ==
  {w} \union DriverEffect(c, w)
      \union (CASE kind = "docker.container" -> ContainerBroken(c, w)
                [] kind = "docker.compose"   -> StackBroken(c, w)
                [] kind = "package"          -> PackageBroken(c, w)
                [] OTHER                     -> {})

\* What changes by itself: a tag in the registry, a certificate, a target.
Outside(w) ==
  CASE kind = "docker.container" -> {[w EXCEPT !.reg[r] = @ + 1] : r \in DOMAIN w.reg}
    [] kind = "acme.certificate" -> CertAges(w)
    [] kind = "monitoring.check" -> {[w EXCEPT !.healthy = ~@]}
    [] OTHER                     -> {}

(***************************************************************************)
(* apply: observe, diff and plan; per step pre_apply, the checkpoint and   *)
(* the calls; verify.                                                      *)
(***************************************************************************)
Resting == [steps |-> <<>>, left |-> 0, err |-> FALSE, at |-> "idle", calls |-> <<>>]

DriversInit ==
  /\ kind \in Kind
  /\ world \in WorldsOf[kind]
  /\ work = Resting /\ ckpts = <<>> /\ applies = 0 /\ upsets = 0
  /\ was = world
  /\ last = [spec |-> Gone, lossy |-> FALSE, end |-> "none", hit |-> FALSE, moved |-> FALSE]

End(how) == last' = [last EXCEPT !.end = how]

ApplyBegins(s) ==
  /\ work.at = "idle" /\ applies < MaxApply
  /\ applies' = applies + 1
  /\ was' = world /\ ckpts' = <<>>
  /\ last' = [spec |-> s, lossy |-> last.lossy,
              end |-> IF DriverDiffers(s, world) THEN "open" ELSE "applied", hit |-> FALSE, moved |-> FALSE]
  /\ work' = IF DriverDiffers(s, world)
             THEN [Resting EXCEPT !.at = "step", !.steps = DriverPlan(s, world)] ELSE Resting
  /\ UNCHANGED <<kind, world, upsets>>

StepBegins ==
  /\ work.at = "step" /\ work.steps # <<>>
  /\ ckpts' = Append(ckpts, DriverSaved(last.spec, world))
  /\ work' = [work EXCEPT !.at = "apply", !.steps = Tail(@),
                          !.calls = DriverCalls(last.spec, Head(work.steps))]
  /\ UNCHANGED <<kind, world, applies, upsets, was, last>>

Verified ==
  /\ work.at = "step" /\ work.steps = <<>>
  /\ work' = Resting
  /\ End(IF DriverDiffers(last.spec, world) THEN "failed" ELSE "applied")
  /\ UNCHANGED <<kind, world, ckpts, applies, upsets, was>>

\* A call gives up an apply; a rollback notes it and takes the next checkpoint.
GivesUp ==
  IF work.at = "apply" THEN work' = Resting /\ End("failed")
  ELSE work' = [work EXCEPT !.at = "undo", !.calls = <<>>, !.err = TRUE] /\ UNCHANGED last

GoesOn(calls) ==
  work' = [work EXCEPT !.calls = calls,
                       !.at = IF calls # <<>> THEN @ ELSE IF @ = "apply" THEN "step" ELSE "undo"]

Calling == work.at \in {"apply", "undoing"}

CallWorks ==
  /\ Calling /\ work.calls # <<>>
  /\ LET c == Head(work.calls)
         again == IF kind = "monitoring.check" THEN CheckAgain(c, world) ELSE <<>>
     IN CASE DriverEffect(c, world) # {} ->
               world' \in DriverEffect(c, world) /\ GoesOn(Tail(work.calls)) /\ UNCHANGED last
          [] DriverEffect(c, world) = {} /\ again # <<>> ->
               GoesOn(again) /\ UNCHANGED <<world, last>>
          [] DriverEffect(c, world) = {} /\ again = <<>> /\ c.soft ->
               GoesOn(Tail(work.calls)) /\ UNCHANGED <<world, last>>
          [] OTHER -> GivesUp /\ UNCHANGED world
  /\ UNCHANGED <<kind, ckpts, applies, upsets, was>>

\* A step without calls (rollback of what needs none).
NothingToCall ==
  /\ Calling /\ work.calls = <<>> /\ GoesOn(<<>>)
  /\ UNCHANGED <<kind, world, ckpts, applies, upsets, was, last>>

Upset == upsets < MaxUpset /\ upsets' = upsets + 1

\* Failures that are not noticed: of a call whose result is dropped, and of the
\* listing before the deletion of a rule.
Unnoticed(c) ==
  \/ c.soft /\ world' \in Leaves(c, world)
  \/ c.op = "delete" /\ kind = "firewall.rule" /\ UNCHANGED world

CallFails ==
  /\ Calling /\ work.calls # <<>> /\ Upset
  /\ LET c == Head(work.calls)
     IN \/ /\ Unnoticed(c)
           /\ GoesOn(Tail(work.calls))
           /\ last' = [last EXCEPT !.hit = TRUE, !.lossy = TRUE]
        \/ /\ ~c.soft /\ world' \in Leaves(c, world)
           /\ IF work.at = "apply" THEN work' = Resting
              ELSE work' = [work EXCEPT !.at = "undo", !.calls = <<>>, !.err = TRUE]
           /\ last' = [last EXCEPT !.hit = TRUE, !.end = IF work.at = "apply" THEN "failed" ELSE @]
  /\ UNCHANGED <<kind, ckpts, applies, was>>

\* The process stops; the call it was in may have its effect.
Stops ==
  /\ work.at # "idle" /\ Upset
  /\ world' \in IF Calling /\ work.calls # <<>> THEN Leaves(Head(work.calls), world) ELSE {world}
  /\ work' = Resting
  /\ last' = [last EXCEPT !.hit = TRUE, !.end = "stopped"]
  /\ UNCHANGED <<kind, ckpts, applies, was>>

Moves ==
  /\ Upset /\ world' \in Outside(world)
  /\ last' = [last EXCEPT !.moved = TRUE]
  /\ UNCHANGED <<kind, work, ckpts, applies, was>>

(***************************************************************************)
(* rollback of the last apply: its checkpoints, the newest first.          *)
(***************************************************************************)
UndoBegins ==
  /\ work.at = "idle" /\ ckpts # <<>> /\ last.end # "undone"
  /\ work' = [Resting EXCEPT !.at = "undo", !.left = Len(ckpts)]
  /\ last' = [last EXCEPT !.end = "open"]
  /\ UNCHANGED <<kind, world, ckpts, applies, upsets, was>>

UndoTakes ==
  /\ work.at = "undo" /\ work.left > 0
  /\ work' = [work EXCEPT !.at = "undoing", !.left = @ - 1,
                          !.calls = DriverUndo(last.spec, ckpts[work.left], world)]
  /\ UNCHANGED <<kind, world, ckpts, applies, upsets, was, last>>

UndoEnds ==
  /\ work.at = "undo" /\ work.left = 0
  /\ work' = Resting
  /\ End(IF work.err THEN "stuck" ELSE "undone")
  /\ UNCHANGED <<kind, world, ckpts, applies, upsets, was>>

DriversNext ==
  \/ \E s \in SpecsOf[kind] : ApplyBegins(s)
  \/ StepBegins \/ CallWorks \/ NothingToCall \/ Verified \/ CallFails \/ Stops \/ Moves
  \/ UndoBegins \/ UndoTakes \/ UndoEnds

DriversSpec == DriversInit /\ [][DriversNext]_driverVars

(***************************************************************************)
(* Properties.                                                             *)
(***************************************************************************)
\* What an operator calls conforming, without asking diff.
Conforms(s, w) ==
  CASE kind = "docker.container" ->
         IF s.present
         THEN /\ w.box # Gone /\ w.box.running
              /\ w.box.id = w.loc[s.ref] /\ s.env \subseteq w.box.env
              /\ w.box.opts = s.opts /\ Canonical(w.box.vol) = Canonical(s.vol) /\ w.box.tmpfs = s.tmpfs
              /\ s.cmd # "none" => w.box.cmd = s.cmd
              /\ s.net # Gone => s.net \in w.box.nets
              /\ ToSet(s.extra) \subseteq w.box.nets
         ELSE w.box = Gone
    [] kind = "docker.compose" ->
         IF s.present THEN w.file = s.source /\ Services(w) # {} ELSE Services(w) = {}
    [] kind = "firewall.rule" ->
         LET mine == {i \in DOMAIN w.rules : w.rules[i].tag = s.tag}
         IN /\ s.present <=> \E i \in mine : w.rules[i] = RuleOf(s)
            /\ last.lossy \/ Cardinality(mine) = IF s.present THEN 1 ELSE 0
    [] kind = "dns.record"       -> w.rec = s.value
    [] kind = "acme.certificate" -> IF s.present THEN w.cert # Gone /\ w.cert.fresh ELSE w.cert = Gone
    [] kind = "monitoring.check" -> s.present => w.healthy
    [] kind = "cron.job"         -> w.text = Rendered(s)
    [] kind = "package"          -> /\ Installed(w) = s.present
                                    /\ s.version # Gone => w.version = s.version
    [] kind = "sysctl.setting"   -> w.val = s.val
    [] kind = "plugin"           -> w.obj = s.obj

\* The world is again what it was, in what a rollback sets out to restore: of a
\* container neither digest, tmpfs nor whether it ran; of rules not their order;
\* of a stack the file; of a package that dpkg still knew, nothing.
Again(b, w) ==
  CASE kind = "docker.container" ->
         IF b.box = Gone THEN w.box = Gone
         ELSE /\ w.box # Gone
              /\ <<w.box.ref, w.box.opts, Canonical(w.box.vol), w.box.env, w.box.cmd, w.box.nets>>
                   = <<b.box.ref, b.box.opts, Canonical(b.box.vol), b.box.env, b.box.cmd, b.box.nets>>
    [] kind = "docker.compose"   -> w.file = b.file /\ (b.file = Gone => Services(w) = {})
    [] kind = "firewall.rule"    -> /\ ToSet(w.rules) = ToSet(b.rules)
                                    /\ Len(w.rules) = Len(b.rules)
    [] kind = "acme.certificate" -> /\ w.cert = b.cert
                                    /\ b.cert # Gone /\ b.key # Gone => w.key = b.key
    [] kind = "package"          -> CASE b.status = "unknown" -> ~Installed(w)
                                      [] b.status = "installed" -> w = b
                                      [] OTHER -> TRUE
    [] OTHER                     -> w = b

\* An apply that reports success leaves a resource that conforms to its spec,
\* whatever state the failed calls, stops and rollbacks before it have left; only
\* an error that was ignored may leave a second rule.
OkMeansConforms ==
  last.end = "applied" /\ ~last.moved => Conforms(last.spec, world)

\* A rollback that returns Ok has put back what the apply has changed, however
\* many steps and calls of it were done, and however many rollbacks of it have
\* failed or were cut off before; unless an error was ignored on the way.
UndoRestores ==
  last.end = "undone" /\ ~last.moved /\ ~last.lossy => Again(was, world)

\* An apply in which nothing fails succeeds: no state that an apply or a rollback
\* leaves behind when it is cut off makes the provider unable to go on, unless an
\* error was ignored.  (A check waits for its target, and a parameter that the
\* kernel lacks cannot be set.)
RetrySucceeds ==
  last.end = "failed" /\ ~last.hit /\ ~last.moved
    => last.lossy \/ kind = "monitoring.check" \/ (kind = "sysctl.setting" /\ world.val = Gone)

=============================================================================
