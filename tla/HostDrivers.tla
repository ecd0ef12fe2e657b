----------------------------- MODULE HostDrivers ----------------------------
(***************************************************************************)
(* The providers cron.job, package, sysctl.setting and the one that plugins*)
(* stand behind, in the form of Containers.                                *)
(***************************************************************************)
EXTENDS NetDrivers

(***************************************************************************)
(* cron.job.  w.text: the file under /etc/cron.d.                          *)
(***************************************************************************)
JobHost(w) == w = [text |-> w.text]

ValidJob(s) == s.present = (s.line # Gone)

\* render: a header and the line.
Rendered(s) == IF s.present THEN <<"header", s.line>> ELSE Gone

JobDiffers(s, w) == w.text # Rendered(s)

JobPlan(s) == IF s.present THEN <<"write">> ELSE <<"remove">>

JobCalls(s) == <<IF s.present THEN Call("write", Rendered(s)) ELSE Call("remove", Gone)>>

JobSaved(w) == w.text

JobUndo(saved) == <<IF saved = Gone THEN Call("remove", Gone) ELSE Call("write", saved)>>

\* atomic_write: a temporary file and a rename.  Removing nothing is no error.
JobEffect(c, w) == {[text |-> c.arg]}

(***************************************************************************)
(* package.  w.status: what dpkg-query says, w.version: of what.  apt-get  *)
(* remove leaves the configuration, an install that fails half of it.      *)
(***************************************************************************)
ValidPackage(s) ==
  /\ s.present \in BOOLEAN /\ s.version \in STRING \union {Gone}
  /\ s.present \/ s.version = Gone

Installed(w) == w.status = "installed"

PackageHost(w) ==
  /\ w \in [version : STRING \union {Gone}, status : {"unknown", "config", "half", "installed"}]
  /\ Installed(w) => w.version # Gone

PackageDiffers(s, w) ==
  IF s.present THEN ~Installed(w) \/ s.version \notin {Gone, w.version} ELSE Installed(w)

PackagePlan(s) == IF s.present THEN <<"install">> ELSE <<"remove">>

PackageCalls(s, step) == <<Call(step, s.version)>>

\* Whatever dpkg-query knows of counts as installed before.
PackageSaved(w) == [present |-> w.status # "unknown", version |-> w.version]

PackageUndo(saved, w) ==
  CASE Installed(w) /\ saved.present ->
         IF saved.version # w.version THEN <<Call("install", saved.version)>> ELSE <<>>
    [] Installed(w) /\ ~saved.present -> <<Call("remove", Gone)>>
    [] ~Installed(w) /\ saved.present -> <<Call("install", saved.version)>>
    [] OTHER -> <<>>

\* Without a version the newest one is taken.
PackageEffect(c, w) ==
  IF c.op = "remove"
  THEN {IF w.status = "unknown" THEN w ELSE [w EXCEPT !.status = "config"]}
  ELSE {[version |-> IF c.arg = Gone THEN "2" ELSE c.arg, status |-> "installed"]}

PackageBroken(c, w) ==
  IF c.op = "install" THEN {[version |-> IF c.arg = Gone THEN "2" ELSE c.arg, status |-> "half"]} ELSE {}

(***************************************************************************)
(* sysctl.setting.  w.val: the parameter under /proc/sys; Gone: the kernel *)
(* has none of that name.                                                  *)
(***************************************************************************)
SettingHost(w) == w = [val |-> w.val]

SettingDiffers(s, w) == w.val # s.val

SettingCalls(s) == <<Call("write", s.val)>>

SettingSaved(w) == w.val

\* There is nothing to go back to if the parameter was not there.
SettingUndo(saved) == IF saved = Gone THEN <<>> ELSE <<Call("write", saved)>>

SettingEffect(c, w) == IF w.val = Gone THEN {} ELSE {[val |-> c.arg]}

(***************************************************************************)
(* A plugin without diff, pre_apply, verify and rollback of its own: the   *)
(* fallbacks of PluginProvider.  w.obj: what it observes.                  *)
(***************************************************************************)
ObjectHost(w) == w = [obj |-> w.obj]

ValidObject(s) == s.present = (s.obj # Gone)

\* The spec must equal what was observed.
ObjectDiffers(s, w) == w.obj # s.obj

ObjectPlan(s, w) ==
  IF ~s.present THEN <<"delete">> ELSE IF w.obj = Gone THEN <<"create">> ELSE <<"update">>

ObjectCalls(s, step) == <<Call(step, s.obj)>>

ObjectSaved(w) == w.obj

\* An apply with the spec observed before, always as an update, or a delete.
ObjectUndo(saved) == IF saved = Gone THEN <<Call("delete", Gone)>> ELSE <<Call("update", saved)>>

\* create and update set it; delete of nothing is no error.
ObjectEffect(c, w) == {[obj |-> c.arg]}

=============================================================================
