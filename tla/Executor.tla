------------------------------ MODULE Executor ------------------------------
(***************************************************************************)
(* The executor on a host (crates/iac-core/src/executor.rs): apply takes   *)
(* the resources of a manifest one by one through observe, diff, plan,     *)
(* pre_apply, checkpoint, apply and verify; rollback restores what the     *)
(* checkpoints of an operation hold. Every call may fail, the process may  *)
(* stop between any two, and somebody else may change the host.            *)
(***************************************************************************)
EXTENDS Providers, FiniteSets

CONSTANTS
  Manifest,   \* sequences of [res, spec], no resource twice
  InitHost,   \* the hosts to begin with
  Keep,       \* EXECUTOR_OPERATIONS_KEEP
  MaxOps,     \* bound: operations
  MaxTrouble, \* bound: calls that fail, stops and changes by somebody else
  NoSpec      \* there is no applied state

ASSUME ExecutorAssumption ==
  /\ InitHost \subseteq Host /\ \A h \in InitHost : Accepted(h)
  /\ Keep \in Nat \ {0} /\ MaxOps \in Nat /\ MaxTrouble \in Nat
  /\ \A r \in Resource : NoSpec \notin SpecOf(r)

ASSUME ManifestAssumption ==
  \A m \in Manifest :
    /\ m \in Seq(UNION {[res : {r}, spec : SpecOf(r)] : r \in Resource})
    /\ \A i, j \in 1..Len(m) : m[i].res = m[j].res => i = j

Op == 1..MaxOps

VARIABLES
  host,     \* what is on the host
  loaded,   \* the virtual hosts nginx runs with
  dirs,     \* operations/: the operations with a directory
  ckpt,     \* the checkpoints in it, in the order of their ids
  applied,  \* applied/: the spec that was applied last
  exec,     \* the executor at work
  nops,     \* operations so far
  trouble,  \* failed calls, stops and changes by somebody else so far
  \* history
  before,   \* the host at the start of an operation
  items,    \* the manifest of an operation
  result,   \* the status that apply has returned
  touched,  \* operations since whose start something else changed the host
  undone,   \* what rollback has returned
  dirty,    \* resources that were changed since their applied state was written
  torn      \* nginx was not reloaded after a change of its files

disk  == <<dirs, ckpt, applied>>
past  == <<before, items, result, undone>>
marks == <<touched, dirty, torn>>
vars  == <<host, loaded, disk, exec, nops, trouble, past, marks>>

(***************************************************************************)
(* State                                                                   *)
(***************************************************************************)

AnySpec == UNION {SpecOf(r) : r \in Resource}
Item == UNION {[res : {r}, spec : SpecOf(r)] : r \in Resource}
StepName == {"file.write", "file.delete", "enable", "disable", "start", "stop",
             "nginx.write", "nginx.remove"}
SavedOf(r) == IF r \in Unit THEN [enabled : BOOLEAN, active : BOOLEAN] ELSE StateOf(r)
Checkpoint == UNION {[res : {r}, data : SavedOf(r)] : r \in Resource}

\* st: idle; at the next resource; before a step; with its checkpoint written;
\* after the last step; after the last resource; rolling back.
\* failed and changed are any_failed and any_changed, left the checkpoints that
\* rollback has yet to restore, err and lossy what it has met.
Exec ==
  [st : {"idle", "next", "step", "apply", "verify", "undo"},
   op : Op \cup {0}, todo : Seq(Item), steps : Seq(StepName),
   failed : BOOLEAN, changed : BOOLEAN,
   left : Nat, err : BOOLEAN, lossy : BOOLEAN]

Idle ==
  [st |-> "idle", op |-> 0, todo |-> <<>>, steps |-> <<>>, failed |-> FALSE,
   changed |-> FALSE, left |-> 0, err |-> FALSE, lossy |-> FALSE]

TypeOK ==
  /\ host \in Host
  /\ loaded \in [Vhost -> VhostState]
  /\ dirs \subseteq 1..nops
  /\ ckpt \in [Op -> Seq(Checkpoint)]
  /\ applied \in [Resource -> AnySpec \cup {NoSpec}]
  /\ exec \in Exec
  /\ nops \in 0..MaxOps
  /\ trouble \in 0..MaxTrouble
  /\ before \in [Op -> Host]
  /\ items \in [Op -> Seq(Item)]
  /\ result \in [Op -> {"none", "succeeded", "partially_applied", "failed"}]
  /\ undone \in [Op -> {"no", "begun", "ok", "lossy"}]
  /\ touched \subseteq 1..nops
  /\ dirty \subseteq Resource
  /\ torn \in BOOLEAN

Init ==
  /\ host \in InitHost
  /\ loaded = [v \in Vhost |-> host[v]]
  /\ dirs = {} /\ ckpt = [o \in Op |-> <<>>]
  /\ applied = [r \in Resource |-> NoSpec]
  /\ exec = Idle /\ nops = 0 /\ trouble = 0
  /\ before = [o \in Op |-> host] /\ items = [o \in Op |-> <<>>]
  /\ result = [o \in Op |-> "none"] /\ undone = [o \in Op |-> "no"]
  /\ touched = {} /\ dirty = {} /\ torn = FALSE

\* The resource at work, its spec and the operation.
Res == Head(exec.todo).res
Spc == Head(exec.todo).spec

Fails == trouble < MaxTrouble /\ trouble' = trouble + 1
Works == UNCHANGED trouble

\* The host is changed on behalf of operation o (0: of nobody), at resource r.
Change(r, s, o) ==
  /\ host' = [host EXCEPT ![r] = s]
  /\ touched' = IF s = host[r] THEN touched ELSE touched \cup ((1..nops) \ {o})
  /\ dirty' = dirty \cup {r}

\* systemctl reload nginx.
Reload == loaded' = [v \in Vhost |-> host'[v]] /\ torn' = FALSE
NoReload == UNCHANGED loaded /\ torn' = TRUE
NoNginx == UNCHANGED <<loaded, torn>>

(***************************************************************************)
(* apply                                                                   *)
(***************************************************************************)

Start(m) ==
  /\ exec.st = "idle" /\ nops < MaxOps
  /\ nops' = nops + 1
  /\ dirs' = dirs \cup {nops'}
  /\ exec' = [Idle EXCEPT !.st = "next", !.op = nops', !.todo = m]
  /\ before' = [before EXCEPT ![nops'] = host]
  /\ items' = [items EXCEPT ![nops'] = m]
  /\ UNCHANGED <<host, loaded, ckpt, applied, trouble, result, undone, marks>>

\* A resource is done: `failed` or `changed` is set, the next one is taken.
NextItem(failed, changed) ==
  exec' = [exec EXCEPT !.st = "next", !.todo = Tail(@), !.steps = <<>>,
                       !.failed = @ \/ failed, !.changed = @ \/ changed]

WriteApplied ==
  /\ applied' = [applied EXCEPT ![Res] = Spc]
  /\ dirty' = dirty \ {Res}

\* observe, diff and plan. Without a difference only the applied state is written.
Observe ==
  /\ exec.st = "next" /\ exec.todo # <<>>
  /\ IF Differs(Res, Spc, host[Res])
     THEN /\ exec' = [exec EXCEPT !.steps = Plan(Res, Spc, host[Res]),
                       !.st = IF Plan(Res, Spc, host[Res]) = <<>> THEN "verify" ELSE "step"]
          /\ UNCHANGED <<applied, dirty>>
     ELSE NextItem(FALSE, FALSE) /\ WriteApplied
  /\ UNCHANGED <<host, loaded, dirs, ckpt, nops, trouble, past, touched, torn>>

\* Every step has a directory of its own for its checkpoint.
Checkpointed(o, c) == [ckpt EXCEPT ![o] = Append(@, c)]

\* pre_apply and its checkpoint; without it the resource has failed.
PreApply ==
  /\ exec.st = "step"
  /\ \/ /\ Works
        /\ ckpt' = Checkpointed(exec.op, [res |-> Res, data |-> Saved(Res, host[Res])])
        /\ exec' = [exec EXCEPT !.st = "apply"]
     \/ /\ Fails
        /\ NextItem(TRUE, FALSE)
        /\ UNCHANGED ckpt
  /\ UNCHANGED <<host, loaded, dirs, applied, nops, past, marks>>

\* A step has succeeded: the next step, or verify after the last one.
StepDone ==
  exec' = [exec EXCEPT !.steps = Tail(@),
                       !.st = IF Len(exec.steps) = 1 THEN "verify" ELSE "step"]

New == Applied(Res, Spc, Head(exec.steps), host[Res])

\* file and systemd.unit: one call, which may fail without an effect; systemctl
\* may also fail after it had its effect (it waits for the job, and times out).
ApplyPlain ==
  /\ exec.st = "apply" /\ Res \notin Vhost
  /\ \/ Works /\ StepDone /\ Change(Res, New, exec.op)
     \/ Fails /\ NextItem(TRUE, FALSE)
        /\ \/ UNCHANGED <<host, touched, dirty>>
           \/ Res \in Unit /\ Change(Res, New, exec.op)
  /\ NoNginx
  /\ UNCHANGED <<disk, nops, past>>

\* Mutant: nginx -t has refused, and the file stays.
RefusedState_Kept(old, new) == new

\* The file is put back from the checkpoint that was just written.
RefusedState(old, new) == old

\* nginx.vhost: write or remove, nginx -t, reload. A configuration that nginx -t
\* refuses is taken back.
ApplyVhost ==
  /\ exec.st = "apply" /\ Res \in Vhost
  /\ LET accepted == Accepted([host EXCEPT ![Res] = New])
     IN \/ accepted /\ Works /\ StepDone /\ Change(Res, New, exec.op) /\ Reload
        \/ accepted /\ Fails /\ NextItem(TRUE, FALSE) \* reload failed
             /\ Change(Res, New, exec.op) /\ NoReload
        \/ ~accepted /\ Works /\ NextItem(TRUE, FALSE)
             /\ Change(Res, RefusedState(host[Res], New), exec.op) /\ NoNginx
        \/ ~accepted /\ Fails /\ NextItem(TRUE, FALSE) \* restore failed
             /\ Change(Res, New, exec.op) /\ NoReload
        \/ Fails /\ NextItem(TRUE, FALSE) \* write failed
             /\ UNCHANGED <<host, touched, dirty>> /\ NoNginx
  /\ UNCHANGED <<disk, nops, past>>

Matches(r, spec, s) == ~Differs(r, spec, s)

Verify ==
  /\ exec.st = "verify"
  /\ IF Matches(Res, Spc, host[Res])
     THEN NextItem(FALSE, TRUE) /\ WriteApplied
     ELSE NextItem(TRUE, FALSE) /\ UNCHANGED <<applied, dirty>>
  /\ UNCHANGED <<host, loaded, dirs, ckpt, nops, trouble, past, touched, torn>>

Status(failed, changed) ==
  CASE failed /\ changed  -> "partially_applied"
    [] failed /\ ~changed -> "failed"
    [] ~failed            -> "succeeded"

\* Mutant: the newest directories go.
Old_Newest(ds) == {o \in ds : Cardinality({p \in ds : p < o}) >= Keep}

\* gc_operation_dirs drops all but the newest Keep directories.
Old(ds) == {o \in ds : Cardinality({p \in ds : p > o}) >= Keep}

\* operation.json is written and old directories are deleted. A deletion that
\* fails may have emptied the directory.
Finish ==
  /\ exec.st = "next" /\ exec.todo = <<>>
  /\ result' = [result EXCEPT ![exec.op] = Status(exec.failed, exec.changed)]
  /\ exec' = Idle
  /\ \/ /\ Works
        /\ dirs' = dirs \ Old(dirs)
        /\ ckpt' = [o \in Op |-> IF o \in Old(dirs) THEN <<>> ELSE ckpt[o]]
     \/ /\ Fails
        /\ \E stay \in SUBSET Old(dirs), full \in SUBSET Old(dirs) :
             /\ full \subseteq stay /\ stay # {}
             /\ dirs' = dirs \ (Old(dirs) \ stay)
             /\ ckpt' = [o \in Op |-> IF o \in Old(dirs) \ full THEN <<>> ELSE ckpt[o]]
  /\ UNCHANGED <<host, loaded, applied, nops, before, items, undone, marks>>

\* `?`: observe, plan, verify or a write under the state directory fails, and
\* apply returns at once, without operation.json and without gc.
Abort ==
  /\ exec.st \in {"next", "step", "verify"}
  /\ Fails
  /\ exec' = Idle
  /\ UNCHANGED <<host, loaded, disk, nops, past, marks>>

(***************************************************************************)
(* rollback                                                                *)
(***************************************************************************)

Rollback(o) ==
  /\ exec.st = "idle" /\ o \in dirs
  /\ exec' = [Idle EXCEPT !.st = "undo", !.op = o, !.left = Len(ckpt[o])]
  /\ undone' = [undone EXCEPT ![o] = "begun"]
  /\ UNCHANGED <<host, loaded, disk, nops, trouble, before, items, result, marks>>

\* Mutant: the oldest checkpoint first.
NextUndo_Oldest(n, left) == n - left + 1

\* The newest checkpoint first.
NextUndo(n, left) == left

\* The next checkpoint is restored; a failure is noted and the others are tried.
Undo ==
  /\ exec.st = "undo" /\ exec.left > 0
  /\ LET c    == ckpt[exec.op][NextUndo(Len(ckpt[exec.op]), exec.left)]
         s    == host[c.res]
         back == Restored(c.res, c.data, s)
         next(err, lossy) ==
           exec' = [exec EXCEPT !.left = @ - 1, !.err = @ \/ err, !.lossy = @ \/ lossy]
         to(x) == Change(c.res, x, exec.op)
     IN \/ /\ c.res \notin Vhost /\ Works
           /\ next(FALSE, FALSE) /\ to(back) /\ NoNginx
        \/ /\ c.res \in File /\ c.data.present /\ Fails \* chmod or chown failed: ignored
           /\ next(FALSE, TRUE) /\ NoNginx
           /\ \E m \in Meta : to([back EXCEPT !.meta = m])
        \/ /\ c.res \in Unit /\ Fails \* systemctl failed half way
           /\ next(TRUE, FALSE) /\ NoNginx
           /\ \E x \in {UnitToggled(c.data, s), back} : to(x)
        \/ /\ c.res \in Vhost /\ Accepted([host EXCEPT ![c.res] = back]) /\ Works
           /\ next(FALSE, FALSE) /\ to(back) /\ Reload
        \/ /\ c.res \in Vhost /\ ~Accepted([host EXCEPT ![c.res] = back]) /\ Works
           /\ next(TRUE, FALSE) /\ to(back) /\ NoReload
        \/ /\ c.res \in Vhost /\ Accepted([host EXCEPT ![c.res] = back]) /\ Fails
           /\ next(TRUE, FALSE) /\ to(back) /\ NoReload
        \/ /\ Fails /\ next(TRUE, FALSE) /\ NoNginx \* without any effect
           /\ UNCHANGED <<host, touched, dirty>>
  /\ UNCHANGED <<disk, nops, past>>

UndoDone ==
  /\ exec.st = "undo" /\ exec.left = 0
  /\ undone' = [undone EXCEPT ![exec.op] =
                  IF exec.err THEN "begun" ELSE IF exec.lossy THEN "lossy" ELSE "ok"]
  /\ exec' = Idle
  /\ UNCHANGED <<host, loaded, disk, nops, trouble, before, items, result, marks>>

(***************************************************************************)
(* Environment                                                             *)
(***************************************************************************)

\* The process stops, perhaps in the middle of a step.
Crash ==
  /\ exec.st # "idle" /\ Fails
  /\ exec' = Idle
  /\ \/ UNCHANGED <<host, loaded, touched, dirty, torn>>
     \/ /\ exec.st = "apply" /\ Change(Res, New, exec.op)
        /\ IF Res \in Vhost THEN NoReload ELSE NoNginx
  /\ UNCHANGED <<disk, nops, past>>

\* Somebody else changes a resource, and reloads nginx if it is one of its files.
\* Whether a unit can be enabled at all stays as it is.
Drift(r, s) ==
  /\ Fails
  /\ s \in StateOf(r) /\ s # host[r]
  /\ r \in Unit => {s.file, host[r].file} \subseteq {"enabled", "disabled"} \/ s.file = host[r].file
  /\ Change(r, s, 0)
  /\ IF r \in Vhost /\ Accepted(host') THEN Reload ELSE IF r \in Vhost THEN NoReload ELSE NoNginx
  /\ UNCHANGED <<disk, exec, nops, past>>

Next ==
  \/ \E m \in Manifest : Start(m)
  \/ Observe \/ PreApply \/ ApplyPlain \/ ApplyVhost \/ Verify \/ Finish \/ Abort
  \/ \E o \in Op : Rollback(o)
  \/ Undo \/ UndoDone
  \/ Crash
  \/ \E r \in Resource : \E s \in StateOf(r) : Drift(r, s)

Spec == Init /\ [][Next]_vars

(***************************************************************************)
(* Properties                                                              *)
(***************************************************************************)

\* rollback is supported for the newest Keep operations.
Supported(o) == o \in 1..nops /\ o > nops - Keep

\* Checkpoint i is the oldest one of its resource in operation o.
Oldest(o, i) == \A j \in 1..(i - 1) : ckpt[o][j].res # ckpt[o][i].res

\* What an operation has changed since it began can be undone at every moment,
\* in the middle of its apply, after a crash in a step, after an apply that gave
\* up, in the middle of a rollback: its directory is there, a resource without a
\* checkpoint is as it was, and the oldest checkpoint of any other takes it back
\* to what it was.
Undoable ==
  \A o \in Op : Supported(o) /\ o \notin touched =>
    /\ o \in dirs
    /\ \A r \in Resource :
         (\A i \in 1..Len(ckpt[o]) : ckpt[o][i].res # r) => host[r] = before[o][r]
    /\ \A i \in 1..Len(ckpt[o]) :
         LET c == ckpt[o][i]
         IN Oldest(o, i) => Restored(c.res, c.data, host[c.res]) = before[o][c.res]

\* A rollback that returns Ok has put the host back to what it was before the
\* operation, unless something else has changed it: whichever steps the operation
\* got done, and however many rollbacks failed or were cut off before. Only mode
\* and owner of a file may differ, if setting them failed, which is ignored.
RollbackRestores ==
  \A o \in Op : Supported(o) /\ o \notin touched =>
    /\ undone[o] = "ok" => host = before[o]
    /\ undone[o] = "lossy" =>
         \A r \in Resource :
           IF r \in File
           THEN /\ host[r].present = before[o][r].present
                /\ host[r].content = before[o][r].content
           ELSE host[r] = before[o][r]

\* What an apply leaves on record is true, whichever calls of it failed: applied/
\* names specs the host conforms to, a succeeded operation left every resource of
\* its manifest conforming (as long as nothing has changed them since), and nginx
\* accepts and runs with the files on disk whenever no step on a virtual host was
\* cut short between its write and its reload.
RecordsAreTrue ==
  /\ \A r \in Resource \ dirty : applied[r] # NoSpec => ~Differs(r, applied[r], host[r])
  /\ \A o \in Op : result[o] = "succeeded" /\ undone[o] = "no" /\ o \notin touched =>
       \A i \in 1..Len(items[o]) :
         ~Differs(items[o][i].res, items[o][i].spec, host[items[o][i].res])
  /\ ~torn => Accepted(host) /\ loaded = [v \in Vhost |-> host[v]]

=============================================================================
