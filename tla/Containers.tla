----------------------------- MODULE Containers -----------------------------
(***************************************************************************)
(* The providers docker.container and docker.compose of iac-providers as   *)
(* functions of what is on the host (w).  Per provider: the valid specs,   *)
(* whether the host differs from a spec (observe, diff), the steps (plan), *)
(* the calls of the backend that a step makes in order (apply), what a     *)
(* checkpoint keeps (pre_apply), the calls of a rollback, what a call does *)
(* and what it may leave behind when it fails.                             *)
(***************************************************************************)
EXTENDS Naturals, Sequences, SequencesExt, FiniteSets

CONSTANTS
  Gone,    \* nothing there
  Ref,     \* the references of images
  Service  \* the services of stacks

\* A call of a backend; the failure of a soft one is ignored.
Call(op, arg) == [op |-> op, soft |-> FALSE, arg |-> arg]
SoftCall(op, arg) == [op |-> op, soft |-> TRUE, arg |-> arg]

(***************************************************************************)
(* docker.container.  w: reg, the digest a reference has in the registry;  *)
(* loc, the one it has on the host; box, the container of that name.       *)
(* opts stands for the restart policy and the ports, vol for volumes and   *)
(* mounts, env for environment and labels, cmd for command and healthcheck.*)
(***************************************************************************)
Boxes == [ref : Ref, opts : STRING, vol : STRING, env : SUBSET STRING, cmd : STRING,
          tmpfs : BOOLEAN, id : Nat, nets : SUBSET STRING, running : BOOLEAN]

\* What there is.  A container has the environment and the command of its image,
\* is on some network and runs only with its image on the host.
ContainerHost(w) ==
  /\ w \in [reg : [Ref -> Nat], loc : [Ref -> Nat \union {Gone}], box : Boxes \union {Gone}]
  /\ w.box # Gone =>
       /\ "PATH" \in w.box.env /\ w.box.cmd # "none"
       /\ w.box.nets # {} /\ IsFiniteSet(w.box.nets)
       /\ w.box.running => w.loc[w.box.ref] # Gone

ContainerSpecs ==
  [present : BOOLEAN, ref : Ref \union {Gone}, opts : STRING, vol : STRING, env : SUBSET STRING,
   cmd : STRING, tmpfs : BOOLEAN, net : STRING \union {Gone}, extra : Seq(STRING)]

\* What a checkpoint keeps of a container.
Backups == [present : {TRUE}, ref : Ref, opts : STRING, vol : STRING, env : SUBSET STRING,
            cmd : STRING, nets : SUBSET STRING]

\* The provers do not know it of a literal.
ASSUME StringAssumption == {"short", "PATH", "default", "bridge", "2"} \subseteq STRING

ASSUME GoneAssumption ==
  /\ Gone \notin STRING /\ Gone \notin Nat
  /\ Gone \notin Boxes /\ Gone \notin Backups

NoContainer == [present |-> FALSE, ref |-> Gone, opts |-> "none", vol |-> "none", env |-> {},
                cmd |-> "none", tmpfs |-> FALSE, net |-> Gone, extra |-> <<>>]

\* validate: an image if present, nothing else if absent, no network twice.
ValidContainer(s) ==
  IF s.present
  THEN /\ s \in ContainerSpecs
       /\ s.ref # Gone
       /\ s.net \notin ToSet(s.extra)
       /\ IsInjective(s.extra)
  ELSE s = NoContainer

\* The short form -v and the long form --mount of a volume are brought to one form.
Canonical(vol) == IF vol = "long" THEN "short" ELSE vol

\* docker inspect as the backend reads it: mounts in the short form.
Inspected(w) == IF w.box = Gone THEN Gone ELSE [w.box EXCEPT !.vol = Canonical(@)]

\* observe, and the digest that the wanted reference has on the host.
ContainerSeen(s, w) ==
  [box |-> Inspected(w), want |-> IF s.present THEN w.loc[s.ref] ELSE Gone]

\* By digest once the reference is on the host, by name before.
ImageDiffers(s, o) == IF o.want # Gone THEN o.want # o.box.id ELSE s.ref # o.box.ref

\* Volumes and tmpfs are exact.
VolumesDiffer(s, o) == Canonical(s.vol) # o.box.vol \/ s.tmpfs # o.box.tmpfs

\* Networks count if the spec names one.
NetworksDiffer(s, o) ==
  /\ s.net # Gone \/ s.extra # <<>>
  /\ o.box.nets # ({s.net} \ {Gone}) \union ToSet(s.extra)

\* Command and healthcheck count if the spec has them.
CommandDiffers(s, o) == s.cmd \notin {"none", o.box.cmd}

\* Mutant: a container that has stopped is as good as one that runs.
ContainerDiffers_Stopped(s, w) ==
  LET o == ContainerSeen(s, w)
  IN IF o.box = Gone \/ ~s.present THEN (o.box # Gone) # s.present
     ELSE \/ ImageDiffers(s, o) \/ s.opts # o.box.opts \/ ~(s.env \subseteq o.box.env)
          \/ VolumesDiffer(s, o) \/ NetworksDiffer(s, o) \/ CommandDiffers(s, o)

\* Restart policy and ports are exact; environment and labels may have more.
ContainerDiffers(s, w) ==
  LET o == ContainerSeen(s, w)
  IN IF o.box = Gone \/ ~s.present THEN (o.box # Gone) # s.present
     ELSE \/ ImageDiffers(s, o)
          \/ s.opts # o.box.opts
          \/ ~(s.env \subseteq o.box.env)
          \/ VolumesDiffer(s, o) \/ NetworksDiffer(s, o) \/ CommandDiffers(s, o)
          \/ ~o.box.running

ContainerPlan(s) == IF s.present THEN <<"pull", "recreate">> ELSE <<"remove">>

Connects(nets) == [i \in DOMAIN nets |-> Call("connect", nets[i])]

\* Mutant: an old container is not removed.
ContainerCalls_NoRemove(s, step) ==
  CASE step = "pull"     -> <<Call("pull", s.ref)>>
    [] step = "recreate" -> <<Call("stop", Gone), Call("run", s)>> \o Connects(s.extra)
    [] step = "remove"   -> <<Call("stop", Gone), Call("remove", Gone)>>

ContainerCalls(s, step) ==
  CASE step = "pull"     -> <<Call("pull", s.ref)>>
    [] step = "recreate" ->
         <<Call("stop", Gone), Call("remove", Gone), Call("run", s)>> \o Connects(s.extra)
    [] step = "remove"   -> <<Call("stop", Gone), Call("remove", Gone)>>

\* Mutant: the checkpoint has no environment.
ContainerSaved_NoEnv(w) ==
  IF w.box = Gone THEN Gone
  ELSE [present |-> TRUE, ref |-> w.box.ref, opts |-> w.box.opts, vol |-> Inspected(w).vol,
        env |-> {}, cmd |-> w.box.cmd, nets |-> w.box.nets]

\* The reference and not the digest, no tmpfs, not whether it runs.
ContainerSaved(w) ==
  IF w.box = Gone THEN Gone
  ELSE [present |-> TRUE, ref |-> w.box.ref, opts |-> w.box.opts, vol |-> Inspected(w).vol,
        env |-> w.box.env, cmd |-> w.box.cmd, nets |-> w.box.nets]

\* The spec that rollback makes of a checkpoint; bridge is the default.
RestoredContainer(saved) ==
  LET nets == SetToSeq(saved.nets \ {"bridge"})
  IN [present |-> TRUE, ref |-> saved.ref, opts |-> saved.opts, vol |-> saved.vol,
      env |-> saved.env, cmd |-> saved.cmd, tmpfs |-> FALSE,
      net |-> IF nets = <<>> THEN Gone ELSE Head(nets),
      extra |-> IF nets = <<>> THEN <<>> ELSE Tail(nets)]

ContainerUndo(saved) ==
  <<Call("stop", Gone), Call("remove", Gone)>>
    \o (IF saved = Gone THEN <<>>
        ELSE <<Call("pull", saved.ref), Call("run", RestoredContainer(saved))>>
               \o Connects(RestoredContainer(saved).extra))

\* docker run: the image adds its own environment and command, the default
\* network is bridge.
Started(s, w) ==
  [ref |-> s.ref, opts |-> s.opts, vol |-> s.vol, env |-> s.env \union {"PATH"},
   cmd |-> IF s.cmd = "none" THEN "default" ELSE s.cmd, tmpfs |-> s.tmpfs,
   id |-> IF w.loc[s.ref] # Gone THEN w.loc[s.ref] ELSE w.reg[s.ref],
   nets |-> {IF s.net = Gone THEN "bridge" ELSE s.net}, running |-> TRUE]

\* stop and remove of nothing and connect to a network it is on are no errors.
ContainerEffect(c, w) ==
  CASE c.op = "pull"    -> {[w EXCEPT !.loc[c.arg] = w.reg[c.arg]]}
    [] c.op = "stop"    -> {IF w.box = Gone THEN w ELSE [w EXCEPT !.box.running = FALSE]}
    [] c.op = "remove"  -> {[w EXCEPT !.box = Gone]}
    [] c.op = "run"     -> IF w.box # Gone THEN {}
                           ELSE {[w EXCEPT !.box = Started(c.arg, w), !.loc[c.arg.ref] = Started(c.arg, w).id]}
    [] c.op = "connect" -> IF w.box = Gone THEN {} ELSE {[w EXCEPT !.box.nets = @ \union {c.arg}]}

\* docker run that fails may leave a container that was never started.
ContainerBroken(c, w) ==
  IF c.op = "run" /\ w.box = Gone
  THEN {[w EXCEPT !.box = [Started(c.arg, w) EXCEPT !.running = FALSE],
                  !.loc[c.arg.ref] = Started(c.arg, w).id]}
  ELSE {}

(***************************************************************************)
(* docker.compose.  w: file, the compose file of the project on disk;      *)
(* has, per service of the project, the source it was created from.  A     *)
(* source is the set of its services with a version of it.                 *)
(***************************************************************************)
StackHost(w) == w = [file |-> w.file, has |-> [x \in Service |-> w.has[x]]]

ValidStack(s) ==
  IF s.present
  THEN /\ s.source # Gone /\ s.source.rev # Gone
       /\ s.source.names # {} /\ s.source.names \subseteq Service
  ELSE s.source = Gone

\* docker compose ps -a.
Services(w) == {x \in DOMAIN w.has : w.has[x] # Gone}

\* observe: the services of the project and what is in its file.
StackSeen(w) == [file |-> w.file, services |-> Services(w)]

\* Nothing of the project is there, or the file on disk is not the source.
StackDiffers(s, w) ==
  LET o == StackSeen(w)
  IN IF s.present THEN o.services = {} \/ o.file # s.source ELSE o.services # {}

StackPlan(s) == IF s.present THEN <<"up">> ELSE <<"down">>

\* The file is written first; the directory is removed with its error ignored.
StackUp(source) == <<Call("write", source), Call("up", source)>>
StackDown == <<Call("down", Gone), SoftCall("rmdir", Gone)>>

StackCalls(s, step) == IF step = "up" THEN StackUp(s.source) ELSE StackDown

StackSaved(w) == w.file

StackUndo(saved) == IF saved = Gone THEN StackDown ELSE StackUp(saved)

\* The services that up has got to; --remove-orphans takes the others away.
UpTo(some, source, w) ==
  [w EXCEPT !.has = [x \in DOMAIN w.has |->
     IF x \notin some THEN w.has[x] ELSE IF x \in source.names THEN source.rev ELSE Gone]]

\* What fs::write leaves that was cut off; compose cannot read it.
TornFile == [names |-> {}, rev |-> "torn"]

StackEffect(c, w) ==
  CASE c.op = "write" -> {[w EXCEPT !.file = c.arg]}
    [] c.op = "up"    -> IF c.arg = TornFile THEN {} ELSE {UpTo(DOMAIN w.has, c.arg, w)}
    [] c.op = "down"  -> {[w EXCEPT !.has = [x \in DOMAIN w.has |-> Gone]]}
    [] c.op = "rmdir" -> {[w EXCEPT !.file = Gone]}

\* up and down that fail have dealt with some of the services.
StackBroken(c, w) ==
  CASE c.op = "write" -> {[w EXCEPT !.file = TornFile]}
    [] c.op = "up" /\ c.arg # TornFile -> {UpTo(some, c.arg, w) : some \in SUBSET DOMAIN w.has}
    [] c.op = "down" -> {[w EXCEPT !.has = [x \in DOMAIN w.has |-> IF x \in some THEN Gone ELSE w.has[x]]] :
                           some \in SUBSET DOMAIN w.has}
    [] OTHER -> {}

=============================================================================
