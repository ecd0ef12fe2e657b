----------------------------- MODULE Providers ------------------------------
(***************************************************************************)
(* Three providers of crates/iac-providers as functions of the state of    *)
(* the host: file, systemd.unit and nginx.vhost. Each tells whether the    *)
(* host differs from a spec (observe, diff), what is to be done (plan),    *)
(* what a step does (apply) and how it is undone (rollback).               *)
(***************************************************************************)
EXTENDS Naturals, Sequences

CONSTANTS
  File, Unit, Vhost, \* resources of kind file, systemd.unit, nginx.vhost
  Text,              \* contents of files
  Empty,             \* the empty content
  Refused,           \* contents that nginx -t refuses
  Meta,              \* mode, owner and group of files
  NewMeta            \* those of a new file: 0600 and the agent's own user

ASSUME ProvidersAssumption ==
  /\ File \cap Unit = {} /\ File \cap Vhost = {} /\ Unit \cap Vhost = {}
  /\ Empty \in Text /\ Refused \subseteq Text /\ NewMeta \in Meta
  /\ "unmanaged" \notin Text \cup Meta

Resource == File \cup Unit \cup Vhost

\* A field that the spec does not mention.
Unmanaged == "unmanaged"

\* What is on the host. masked stands for units that are not loaded, too.
AbsentFile == [present |-> FALSE, content |-> Empty, meta |-> NewMeta]
AbsentVhost == [present |-> FALSE, content |-> Empty]

FileState == [present : {TRUE}, content : Text, meta : Meta] \cup {AbsentFile}
UnitState == [active : BOOLEAN, file : {"enabled", "disabled", "static", "masked"}]
VhostState == [present : {TRUE}, content : Text] \cup {AbsentVhost}

\* state: absent forbids content, mode, owner and group.
FileSpec ==
  [present : {TRUE}, content : Text \cup {Unmanaged}, meta : Meta \cup {Unmanaged}]
    \cup {[present |-> FALSE, content |-> Unmanaged, meta |-> Unmanaged]}
UnitSpec == [enabled : BOOLEAN, active : BOOLEAN]
VhostSpec == VhostState

StateOf(r) == IF r \in File THEN FileState ELSE IF r \in Unit THEN UnitState ELSE VhostState
SpecOf(r) == IF r \in File THEN FileSpec ELSE IF r \in Unit THEN UnitSpec ELSE VhostSpec

Host == {h \in [Resource -> UNION {StateOf(r) : r \in Resource}] :
           \A r \in Resource : h[r] \in StateOf(r)}

(***************************************************************************)
(* observe and diff                                                        *)
(***************************************************************************)

\* A field differs if the spec mentions it.
FileDiffers(spec, s) ==
  \/ spec.present # s.present
  \/ /\ spec.present
     /\ spec.content \notin {Unmanaged, s.content} \/ spec.meta \notin {Unmanaged, s.meta}

Enabled(s) == s.file = "enabled"

\* A static unit cannot be enabled or disabled.
WantsToggle(spec, s) == s.file # "static" /\ spec.enabled # Enabled(s)

UnitDiffers(spec, s) ==
  s.file = "masked" \/ WantsToggle(spec, s) \/ spec.active # s.active

VhostDiffers(spec, s) ==
  spec.present # s.present \/ (spec.present /\ spec.content # s.content)

Differs(r, spec, s) ==
  CASE r \in File  -> FileDiffers(spec, s)
    [] r \in Unit  -> UnitDiffers(spec, s)
    [] r \in Vhost -> VhostDiffers(spec, s)

(***************************************************************************)
(* plan                                                                    *)
(***************************************************************************)

StepIf(wanted, name) == IF wanted THEN <<name>> ELSE <<>>

\* Enable before start, stop before disable. A masked unit is not managed.
UnitPlan(spec, s) ==
  IF s.file = "masked" THEN <<>>
  ELSE StepIf(WantsToggle(spec, s) /\ spec.enabled, "enable")
         \o StepIf(spec.active /\ ~s.active, "start")
         \o StepIf(~spec.active /\ s.active, "stop")
         \o StepIf(WantsToggle(spec, s) /\ ~spec.enabled, "disable")

Plan(r, spec, s) ==
  CASE r \in File  -> <<IF spec.present THEN "file.write" ELSE "file.delete">>
    [] r \in Unit  -> UnitPlan(spec, s)
    [] r \in Vhost -> <<IF spec.present THEN "nginx.write" ELSE "nginx.remove">>

(***************************************************************************)
(* apply                                                                   *)
(***************************************************************************)

\* write puts a new file in the place of the old one.
FileApply(spec, step) ==
  IF step = "file.delete" THEN AbsentFile
  ELSE [present |-> TRUE,
        content |-> IF spec.content = Unmanaged THEN Empty ELSE spec.content,
        meta    |-> IF spec.meta = Unmanaged THEN NewMeta ELSE spec.meta]

UnitApply(step, s) ==
  CASE step = "enable"  -> [s EXCEPT !.file = "enabled"]
    [] step = "disable" -> [s EXCEPT !.file = "disabled"]
    [] step = "start"   -> [s EXCEPT !.active = TRUE]
    [] step = "stop"    -> [s EXCEPT !.active = FALSE]

VhostApply(spec, step) ==
  IF step = "nginx.remove" THEN AbsentVhost
  ELSE [present |-> TRUE, content |-> spec.content]

Applied(r, spec, step, s) ==
  CASE r \in File  -> FileApply(spec, step)
    [] r \in Unit  -> UnitApply(step, s)
    [] r \in Vhost -> VhostApply(spec, step)

\* nginx -t looks at the files of all virtual hosts.
Accepted(host) == \A v \in Vhost : host[v].present => host[v].content \notin Refused

(***************************************************************************)
(* pre_apply and rollback                                                  *)
(***************************************************************************)

\* What a checkpoint keeps: of a unit two flags, of a file or a configuration
\* all of it.
Saved(r, s) ==
  IF r \in Unit THEN [enabled |-> Enabled(s), active |-> s.active] ELSE s

\* rollback of systemd.unit enables or disables first, then starts or stops.
UnitToggled(data, s) ==
  IF Enabled(s) = data.enabled THEN s
  ELSE [s EXCEPT !.file = IF data.enabled THEN "enabled" ELSE "disabled"]

\* Files and configurations are put back, units are taken to what they were.
Restored(r, data, s) ==
  IF r \in Unit THEN [UnitToggled(data, s) EXCEPT !.active = data.active] ELSE data

=============================================================================
