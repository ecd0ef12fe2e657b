------------------------------ MODULE Expansion ------------------------------
(***************************************************************************)
(* expansion.rs and modules.rs: composite resources become primitive ones, *)
(* pass by pass, before policies, routing and dispatch see them.           *)
(*                                                                         *)
(* A resource is its kind, the environment its metadata declares, the      *)
(* fields its spec has and the secret its strings refer to.  A composite   *)
(* kind, built in or a module of the configuration, is a template: the     *)
(* fields it knows, the ones it insists on, and the items it renders.      *)
(***************************************************************************)
EXTENDS Naturals, Sequences, SequencesExt, FiniteSetsExt

CONSTANTS
  MaxDepth, \* MAX_EXPANSION_DEPTH
  NoEnv,    \* metadata.environment is absent
  NoRef,    \* no ${secret://...} in the spec
  Passed    \* an item that renders a field which may hold a reference

ASSUME ExpansionAssumption == MaxDepth \in Nat \ {0}

\* An item of a template: inherit says that it renders {{ environment }}.
Item(kind, inherit, fields, ref) ==
  [kind |-> kind, fields |-> fields, ref |-> ref, inherit |-> inherit]

Primitive(kind, ref) == Item(kind, TRUE, {}, ref)
Template(known, required, items) == [items |-> items, known |-> known, required |-> required]

\* The composites of expansion.rs; "main" stands for the required fields, "env"
\* for the map that may hold secrets.
Web == <<Primitive("docker.container", Passed), Primitive("nginx.vhost", NoRef)>>
Cron == <<Primitive("file", NoRef), Primitive("cron.job", Passed)>>
expand_service == Template({"main", "env"}, {"main"}, Web)
expand_cron_job_bundle == Template({"main", "env"}, {"main"}, Cron)
expand_web_with_monitoring ==
  Template({"main", "env"}, {"main"},
           Web \o <<Primitive("file", NoRef), Primitive("cron.job", NoRef)>>)

BuiltIn == {"service", "cron-job-bundle", "web-with-monitoring"}

is_composite_kind(kind, modules) == kind \in BuiltIn \cup DOMAIN modules

TemplateOf(kind, modules) ==
  CASE kind = "service" -> expand_service
    [] kind = "cron-job-bundle" -> expand_cron_job_bundle
    [] kind = "web-with-monitoring" -> expand_web_with_monitoring
    [] OTHER -> modules[kind]

\* What an item renders for the composite r: the environment r declares, and
\* "default" when it declares none.
Rendered(item, r) ==
  [kind |-> item.kind,
   env |-> IF item.inherit THEN (IF r.env = NoEnv THEN "default" ELSE r.env) ELSE NoEnv,
   fields |-> item.fields,
   ref |-> IF item.ref = Passed THEN r.ref ELSE item.ref]

\* A composite whose spec lacks a required field or has an unknown one.
Malformed(r, modules) ==
  /\ is_composite_kind(r.kind, modules)
  /\ LET t == TemplateOf(r.kind, modules) IN
       ~(t.required \subseteq r.fields /\ r.fields \subseteq t.known)

expand_module(r, modules) ==
  LET items == TemplateOf(r.kind, modules).items IN
  [j \in DOMAIN items |-> Rendered(items[j], r)]

expand_resources_one_pass(rs, modules) ==
  FlattenSeq([i \in DOMAIN rs |->
    IF is_composite_kind(rs[i].kind, modules) THEN expand_module(rs[i], modules) ELSE <<rs[i]>>])

Refused == [list |-> <<>>, ok |-> FALSE]

\* The passes up to the first one that changes nothing.
Passes(rs, modules, max) ==
  LET current[n \in 0..max] ==
        IF n = 0 THEN rs ELSE expand_resources_one_pass(current[n - 1], modules)
      unchanged == {n \in 0..max : \A i \in DOMAIN current[n] :
                                     ~is_composite_kind(current[n][i].kind, modules)}
      malformed == {n \in 0..max : \E i \in DOMAIN current[n] : Malformed(current[n][i], modules)}
  IN IF unchanged = {} \/ (\E n \in malformed : n < Min(unchanged)) THEN Refused
     ELSE [list |-> current[Min(unchanged)], ok |-> TRUE]

\* Mutant: for depth in 0..MAX_EXPANSION_DEPTH.
expand_resources_OneLess(rs, modules) == Passes(rs, modules, MaxDepth - 1)

\* for depth in 0..=MAX_EXPANSION_DEPTH.
expand_resources(rs, modules) == Passes(rs, modules, MaxDepth)

-----------------------------------------------------------------------------
(* What an expansion should be: the leaves of a forest, in its order       *)

\* The resource at the end of a path: the place in the submitted list, then in
\* each template; <<>> if the path leads nowhere.
ResourceAt(path, rs, modules) ==
  LET at[n \in 1..Len(path)] ==
        IF n = 1 THEN (IF path[1] \in DOMAIN rs THEN <<rs[path[1]]>> ELSE <<>>)
        ELSE IF at[n - 1] = <<>> \/ ~is_composite_kind(at[n - 1][1].kind, modules) THEN <<>>
        ELSE LET items == TemplateOf(at[n - 1][1].kind, modules).items IN
             IF path[n] \in DOMAIN items THEN <<Rendered(items[path[n]], at[n - 1][1])>> ELSE <<>>
  IN at[Len(path)]

Before(p, q) ==
  \E n \in DOMAIN p : /\ n \in DOMAIN q /\ p[n] < q[n]
                      /\ \A m \in 1..(n - 1) : p[m] = q[m]

\* The expansion of rs, templates having at most width items.
Forest(rs, modules, width) ==
  LET paths == UNION {[1..n -> 1..width] : n \in 1..(MaxDepth + 1)}
      nodes == {p \in paths : ResourceAt(p, rs, modules) # <<>>}
      inner == {p \in nodes : is_composite_kind(ResourceAt(p, rs, modules)[1].kind, modules)}
      leaves == SetToSortSeq(nodes \ inner, Before)
  IN IF \E p \in inner : Len(p) > MaxDepth \/ Malformed(ResourceAt(p, rs, modules)[1], modules)
     THEN Refused
     ELSE [list |-> [i \in DOMAIN leaves |-> ResourceAt(leaves[i], rs, modules)[1]], ok |-> TRUE]

=============================================================================
