------------------------------ MODULE Admission ------------------------------
(***************************************************************************)
(* POST /v1/operations up to create_operation, and the approval of what a  *)
(* policy holds: rate limits, maintenance windows, secret references,      *)
(* expansion and policies, against a configuration that SIGHUP replaces    *)
(* while handlers run (api/operations.rs, rate_limit.rs, maintenance.rs,   *)
(* policy.rs, secrets.rs, AppState::reload_config).                        *)
(***************************************************************************)
EXTENDS Expansion, Naturals, Sequences, FiniteSets

CONSTANTS
  Request,    \* what clients submit
  Config,     \* the configuration files, in the order they are written
  Handler,    \* requests that are handled at once
  User,       \* approvers and admins
  Admin,      \* the users that are admins
  Secret,     \* what a reference can name
  Window,     \* 60 s
  MaxClock,   \* bound: how far the clock runs
  MaxAdmitted \* bound: operations created

Policies(c) == DOMAIN Config[c].policies
Environment == {Request[q].env : q \in DOMAIN Request}
PolicyName == UNION {Policies(c) : c \in DOMAIN Config}

IsList(l) == l \in Seq(ToSet(l))

\* A policy matches nothing unless it has a clause; caps of 0 are disabled. The
\* key of a bucket says whether it is an environment's or a policy's. What is
\* submitted and what a module renders are lists.
ASSUME AdmissionAssumption ==
  /\ Window \in Nat /\ MaxClock \in Nat /\ MaxAdmitted \in Nat /\ Admin \subseteq User
  /\ Len(Config) \in Nat \ {0} /\ DOMAIN Config = 1..Len(Config)
  /\ \A c \in DOMAIN Config :
       /\ Config[c].cap \in Nat
       /\ \A p \in Policies(c) : Config[c].policies[p].cap \in Nat
  /\ Environment \cap PolicyName = {}
  /\ \A q \in DOMAIN Request : IsList(Request[q].list)
  /\ \A c \in DOMAIN Config : \A m \in DOMAIN Config[c].modules : IsList(Config[c].modules[m].items)
  /\ IsFiniteSet(Handler)

VARIABLES
  live,      \* the configuration handlers see
  caps,      \* the configuration whose rate caps the limiter has
  clock,
  buckets,   \* RateLimiter.state: bucket -> times, oldest first
  vault,     \* the secrets that can be resolved now
  registry,  \* whether the server has resolvers
  handlers,  \* what each handler has found out
  admitted,  \* the operations created
  \* History of the run:
  spent,     \* bucket -> every time it was charged
  wasted,    \* the policies of submissions that passed all caps and were then lost
  sent       \* <<operation, reference>>: literal references agents were sent

admissionVars ==
  <<live, caps, clock, buckets, vault, registry, handlers, admitted, spent, wasted, sent>>

\* A handler at pc: its request, and the configuration, the expansion and the
\* policies it has found for it.
At(pc, req, cfg, list, matched) ==
  [list |-> list, pc |-> pc, req |-> req, cfg |-> cfg, matched |-> matched]

Free == At("free", 0, 0, <<>>, {})

Bucket == Environment \cup PolicyName

AdmissionInit ==
  /\ live = 1 /\ caps = 1 /\ clock = 0
  /\ buckets = [b \in Bucket |-> <<>>] /\ spent = [b \in Bucket |-> <<>>]
  /\ registry \in BOOLEAN /\ vault \in IF registry THEN SUBSET Secret ELSE {{}}
  /\ handlers = [h \in Handler |-> Free]
  /\ admitted = <<>> /\ wasted = <<>> /\ sent = {}

-----------------------------------------------------------------------------
(* The rate limiter                                                        *)

\* The bucket from the first entry that the loop does not pop from its front:
\* t < now - 60 s.
Pruned(q) ==
  SubSeq(q, Min({i \in DOMAIN q : q[i] + Window >= clock} \cup {Len(q) + 1}), Len(q))

AtCap(b, max) == Len(Pruned(buckets[b])) >= max

\* Mutant: each cap is checked and recorded in turn.
check_and_record_InTurn(bs, max) == {b \in bs : ~AtCap(b, max[b])}

\* check_and_record_keyed_at and check_and_record_policies: the buckets that are
\* charged, under one lock all of them or none.
check_and_record(bs, max) == IF \E b \in bs : AtCap(b, max[b]) THEN {} ELSE bs

Charge(bs) ==
  /\ buckets' = [b \in Bucket |-> IF b \in bs THEN Append(Pruned(buckets[b]), clock) ELSE buckets[b]]
  /\ spent' = [b \in Bucket |-> IF b \in bs THEN Append(spent[b], clock) ELSE spent[b]]

-----------------------------------------------------------------------------
(* submit, up to each point where another handler or a reload can come in  *)

Become(h, f) == handlers' = [handlers EXCEPT ![h] = f]

\* The environment's budget is charged first, with the cap the limiter has; a
\* cap of 0 is none.
Arrive(h, q) ==
  LET max == [b \in {Request[q].env} |-> Config[caps].cap]
      capped == {b \in DOMAIN max : max[b] > 0} IN
  /\ handlers[h] = Free
  /\ Request[q].list # <<>>
  /\ Len(admitted) + Cardinality({g \in Handler : handlers[g] # Free}) < MaxAdmitted
  /\ check_and_record(capped, max) = capped
  /\ Charge(capped)
  /\ Become(h, At("budget", q, 0, <<>>, {}))
  /\ UNCHANGED <<live, caps, clock, vault, registry, admitted, wasted, sent>>

\* maintenance::check and check_recurring on one snapshot: the windows of the
\* environment, or of all, that now falls into; empty ones are skipped.
InWindow(c, env) ==
  \E w \in Config[c].windows : w.env \in {"*", env} /\ w.from <= clock /\ clock < w.to

\* A bypass is for admins; the others wait for the window to end.
Maintained(h) ==
  LET r == Request[handlers[h].req] IN
  /\ handlers[h].pc = "budget"
  /\ IF r.bypass THEN r.admin ELSE ~InWindow(live, r.env)
  /\ Become(h, At("open", handlers[h].req, 0, <<>>, {}))

Refs(list) == {list[i].ref : i \in DOMAIN list} \ {NoRef}

\* Mutant: without the fail-closed check.
MayRefer_NoRegistry(refs) == registry => refs \subseteq vault

\* References need a resolver, and all of them resolve now.
MayRefer(refs) == refs # {} => registry /\ refs \subseteq vault

Probed(h) ==
  /\ handlers[h].pc = "open"
  /\ MayRefer(Refs(Request[handlers[h].req].list))
  /\ Become(h, At("probed", handlers[h].req, 0, <<>>, {}))

\* extract_routing: a declared environment is the operation's.
extract_routing(list, env) == \A i \in DOMAIN list : list[i].env \in {NoEnv, env}

\* What each request expands to under each configuration.
Expansions ==
  [c \in DOMAIN Config |->
     [q \in DOMAIN Request |-> expand_resources(Request[q].list, Config[c].modules)]]

\* The second snapshot of the configuration, for modules and policies.
Expanded(h) ==
  LET r == Request[handlers[h].req]
      e == Expansions[live][handlers[h].req] IN
  /\ handlers[h].pc = "probed"
  /\ e.ok /\ extract_routing(e.list, r.env)
  /\ Become(h, At("expanded", handlers[h].req, live, e.list, {}))

\* Policy::matches on the kinds after expansion; an absent clause is {} or 0.
matches(p, env, list) ==
  /\ p.env # {} => p.env \cap {"*", env} # {}
  /\ Len(list) >= p.min
  /\ p.kind # {} => \E i \in DOMAIN list : list[i].kind \in p.kind
  /\ p.env # {} \/ p.kind # {} \/ p.min > 0

MatchedBy(c, q, list) ==
  {p \in Policies(c) : matches(Config[c].policies[p], Request[q].env, list)}

\* Mutant: the policies are looked up in the configuration of now.
Evaluated_Reread(h) ==
  LET f == handlers[h] IN
  /\ f.pc = "expanded"
  /\ Become(h, At("evaluated", f.req, live, f.list, MatchedBy(live, f.req, f.list)))

\* evaluate.
Evaluated(h) ==
  LET f == handlers[h] IN
  /\ f.pc = "expanded"
  /\ Become(h, At("evaluated", f.req, f.cfg, f.list, MatchedBy(f.cfg, f.req, f.list)))

\* The matched policies with a cap, charged together.
Capped(h) == {p \in handlers[h].matched : Config[handlers[h].cfg].policies[p].cap > 0}
CapsOf(h) == [p \in Capped(h) |-> Config[handlers[h].cfg].policies[p].cap]
PolicyCharged(h) ==
  LET f == handlers[h]
      charged == check_and_record(Capped(h), CapsOf(h)) IN
  /\ f.pc = "evaluated"
  /\ Charge(charged)
  /\ Become(h, IF charged = Capped(h) THEN At("admitted", f.req, f.cfg, f.list, f.matched) ELSE Free)
  /\ UNCHANGED <<live, caps, clock, vault, registry, admitted, wasted, sent>>

\* create_operation, or an error of the database.
Created(h) ==
  LET f == handlers[h]
      held == \E p \in f.matched : Config[f.cfg].policies[p].requires_approval IN
  /\ f.pc = "admitted"
  /\ Become(h, Free)
  /\ \/ /\ admitted' = Append(admitted,
              [list |-> f.list, req |-> f.req, cfg |-> f.cfg, matched |-> f.matched,
               status |-> IF held THEN "pending_approval" ELSE "running"])
        /\ UNCHANGED wasted
     \/ wasted' = Append(wasted, Capped(h)) /\ UNCHANGED admitted
  /\ UNCHANGED <<live, caps, clock, buckets, vault, registry, spent, sent>>

\* One of the checks refused the request, or the client went away.
Dropped(h) ==
  /\ handlers[h].pc \in {"budget", "open", "probed", "expanded", "evaluated"}
  /\ Become(h, Free)
  /\ UNCHANGED <<live, caps, clock, buckets, vault, registry, admitted, spent, wasted, sent>>

submitStep(h) ==
  /\ Maintained(h) \/ Probed(h) \/ Expanded(h) \/ Evaluated(h)
  /\ UNCHANGED <<live, caps, clock, buckets, vault, registry, admitted, spent, wasted, sent>>

-----------------------------------------------------------------------------
(* Approval, dispatch, and the configuration                               *)

\* Every policy the operation matched, of those that are still configured, has
\* the caller on its list or has no list.
MayApprove(u, c, names) ==
  \A p \in names \cap Policies(c) :
    LET l == Config[c].policies[p].approvers IN l = {} \/ u \in l

\* Store::approve_operation and reject_operation decide once.
Decided(o, status) ==
  /\ admitted[o].status = "pending_approval"
  /\ admitted' = [admitted EXCEPT ![o].status = status]
  /\ UNCHANGED <<live, caps, clock, buckets, vault, registry, handlers, spent, wasted, sent>>

\* Admins need no list. Anybody who may approve may reject.
approve_op(u, o) ==
  /\ u \in Admin \/ MayApprove(u, live, admitted[o].matched)
  /\ Decided(o, "running")

reject_op(o) == Decided(o, "rejected")

\* list_assignments: every reference is resolved or nothing is sent; without a
\* registry the payload goes as it is stored.
list_assignments(o) ==
  LET refs == Refs(admitted[o].list) IN
  /\ admitted[o].status = "running" /\ refs # {}
  /\ registry => refs \subseteq vault
  /\ sent' = sent \cup (IF registry THEN {} ELSE {o} \X refs)
  /\ UNCHANGED <<live, caps, clock, buckets, vault, registry, handlers, admitted, spent, wasted>>

\* reload_config sets the caps of the limiter, bucket by bucket history kept.
apply_config(c) == caps' = c /\ UNCHANGED buckets

reload_config ==
  /\ \/ caps = live /\ live < Len(Config) /\ apply_config(live + 1) /\ UNCHANGED live
     \/ caps # live /\ live' = caps /\ UNCHANGED <<caps, buckets>>
  /\ UNCHANGED <<clock, vault, registry, handlers, admitted, spent, wasted, sent>>

ClockTicks ==
  /\ clock < MaxClock /\ clock' = clock + 1
  /\ UNCHANGED <<live, caps, buckets, vault, registry, handlers, admitted, spent, wasted, sent>>

\* Somebody removes a secret from its backend, or puts it back.
VaultChanges ==
  /\ registry
  /\ \E s \in Secret : vault' = (vault \ {s}) \cup ({s} \ vault)
  /\ UNCHANGED <<live, caps, clock, buckets, registry, handlers, admitted, spent, wasted, sent>>

AdmissionNext ==
  \/ \E h \in Handler : \/ \E q \in DOMAIN Request : Arrive(h, q)
                        \/ submitStep(h) \/ PolicyCharged(h) \/ Created(h) \/ Dropped(h)
  \/ \E o \in DOMAIN admitted : \/ \E u \in User : approve_op(u, o)
                                \/ reject_op(o) \/ list_assignments(o)
  \/ reload_config \/ ClockTicks \/ VaultChanges

AdmissionSpec == AdmissionInit /\ [][AdmissionNext]_admissionVars

-----------------------------------------------------------------------------

\* "A single submission needs a consistent module set across expansion + policy
\* evaluation": what an operation contains and which policies it answers to are
\* those of one configuration, whenever SIGHUP comes (submit, reload_config).
OneConfiguration ==
  \A o \in DOMAIN admitted : \E c \in 1..live :
    LET a == admitted[o] IN
    /\ a.list = Expansions[c][a.req].list
    /\ a.matched = MatchedBy(c, a.req, a.list)

\* The caps a bucket has had.
LimitsOf(b) ==
  IF b \in Environment THEN {Config[c].cap : c \in 1..caps}
  ELSE {Config[c].policies[b].cap : c \in {d \in 1..live : b \in Policies(d)}}

\* Its charges within Window after t.
Used(b, t) == {i \in DOMAIN spent[b] : t <= spent[b][i] /\ spent[b][i] <= t + Window}

\* Where the charges of a policy are: with handlers, operations, and lost.
Holding(b) == {h \in Handler : handlers[h].pc = "admitted" /\ b \in Capped(h)}
CountedIn(b) ==
  {o \in DOMAIN admitted : b \in admitted[o].matched /\ Config[admitted[o].cfg].policies[b].cap > 0}
WastedOn(b) == {i \in DOMAIN wasted : b \in wasted[i]}

\* No minute holds more charges of a bucket than the highest cap it has had, over
\* reloads and old charges that were dropped, and a policy's budget is spent on submissions that passed
\* the caps of all the policies they matched: "truly atomic, no partial
\* recording" (check_and_record_policies, apply_config).
BudgetsHold ==
  \A b \in Bucket :
    /\ LET max == Max({0} \cup LimitsOf(b)) IN
       \A t \in 0..clock : Cardinality(Used(b, t)) <= max
    /\ b \notin Environment =>
         Len(spent[b]) =
           Cardinality(Holding(b)) + Cardinality(CountedIn(b)) + Cardinality(WastedOn(b))

\* An agent is sent a literal ${secret://...} over HTTP only by a server without
\* resolvers, and only one that a module's template brought in: "fail closed so
\* operators don't ship literal strings to agents" (submit, list_assignments).
LiteralsComeFromTemplates ==
  \A x \in sent :
    LET mods == Config[admitted[x[1]].cfg].modules IN
    /\ ~registry
    /\ \E m \in DOMAIN mods : \E i \in DOMAIN mods[m].items : mods[m].items[i].ref = x[2]

=============================================================================
