------------------------------ MODULE MCSubmit ------------------------------
(***************************************************************************)
(* What happens to a submission: Expansion on every pair of small modules, *)
(* DepSort on every small list, Admission with two handlers and two        *)
(* configurations, and Desired with three operations on two hosts. A part  *)
(* is one of them; the others keep their initial state.                    *)
(***************************************************************************)
EXTENDS Admission, DepSort, Desired, TLC

CONSTANT Parts

VARIABLES
  part,
  library,   \* the modules of part "expand"
  submitted, \* and the list it expands
  result     \* what it expands to, <<>> before it does

libraryVars == <<library, submitted, result>>

-----------------------------------------------------------------------------
(* Expand                                                                  *)

Res(kind, env, fields, ref) == [kind |-> kind, env |-> env, fields |-> fields, ref |-> ref]

\* Modules render files, services with or without a spec, and each other.
MCItem == {Item("file", FALSE, {}, NoRef), Item("service", TRUE, {"main"}, "tls"),
           Item("m1", TRUE, {}, Passed), Item("m2", FALSE, {"main"}, NoRef)}
MCItems == UNION {[1..n -> MCItem] : n \in 0..2}
MCLibraries == [{"m1", "m2"} -> {Template({"main"}, {}, is) : is \in MCItems}]
NoLibrary == [m \in {"m1", "m2"} |-> Template({"main"}, {}, <<>>)]
MCLists == {<<Res("m1", NoEnv, {}, "db"), Res("file", "prod", {}, NoRef)>>,
            <<Res("service", "prod", {}, NoRef)>>}

ExpandInit == library \in MCLibraries /\ submitted \in MCLists
ExpandStep == /\ result = <<>>
              /\ result' = <<expand_resources(submitted, library)>>
              /\ UNCHANGED <<library, submitted>>

\* A composite becomes what its templates render, all the way down and in their
\* order; it is refused exactly when modules nest deeper than
\* MAX_EXPANSION_DEPTH, as those that call themselves do, or a spec on the way
\* does not fit its template (expand_resources).
ExpandsToLeaves ==
  result # <<>> => result[1] = Forest(submitted, library, 2)

-----------------------------------------------------------------------------
(* Sort, desired, admission                                                *)

MCDistinct == {<<1, 2, 3, 4>>, <<1, 2, 3>>}

MCHome == ("r" :> "a" @@ "s" :> "b")
MCBundles == {{"r"}, {"r", "s"}}

Policy(env, kind, min, requires_approval, approvers, cap) ==
  [kind |-> kind, env |-> env, min |-> min, requires_approval |-> requires_approval,
   approvers |-> approvers, cap |-> cap]

\* First an own module for a web server; then its template also has a secret and
\* policies are stricter, with a window over all environments.
MCConfig ==
  LET web1 == Template({}, {}, <<Item("service", TRUE, {"main"}, Passed)>>)
      web2 == Template({}, {}, <<Item("file", TRUE, {}, "tls"), Item("service", TRUE, {"main"}, NoRef)>>)
      many == Policy({"*"}, {}, 3, FALSE, {}, 1)
      docker(cap) == Policy({"prod"}, {"docker.container"}, 0, TRUE, {"alice"}, cap)
  IN <<[cap |-> 2, modules |-> [web |-> web1], windows |-> {},
        policies |-> [docker |-> docker(2)]],
       [cap |-> 1, modules |-> [web |-> web2], windows |-> {[env |-> "*", from |-> 1, to |-> 2]},
        policies |-> [many |-> many, docker |-> docker(1)]]>>

MCRequest ==
  <<[env |-> "prod", list |-> <<Res("web", "prod", {}, "db")>>, bypass |-> FALSE, admin |-> FALSE],
    [env |-> "prod", list |-> <<Res("web", "prod", {}, NoRef), Res("file", NoEnv, {}, NoRef)>>,
     bypass |-> TRUE, admin |-> TRUE]>>

-----------------------------------------------------------------------------

SubmitVars == <<part, libraryVars, admissionVars, vars, desiredVars>>

\* The initial state a part that is not run rests in.
SubmitInit ==
  /\ part \in Parts
  /\ IF part = "expand" THEN ExpandInit ELSE library = NoLibrary /\ submitted = <<>>
  /\ result = <<>>
  /\ IF part = "sort" THEN Init
     ELSE /\ ids = <<>> /\ dependsOn = <<>> /\ pc = "build" /\ inDegree = <<>>
          /\ queue = <<>> /\ order = <<>> /\ layers = <<>>
  /\ AdmissionInit /\ (part # "admission" => registry = FALSE)
  /\ DesiredInit

SubmitNext ==
  /\ \/ part = "expand" /\ ExpandStep /\ UNCHANGED <<admissionVars, vars, desiredVars>>
     \/ part = "sort" /\ Next /\ UNCHANGED <<libraryVars, admissionVars, desiredVars>>
     \/ part = "admission" /\ AdmissionNext /\ UNCHANGED <<libraryVars, vars, desiredVars>>
     \/ part = "desired" /\ DesiredNext /\ UNCHANGED <<libraryVars, admissionVars, vars>>
  /\ UNCHANGED part

\* Handlers are interchangeable.
HandlerSymmetry == Permutations(Handler)

SubmitSpec == SubmitInit /\ [][SubmitNext]_SubmitVars

=============================================================================
