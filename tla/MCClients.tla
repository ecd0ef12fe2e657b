----------------------------- MODULE MCClients ------------------------------
(***************************************************************************)
(* Those who call the control plane, or do without it: users and their     *)
(* tokens (Accounts), an agent, its token and the keys (Trust), the        *)
(* command line over git and SSH (CommandLine) or by way of the server     *)
(* (ServerClient).  They have no state in common, so a behaviour moves one *)
(* of them: part is chosen in the initial state and the others rest.       *)
(***************************************************************************)
EXTENDS Accounts, Trust, ServerClient, TLC

CONSTANTS Parts, CmdApply, CmdRun, CmdPlan, CmdSsh, h1, h2, h3, h4, h5, h6, h7,
          CliLogin, CliLogout, CliApply, CliAgain

VARIABLE part

MCRoleSet == {{"operator"}, {"admin"}}

UserSymmetry == Permutations(User) \union Permutations(Request)

\* The group of iac apply names a machine twice and one more host, which the
\* limit leaves out; iac run works on three hosts, apply --ssh on one. All
\* use one branch.
MCCmd == {CmdApply, CmdRun, CmdPlan, CmdSsh}
MCEntry == {h1, h2, h3, h4, h5, h6, h7}
NoLimit == [include |-> {}, exclude |-> {}]
MCJob ==
  (CmdApply :> [kind |-> "apply", ref |-> "main", limit |-> [include |-> {}, exclude |-> {{h3}}]])
  @@ (CmdRun :> [kind |-> "run", ref |-> "main", limit |-> NoLimit])
  @@ (CmdSsh :> [kind |-> "ssh", ref |-> "main", limit |-> NoLimit])
  @@ (CmdPlan :> [kind |-> "plan", ref |-> "main", limit |-> NoLimit])
MCOf == [e \in MCEntry |-> IF e \in {h1, h2, h3} THEN CmdApply ELSE IF e = h7 THEN CmdSsh ELSE CmdRun]
MCMachine == [e \in MCEntry |-> IF e \in {h1, h2, h7} THEN "m" ELSE "n"]

\* Two applies and a logout after a login to one server.
MCClient == {CliLogin, CliLogout, CliApply, CliAgain}
MCOrder ==
  [c \in MCClient |->
     [kind |-> CASE c = CliLogin -> "login" [] c = CliLogout -> "logout" [] OTHER -> "apply",
      server |-> "s"]]

\* The invocations of a part.
Called == CASE part = "cli_run" -> {CmdRun} [] part = "cli_ssh" -> {CmdSsh}
            [] OTHER -> {CmdApply, CmdPlan}

ClientsInit == AccountsInit /\ TrustInit /\ CommandLineInit /\ ServerClientInit /\ part \in Parts

ClientsNext ==
  /\ \/ part = "accounts" /\ AccountsNext /\ UNCHANGED <<trustVars, cliVars, clientVars>>
     \/ part = "trust" /\ TrustNext /\ UNCHANGED <<accountVars, cliVars, clientVars>>
     \/ /\ part \in {"cli_apply", "cli_run", "cli_ssh"} /\ CommandLineNext
        /\ \A c \in Cmd \ Called : inv'[c] = inv[c]
        /\ UNCHANGED <<accountVars, trustVars, clientVars>>
     \/ part = "server" /\ ServerClientNext /\ UNCHANGED <<accountVars, trustVars, cliVars>>
  /\ UNCHANGED part

ClientsSpec == ClientsInit /\ [][ClientsNext]_<<accountVars, trustVars, cliVars, clientVars, part>>

=============================================================================
