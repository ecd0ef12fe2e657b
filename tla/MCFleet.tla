------------------------------- MODULE MCFleet -------------------------------
(***************************************************************************)
(* Small instances of Fleet.                                               *)
(***************************************************************************)
EXTENDS Fleet, TLC

Prod == "prod"
MCAgentEnv == [a \in Agent |-> Prod]

\* Two layers on two hosts.
Chain ==
  [env |-> Prod,
   deps |-> [db |-> {}, web |-> {"db"}],
   host |-> [db |-> 1, web |-> 2]]

\* Two layers on one host.
OneHost ==
  [env |-> Prod,
   deps |-> [db |-> {}, web |-> {"db"}],
   host |-> [db |-> 1, web |-> 1]]

MCManifestChain   == {Chain}
MCManifestOneHost == {OneHost}

\* Handlers are interchangeable.
PollSymmetry == Permutations(Poll)

=============================================================================
