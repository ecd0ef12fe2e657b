------------------------------ MODULE MCRollout ------------------------------
(***************************************************************************)
(* Rollout and RolloutTx on small instances. A scene says which of them a  *)
(* behaviour is about: two operations whose rows are claimed, lost and     *)
(* claimed again; one operation with layers and canaries on three hosts;   *)
(* or reports that race statement by statement.                            *)
(***************************************************************************)
EXTENDS RolloutTx, TLC

CONSTANT Scenes

VARIABLE scene

\* Every agent is registered for this environment.
Prod == "prod"
MCAgentEnv == [a \in Agent |-> Prod]

\* Two hosts, a second layer on the first one.
TwoLayers ==
  [env |-> Prod,
   deps |-> [web1 |-> {}, web2 |-> {}, lb |-> {"web1", "web2"}],
   host |-> [web1 |-> 1, web2 |-> 2, lb |-> 1]]

\* Two layers, both spread over two hosts.
TwoWideLayers ==
  [env |-> Prod,
   deps |-> [db1 |-> {}, db2 |-> {}, web1 |-> {"db1"}, web2 |-> {"db2"}],
   host |-> [db1 |-> 1, db2 |-> 2, web1 |-> 1, web2 |-> 2]]

\* One layer over three hosts.
ThreeHosts ==
  [env |-> Prod,
   deps |-> [h1 |-> {}, h2 |-> {}, h3 |-> {}],
   host |-> [h1 |-> 1, h2 |-> 2, h3 |-> 3]]

\* A chain of three layers over three hosts.
Chain ==
  [env |-> Prod,
   deps |-> [a |-> {}, b |-> {"a"}, c |-> {"b"}],
   host |-> [a |-> 1, b |-> 2, c |-> 3]]

\* Chain has a hole, or nothing in layer 0, when it is submitted before all of
\* its hosts are registered.
MCManifest == {TwoLayers, TwoWideLayers, ThreeHosts, Chain}

Canary(pct, min_count) == [pct |-> pct, min_count |-> min_count]
MCCanary == {Canary(34, 1), Canary(10, 2)}

\* The manifests and agents of a scene, whether its operations may be held and
\* split, and how many handlers it has.
Scene(ms, as, gated, n) ==
  /\ \A o \in Op : desired[o] \in ms \cup {NoManifest}
  /\ registered \subseteq as
  /\ ~gated => /\ \A r \in Row : batch[r] = NoBatch
               /\ \A o \in Op : opStatus[o] # "pending_approval"
  /\ Cardinality({p \in Poll : polls[p] # Idle}) <= n

InScene ==
  /\ scene = "claims" => Scene({TwoLayers}, {1, 2}, FALSE, 2)
  /\ scene = "gates" => Scene({TwoLayers, TwoWideLayers, ThreeHosts, Chain}, Agent, TRUE, 1)
  /\ scene = "racing" => Scene({TwoLayers}, {1, 2}, TRUE, 1)

SceneVars == <<txVars, scene>>

\* Where one operation is enough, the first one has been rejected already; where
\* only the claims matter, the hosts are registered.
SceneInit ==
  /\ scene \in Scenes
  /\ desired = [o \in Op |-> IF o = 1 /\ scene # "claims" THEN TwoLayers ELSE NoManifest]
  /\ opStatus = [o \in Op |-> IF o = 1 /\ scene # "claims" THEN "rejected" ELSE "none"]
  /\ registered = IF scene = "claims" THEN {1, 2} ELSE {}
  /\ expired = {} /\ shipped = {}
  /\ asg = [r \in Row |-> "absent"] /\ batch = [r \in Row |-> NoBatch]
  /\ polls = [p \in Poll |-> Idle]
  /\ tx = [t \in Tx |-> NoTx]

SceneNext ==
  /\ \/ scene # "racing" /\ Next /\ UNCHANGED tx
     \/ scene = "racing" /\ TxNext
  /\ UNCHANGED scene /\ InScene'

SceneSpec == SceneInit /\ [][SceneNext]_SceneVars

\* Handlers are interchangeable.
PollSymmetry == Permutations(Poll)

=============================================================================
