SPECIFICATION SceneSpec
CONSTANTS
  NoHost = NoHost
  NoAgent = NoAgent
  NoCanary = NoCanary
  NoManifest = NoManifest
  AgentEnv <- MCAgentEnv
  Agent = {1, 2, 3}
  SshAgent = {2}
  MaxLayer = 2
  Op = {1, 2}
  Manifest <- MCManifest
  CanarySpec <- MCCanary
  Poll = {p1, p2}
  Tx = {t1, t2}
  Dialect = "postgres"
  Scenes = {"racing"}
INVARIANT RacingCompletionsAreSafe
SYMMETRY PollSymmetry
CHECK_DEADLOCK FALSE
