SPECIFICATION SceneSpec
CONSTANTS
  NoHost = NoHost
  NoAgent = NoAgent
  NoCanary = NoCanary
  NoManifest = NoManifest
  AgentEnv <- MCAgentEnv
  Agent = {1, 2, 3}
  SshAgent = {2}
  MaxLayer = 2
  Op = {1, 2}
  Manifest <- MCManifest
  CanarySpec <- MCCanary
  Poll = {p1, p2}
  Tx = {t1, t2}
  Dialect = "sqlite"
  Scenes = {"claims", "gates", "racing"}
INVARIANTS FinishedIffSettled LayerGate CanaryGateLayerZero NoStrandedRows
PROPERTY RacingIsOneStep
SYMMETRY PollSymmetry
CHECK_DEADLOCK FALSE
