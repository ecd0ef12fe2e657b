SPECIFICATION FleetSpec
CONSTANTS
  NoHost = NoHost
  NoAgent = NoAgent
  NoCanary = NoCanary
  NoManifest = NoManifest
  NoPoll = NoPoll
  NoRow = NoRow
  NoResult = NoResult
  AgentEnv <- MCAgentEnv
  Agent = {1}
  SshAgent = {}
  MaxLayer = 1
  Op = {1}
  Manifest <- MCManifestOneHost
  CanarySpec = {}
  Poll = {p1, p2}
  MaxCrash = 1
  MaxDbFault = 1
  EnvelopesAge = TRUE
INVARIANTS AppliedOncePerFault ResultsAreReal
SYMMETRY PollSymmetry
CHECK_DEADLOCK FALSE
PROPERTY ImplementsRollout
