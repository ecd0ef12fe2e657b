SPECIFICATION FairFleetSpec
CONSTANTS
  NoHost = NoHost
  NoAgent = NoAgent
  NoCanary = NoCanary
  NoManifest = NoManifest
  NoPoll = NoPoll
  NoRow = NoRow
  NoResult = NoResult
  AgentEnv <- MCAgentEnv
  Agent = {1, 2}
  SshAgent = {}
  MaxLayer = 1
  Op = {1}
  Manifest <- MCManifestChain
  CanarySpec = {}
  Poll = {p1}
  MaxCrash = 1
  MaxDbFault = 0
  EnvelopesAge = FALSE
PROPERTY FleetSettles
CHECK_DEADLOCK FALSE
