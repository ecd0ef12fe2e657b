SPECIFICATION SubmitSpec
CONSTANTS
  Parts = {"desired"}
  MaxDepth = 2
  NoEnv = NoEnv
  NoRef = NoRef
  Passed = Passed
  Request <- MCRequest
  Config <- MCConfig
  Handler = {h1, h2}
  User = {"alice", "bob", "root"}
  Admin = {"root"}
  Secret = {"db", "tls"}
  Window = 1
  MaxClock = 2
  MaxAdmitted = 2
  NoHost = NoHost
  NoAgent = NoAgent
  NoCanary = NoCanary
  IdList <- MCDistinct
  Id = {1, 2, 3, 4}
  Resource = {"r", "s"}
  Agent = {"a", "b"}
  Home <- MCHome
  Bundles <- MCBundles
  Cap = 2
  MaxOps = 3
  MaxUpset = 1
INVARIANT NothingUnapproved
CHECK_DEADLOCK FALSE
