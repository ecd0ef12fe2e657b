SPECIFICATION ClientsSpec
CONSTANTS
  None = None
  User = {a, b}
  Token = {1, 2, 3}
  Request = {q1, q2}
  RoleSet <- MCRoleSet
  Dialect = "postgres"
  LegacyAdmin = FALSE
  MaxEpoch = 1
  Nil = Nil
  Key = {1, 2, 3}
  Bearer = {1, 2, 3}
  MaxFault = 2
  CmdApply = CmdApply
  CmdRun = CmdRun
  CmdPlan = CmdPlan
  h1 = h1
  h2 = h2
  h3 = h3
  h4 = h4
  h5 = h5
  h6 = h6
  h7 = h7
  CmdSsh = CmdSsh
  MaxCommit = 1
  Cmd <- MCCmd
  Job <- MCJob
  Entry <- MCEntry
  Of <- MCOf
  Machine <- MCMachine
  WithIac = {}
  OtherArch = {"n"}
  Authorised = TRUE
  Unset = Unset
  MaxParallel = 2
  FailFast = TRUE
  AutoBootstrap = TRUE
  MaxSlip = 2
  CliLogin = CliLogin
  CliLogout = CliLogout
  CliApply = CliApply
  CliAgain = CliAgain
  Client <- MCClient
  Order <- MCOrder
  Faulty = {CliAgain}
  NoToken = NoToken
  MaxTurn = 3
  MaxMiss = 1
  Parts = {"accounts", "trust", "cli_apply", "cli_run", "cli_ssh", "server"}
INVARIANTS TokensFollowLogins LockedOutOnlyByLoss NeverStranded CommandsTellTheTruth
PROPERTY AdminRemains
SYMMETRY UserSymmetry
CHECK_DEADLOCK FALSE
