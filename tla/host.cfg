SPECIFICATION HostSpec
CONSTANTS
  File = {"f"}
  Unit = {"u"}
  Vhost = {"v"}
  Text = {"empty", "a", "bad"}
  Empty = "empty"
  Refused = {"bad"}
  Meta = {"0600", "0644"}
  NewMeta = "0600"
  NoSpec = NoSpec
  Manifest <- MCManifest
  InitHost <- MCInitHost
  Keep = 1
  MaxOps = 2
  MaxTrouble = 2
  Gone = Gone
  Ref = {"a", "b"}
  Service = {"s", "t"}
  Backend = "iptables"
  Places <- MCPlaces
  Prefix = {}
  Kind = {"docker.container", "docker.compose", "firewall.rule", "dns.record", "acme.certificate", "monitoring.check", "cron.job", "package", "sysctl.setting", "plugin"}
  SpecsOf <- MCSpecsOf
  WorldsOf <- MCWorldsOf
  MaxApply = 3
  MaxUpset = 2
  Caller = {c1, c2}
  Nobody = Nobody
  RestartOnCrash = TRUE
  MaxCalls = 3
  MaxSpawn = 6
  MaxTime = 1
  MaxFault = 2
INVARIANTS
  Undoable
  RollbackRestores
  OkMeansConforms
  UndoRestores
  RetrySucceeds
  AnsweredAndDone
  RecordsAreTrue
SYMMETRY CallerSymmetry
CHECK_DEADLOCK FALSE
