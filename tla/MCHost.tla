------------------------------- MODULE MCHost -------------------------------
(***************************************************************************)
(* A host: Executor with a file, a unit and a virtual host; Drivers with a *)
(* few specs and worlds per provider; and Plugin. A part is one of them;   *)
(* the others keep an initial state.                                       *)
(***************************************************************************)
EXTENDS Executor, Drivers, Plugin, TLC

VARIABLE part

-----------------------------------------------------------------------------
(* Executor                                                                *)

FileOf(c, m) == [res |-> "f", spec |-> [present |-> TRUE, content |-> c, meta |-> m]]
NoFile == [res |-> "f", spec |-> [present |-> FALSE, content |-> Unmanaged, meta |-> Unmanaged]]
UnitOf(e, a) == [res |-> "u", spec |-> [enabled |-> e, active |-> a]]
VhostOf(c) == [res |-> "v", spec |-> [present |-> TRUE, content |-> c]]
NoVhost == [res |-> "v", spec |-> AbsentVhost]

\* All comes up; all goes away and a configuration is refused; a virtual host
\* goes and only the mode of the file is managed.
MCManifest ==
  {<<FileOf("a", "0644"), UnitOf(TRUE, TRUE), VhostOf("a")>>,
   <<VhostOf("bad"), UnitOf(FALSE, FALSE), NoFile>>,
   <<NoVhost, FileOf(Unmanaged, "0644")>>}

HostOf(f, u, v) == [r \in Resource |-> CASE r = "f" -> f [] r = "u" -> u [] r = "v" -> v]

\* Nothing is there yet and the unit is masked; all is there.
MCInitHost ==
  {HostOf(AbsentFile, [active |-> FALSE, file |-> "masked"], AbsentVhost),
   HostOf([present |-> TRUE, content |-> "a", meta |-> "0600"],
          [active |-> TRUE, file |-> "enabled"], [present |-> TRUE, content |-> "a"])}

-----------------------------------------------------------------------------
(* Drivers                                                                 *)

Box(r, o, v, e, c, t, n, x) ==
  [present |-> TRUE, ref |-> r, opts |-> o, vol |-> v, env |-> e, cmd |-> c,
   tmpfs |-> t, net |-> n, extra |-> x]
Stack(n, r) == [present |-> TRUE, source |-> [names |-> n, rev |-> r]]
RuleIn(c, b) == [present |-> TRUE, tag |-> "web", table |-> "filter", chain |-> c, body |-> b]
NoRule(c) == [present |-> FALSE, tag |-> "web", table |-> "filter", chain |-> c, body |-> "x"]

MCSpecsOf ==
  [k \in Kind |->
     CASE k = "docker.container" ->
            {Box("a", "o", "long", {"X"}, "none", FALSE, Gone, <<>>),
             Box("b", "p", "none", {}, "c", TRUE, "n", <<"m">>), NoContainer}
       [] k = "docker.compose" ->
            {Stack({"s", "t"}, "1"), Stack({"s"}, "2"), [present |-> FALSE, source |-> Gone]}
       [] k = "firewall.rule" ->
            {RuleIn("INPUT", "x"), RuleIn("INPUT", "y"), NoRule("INPUT")}
       [] k = "dns.record" ->
            {[present |-> TRUE, value |-> "1"], [present |-> TRUE, value |-> "2"],
             [present |-> FALSE, value |-> Gone]}
       [] k = "acme.certificate" -> {[present |-> TRUE], [present |-> FALSE]}
       [] k = "monitoring.check" -> {[present |-> TRUE, retries |-> 1], [present |-> FALSE, retries |-> 0]}
       [] k = "cron.job" ->
            {[present |-> TRUE, line |-> "1"], [present |-> TRUE, line |-> "2"],
             [present |-> FALSE, line |-> Gone]}
       [] k = "package" ->
            {[present |-> TRUE, version |-> "1"], [present |-> TRUE, version |-> Gone],
             [present |-> FALSE, version |-> Gone]}
       [] k = "sysctl.setting" -> {[val |-> "0"], [val |-> "1"]}
       [] k = "plugin" ->
            {[present |-> TRUE, obj |-> "1"], [present |-> TRUE, obj |-> "2"], [present |-> FALSE, obj |-> Gone]}]

Other == [tag |-> "ssh", table |-> "filter", chain |-> "INPUT", body |-> "y"]

MCWorldsOf ==
  [k \in Kind |->
     CASE k = "docker.container" ->
            {[reg |-> [r \in {"a", "b"} |-> 1], loc |-> [r \in {"a", "b"} |-> Gone], box |-> b] :
               b \in {Gone, [ref |-> "a", opts |-> "o", vol |-> "short",
                             env |-> {"PATH", "Y"}, cmd |-> "default", tmpfs |-> FALSE,
                             id |-> 0, nets |-> {"n", "m"}, running |-> FALSE]}}
       [] k = "docker.compose" -> {[file |-> Gone, has |-> [x \in {"s", "t"} |-> Gone]]}
       [] k = "firewall.rule" -> {[rules |-> <<Other>>]}
       [] k = "dns.record" -> {[rec |-> Gone], [rec |-> "2"]}
       [] k = "acme.certificate" ->
            {[cert |-> Gone, key |-> Gone, count |-> 0],
             [cert |-> [pair |-> 1, fresh |-> FALSE], key |-> 1, count |-> 1]}
       [] k = "monitoring.check" -> {[healthy |-> FALSE], [healthy |-> TRUE]}
       [] k = "cron.job" -> {[text |-> Gone], [text |-> <<"by hand">>]}
       [] k = "package" -> {[version |-> Gone, status |-> "unknown"],
                            [version |-> "1", status |-> "installed"]}
       [] k = "sysctl.setting" -> {[val |-> Gone], [val |-> "0"]}
       [] k = "plugin" -> {[obj |-> Gone], [obj |-> "3"]}]

MCPlaces == <<[table |-> "filter", chain |-> "INPUT"], [table |-> "filter", chain |-> "OUTPUT"]>>

-----------------------------------------------------------------------------

ExecutorRests == Init /\ host = HostOf(AbsentFile, [active |-> FALSE, file |-> "masked"], AbsentVhost)
DriverRests == DriversInit /\ kind = "sysctl.setting" /\ world.val = Gone
PluginRests == PluginInit /\ ~sick

CallerSymmetry == Permutations(Caller)

HostInit ==
  \/ part = "executor" /\ Init /\ DriverRests /\ PluginRests
  \/ part = "driver" /\ DriversInit /\ ExecutorRests /\ PluginRests
  \/ part = "plugin" /\ PluginInit /\ ExecutorRests /\ DriverRests

HostNext ==
  \/ part = "executor" /\ Next /\ UNCHANGED <<part, driverVars, pluginVars>>
  \/ part = "driver" /\ DriversNext /\ UNCHANGED <<part, vars, pluginVars>>
  \/ part = "plugin" /\ PluginNext /\ UNCHANGED <<part, vars, driverVars>>

HostSpec == HostInit /\ [][HostNext]_<<part, vars, driverVars, pluginVars>>

=============================================================================
