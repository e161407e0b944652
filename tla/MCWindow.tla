-------------------------------- MODULE MCWindow ------------------------------
(* Small instances of parts of the window that share no state, explored    *)
(* side by side: one of them runs, the others stay as they start.          *)
EXTENDS LogStreams, ExecSessions, ListActions, SecurityScan, Sections, PodPanel, DetailPanels,
        HelmReleases, HelmBrowser, ConnectivityRuns, TopologyPanel, Settings, Updates,
        Plugins, GitOps, CustomResources, Overview, TLC

CONSTANTS a, b   \* contexts

VARIABLE part   \* the part that runs

const_log_pods == <<"p1", "p2">>
const_home == ("p1" :> "ns1") @@ ("p2" :> "ns2")
Object(k, n, c) == [kind |-> k, name |-> n, ctx |-> c]
const_objects ==
  {Object("deployments", "x", "a"), Object("deployments", "y", "a"),
   Object("services", "x", "a"), Object("deployments", "x", "b")}
Offer(t, s, n, c, p) == [type |-> t, ns |-> s, name |-> n, ctx |-> c, ports |-> p]
const_offers ==
  {Offer("pod", "ns1", "x", "a", <<"80", "80", "90">>), Offer("pod", "ns2", "y", "a", <<>>),
   Offer("service", "ns1", "x", "a", <<"80">>), Offer("pod", "ns1", "x", "b", <<"70">>),
   Offer("service", "ns1", "y", "b", <<"80", "90">>)}
const_containers == <<"c1", "c2">>
const_versions == <<"v2", "v1">>
const_steps == <<"dns", "tcp", "http">>
Edge(f, t, k) == [from |-> f, to |-> t, kind |-> k]
const_shapes ==
  [small |-> [nodes |-> {"pod"}, edges |-> {Edge("pod", "node", "hubble-flow")}],
   large |-> [nodes |-> {"pod", "node"},
              edges |-> {Edge("pod", "node", "runs"), Edge("pod", "pod", "hubble-flow")}]]
Line(p, k, i, s) == [pod |-> p, container |-> k, image |-> i, state |-> s]
const_lines ==
  {Line("p1", "c", "i1", "found"), Line("", "c", "", "found"), Line("", "c", "i2", "latest"),
   Line("p2", "c", "", "found"), Line("p2", "", "i1", "latest"), Line("p2", "c", "i1", "unable"),
   Line("", "c", "i2", "found"), Line("p1", "c", "i2", "unable")}
Verdict(r, s) == [ready |-> r, status |-> s]
const_verdicts ==
  {Verdict(TRUE, "Healthy"), Verdict(FALSE, "Progressing"), Verdict(FALSE, "Synced")}
Place(c, n) == [ctx |-> c, ns |-> n]
const_places == {Place("a", "_all"), Place("a", "ns1"), Place("b", "_all"), Place("c", "_all")}
const_first == Place("a", "_all")
const_deliveries == {[kind |-> "Application", ns |-> "ns1"], [kind |-> "AppProject", ns |-> "ns2"]}
Spot(k, c, n) == [kind |-> k, ctx |-> c, ns |-> n]
const_spots ==
  {Spot("k1", "a", "_all"), Spot("k1", "a", "ns1"), Spot("k2", "a", "_all"),
   Spot("k1", "b", "_all")}
const_spot == Spot("k1", "a", "_all")
Workload(n, k, s, o, i, f, d) ==
  [name |-> n, kind |-> k, ns |-> s, owned |-> o, image |-> i, flaw |-> f, advice |-> d]
const_clusters ==
  [c \in {a, b} |->
     IF c = a THEN {Workload("x", "Deployment", "ns1", FALSE, "i1", "error", "none"),
                    Workload("x", "Pod", "ns1", TRUE, "i1", "error", "none"),
                    Workload("y", "Pod", "ns2", FALSE, "i2", "none", "warning"),
                    Workload("z", "CronJob", "sys", FALSE, "i3", "warning", "error")}
     ELSE {Workload("x", "Deployment", "ns2", FALSE, "i3", "info", "warning"),
           Workload("n", "Node", "", FALSE, "os", "none", "none")}]
const_severity ==
  ("i1" :> "CRITICAL") @@ ("i2" :> "LOW") @@ ("i3" :> "none") @@ ("os" :> "HIGH")
CustomName(s, n) == [name |-> s, ns |-> n]
const_customs == {CustomName("x", "ns1"), CustomName("x", "ns2"), CustomName("y", "ns1")}
OnePod(n, s, h, l, c) ==
  [name |-> n, ns |-> s, node |-> "n1", phase |-> h.phase, waiting |-> h.waiting,
   ready |-> h.ready, deleted |-> h.deleted, restarts |-> h.restarts, 
   req |-> IF l = 0 THEN 0 ELSE 100, lim |-> l, cpu |-> c, scaled |-> n = "p1"]
Condition(p, w, r, d, n) ==
  [phase |-> p, waiting |-> w, ready |-> r, deleted |-> d, restarts |-> n]
Fine == Condition("Running", "none", TRUE, FALSE, 0)
Crashing == Condition("Running", "CrashLoopBackOff", FALSE, FALSE, 5)
Unready == Condition("Running", "none", FALSE, FALSE, 950)
Broken == Condition("Failed", "none", FALSE, FALSE, 0)
Leaving == Condition("Running", "none", TRUE, TRUE, 1)
Deploy(s, w, r) == [ns |-> s, want |-> w, ready |-> r]
Host(n, r, c, u) == [name |-> n, ready |-> r, cpu |-> c, used |-> u]
Note(i, y, t) == [id |-> i, type |-> y, at |-> t]
Cert(n, s, e, w) == [name |-> n, ns |-> s, ends |-> e, bad |-> w]
const_views == {Place("a", "_all"), Place("a", "ns1"), Place("b", "_all")}
const_calm ==
  [pods |-> <<OnePod("p1", "ns1", Fine, 200, 5), OnePod("p2", "ns2", Leaving, 0, 150)>>,
   deployments |-> {Deploy("ns1", 1, 1), Deploy("ns2", 0, 0)},
   nodes |-> {Host("n1", TRUE, 200, 100), Host("n2", TRUE, 100, 90)},
   events |-> {Note(1, "Normal", 0), Note(2, "Warning", -1)},
   certs |-> {Cert("x", "ns1", 1, FALSE), Cert("y", "ns2", 9, FALSE), Cert("z", "ns2", 0, TRUE)}]
const_worse ==
  [pods |-> <<OnePod("p3", "ns1", Unready, 200, 199), OnePod("p1", "ns2", Crashing, 200, -1),
              OnePod("p2", "ns2", Broken, 0, -1)>>,
   deployments |-> {Deploy("ns1", 1, 1), Deploy("ns2", 2, 1)},
   nodes |-> {Host("n1", FALSE, 300, -1)},
   events |-> {Note(1, "Warning", 1), Note(2, "Normal", 1), Note(3, "Warning", 0),
              Note(4, "Normal", 9)},
   certs |-> {Cert("x", "ns1", -1, FALSE), Cert("y", "ns2", 2, FALSE)}]
const_worlds == [calm |-> const_calm, worse |-> const_worse]

all == <<logVars, execVars, benchVars, forwardVars, scanVars, sectionVars, listVars,
         panelVars, detailVars, helmVars, browserVars, testerVars, graphVars, prefVars,
         updateVars, pluginVars, hubVars, customVars, overviewVars, part>>

WindowInit ==
  /\ part \in {"logs", "exec", "launcher", "forwards", "scan", "sieve", "orders",
               "sections", "list", "pod", "details", "helm", "browser", "tester",
               "graph", "settings", "kubeconfig", "updates", "plugins", "krew", "tables",
               "gitops", "manifest", "reports", "custom", "saves", "definition",
               "dashboard", "metrics", "certs", "trail", "life"}
  /\ LogInit /\ ExecInit /\ LaunchInit /\ ForwardInit /\ ScanInit /\ SectionsInit
  /\ ListInit /\ PanelInit /\ DetailInit /\ HelmInit /\ BrowserInit /\ TesterInit
  /\ TopologyInit /\ PrefInit /\ UpdatesInit /\ PluginsInit /\ GitOpsInit /\ CustomInit
  /\ OverviewInit
  \* What a part may start from is fixed where the part does not run.
  /\ part # "list" => screen.section = "deployments"
  /\ part # "details" => kindOf = "deployment"
  /\ part # "browser" => ~offer
  /\ part # "graph" => world.shape = "small" /\ relay
  /\ part \notin {"plugins", "krew"} => krew = "unknown"
  /\ part = "saves" => hostOf = "section"
  /\ part \notin {"custom", "saves"} => hostOf = "definition"

WindowNext ==
  /\ UNCHANGED part
  /\ \/ /\ part = "logs" /\ LogNext
        /\ UNCHANGED <<execVars, benchVars, forwardVars, scanVars, sectionVars, listVars,
                       panelVars, detailVars, helmVars, browserVars, testerVars,
                       graphVars, prefVars, updateVars, pluginVars, hubVars, customVars,
                       overviewVars>>
     \/ /\ part = "exec" /\ ExecNext
        /\ UNCHANGED <<logVars, benchVars, forwardVars, scanVars, sectionVars, listVars,
                       panelVars, detailVars, helmVars, browserVars, testerVars,
                       graphVars, prefVars, updateVars, pluginVars, hubVars, customVars,
                       overviewVars>>
     \/ /\ part = "launcher" /\ LaunchNext
        /\ UNCHANGED <<logVars, execVars, forwardVars, scanVars, sectionVars, listVars,
                       panelVars, detailVars, helmVars, browserVars, testerVars,
                       graphVars, prefVars, updateVars, pluginVars, hubVars, customVars,
                       overviewVars>>
     \/ /\ part = "forwards" /\ ForwardNext
        /\ UNCHANGED <<logVars, execVars, benchVars, scanVars, sectionVars, listVars,
                       panelVars, detailVars, helmVars, browserVars, testerVars,
                       graphVars, prefVars, updateVars, pluginVars, hubVars, customVars,
                       overviewVars>>
     \/ /\ part = "scan" /\ ScanNext
        /\ UNCHANGED <<logVars, execVars, benchVars, forwardVars, sectionVars, listVars,
                       panelVars, detailVars, helmVars, browserVars, testerVars,
                       graphVars, prefVars, updateVars, pluginVars, hubVars, customVars,
                       overviewVars>>
     \/ /\ part = "sieve" /\ SiftNext
        /\ UNCHANGED <<logVars, execVars, benchVars, forwardVars, sectionVars, listVars,
                       panelVars, detailVars, helmVars, browserVars, testerVars,
                       graphVars, prefVars, updateVars, pluginVars, hubVars, customVars,
                       overviewVars>>
     \/ /\ part = "orders" /\ OrderNext
        /\ UNCHANGED <<logVars, execVars, benchVars, forwardVars, sectionVars, listVars,
                       panelVars, detailVars, helmVars, browserVars, testerVars,
                       graphVars, prefVars, updateVars, pluginVars, hubVars, customVars,
                       overviewVars>>
     \/ /\ part = "sections" /\ SectionsNext
        /\ UNCHANGED <<logVars, execVars, benchVars, forwardVars, scanVars, listVars,
                       panelVars, detailVars, helmVars, browserVars, testerVars,
                       graphVars, prefVars, updateVars, pluginVars, hubVars, customVars,
                       overviewVars>>
     \/ /\ part = "list" /\ ListNext
        /\ UNCHANGED <<logVars, execVars, benchVars, forwardVars, scanVars, sectionVars,
                       panelVars, detailVars, helmVars, browserVars, testerVars,
                       graphVars, prefVars, updateVars, pluginVars, hubVars, customVars,
                       overviewVars>>
     \/ /\ part = "pod" /\ PanelNext
        /\ UNCHANGED <<logVars, execVars, benchVars, forwardVars, scanVars, sectionVars,
                       listVars, detailVars, helmVars, browserVars, testerVars,
                       graphVars, prefVars, updateVars, pluginVars, hubVars, customVars,
                       overviewVars>>
     \/ /\ part = "details" /\ DetailNext
        /\ UNCHANGED <<logVars, execVars, benchVars, forwardVars, scanVars, sectionVars,
                       listVars, panelVars, helmVars, browserVars, testerVars, graphVars,
                       prefVars, updateVars, pluginVars, hubVars, customVars,
                       overviewVars>>
     \/ /\ part = "helm" /\ HelmNext
        /\ UNCHANGED <<logVars, execVars, benchVars, forwardVars, scanVars, sectionVars,
                       listVars, panelVars, detailVars, browserVars, testerVars,
                       graphVars, prefVars, updateVars, pluginVars, hubVars, customVars,
                       overviewVars>>
     \/ /\ part = "browser" /\ BrowserNext
        /\ UNCHANGED <<logVars, execVars, benchVars, forwardVars, scanVars, sectionVars,
                       listVars, panelVars, detailVars, helmVars, testerVars, graphVars,
                       prefVars, updateVars, pluginVars, hubVars, customVars,
                       overviewVars>>
     \/ /\ part = "tester" /\ TesterNext
        /\ UNCHANGED <<logVars, execVars, benchVars, forwardVars, scanVars, sectionVars,
                       listVars, panelVars, detailVars, helmVars, browserVars, graphVars,
                       prefVars, updateVars, pluginVars, hubVars, customVars,
                       overviewVars>>
     \/ /\ part = "graph" /\ TopologyNext
        /\ UNCHANGED <<logVars, execVars, benchVars, forwardVars, scanVars, sectionVars,
                       listVars, panelVars, detailVars, helmVars, browserVars,
                       testerVars, prefVars, updateVars, pluginVars, hubVars, customVars,
                       overviewVars>>
     \/ /\ part = "settings" /\ FormNext
        /\ UNCHANGED <<logVars, execVars, benchVars, forwardVars, scanVars, sectionVars,
                       listVars, panelVars, detailVars, helmVars, browserVars,
                       testerVars, graphVars, updateVars, pluginVars, hubVars,
                       customVars, overviewVars>>
     \/ /\ part = "kubeconfig" /\ ManifestNext
        /\ UNCHANGED <<logVars, execVars, benchVars, forwardVars, scanVars, sectionVars,
                       listVars, panelVars, detailVars, helmVars, browserVars,
                       testerVars, graphVars, updateVars, pluginVars, hubVars,
                       customVars, overviewVars>>
     \/ /\ part = "updates" /\ UpdatesNext
        /\ UNCHANGED <<logVars, execVars, benchVars, forwardVars, scanVars, sectionVars,
                       listVars, panelVars, detailVars, helmVars, browserVars,
                       testerVars, graphVars, prefVars, pluginVars, hubVars, customVars,
                       overviewVars>>
     \/ /\ part = "plugins" /\ RunNext
        /\ UNCHANGED <<logVars, execVars, benchVars, forwardVars, scanVars, sectionVars,
                       listVars, panelVars, detailVars, helmVars, browserVars,
                       testerVars, graphVars, prefVars, updateVars, hubVars, customVars,
                       overviewVars>>
     \/ /\ part = "krew" /\ IndexNext
        /\ UNCHANGED <<logVars, execVars, benchVars, forwardVars, scanVars, sectionVars,
                       listVars, panelVars, detailVars, helmVars, browserVars,
                       testerVars, graphVars, prefVars, updateVars, hubVars, customVars,
                       overviewVars>>
     \/ /\ part = "tables" /\ TablesNext
        /\ UNCHANGED <<logVars, execVars, benchVars, forwardVars, scanVars, sectionVars,
                       listVars, panelVars, detailVars, helmVars, browserVars,
                       testerVars, graphVars, prefVars, updateVars, hubVars, customVars,
                       overviewVars>>
     \/ /\ part = "gitops" /\ ActionsNext
        /\ UNCHANGED <<logVars, execVars, benchVars, forwardVars, scanVars, sectionVars,
                       listVars, panelVars, detailVars, helmVars, browserVars,
                       testerVars, graphVars, prefVars, updateVars, pluginVars,
                       customVars, overviewVars>>
     \/ /\ part = "manifest" /\ EditorNext
        /\ UNCHANGED <<logVars, execVars, benchVars, forwardVars, scanVars, sectionVars,
                       listVars, panelVars, detailVars, helmVars, browserVars,
                       testerVars, graphVars, prefVars, updateVars, pluginVars,
                       customVars, overviewVars>>
     \/ /\ part = "reports" /\ ReportNext
        /\ UNCHANGED <<logVars, execVars, benchVars, forwardVars, scanVars, sectionVars,
                       listVars, panelVars, detailVars, helmVars, browserVars,
                       testerVars, graphVars, prefVars, updateVars, pluginVars,
                       customVars, overviewVars>>
     \/ /\ part = "custom" /\ CustomNext
        /\ UNCHANGED <<logVars, execVars, benchVars, forwardVars, scanVars, sectionVars,
                       listVars, panelVars, detailVars, helmVars, browserVars,
                       testerVars, graphVars, prefVars, updateVars, pluginVars, hubVars,
                       overviewVars>>
     \/ /\ part = "saves" /\ SaveNext
        /\ UNCHANGED <<logVars, execVars, benchVars, forwardVars, scanVars, sectionVars,
                       listVars, panelVars, detailVars, helmVars, browserVars,
                       testerVars, graphVars, prefVars, updateVars, pluginVars, hubVars,
                       overviewVars>>
     \/ /\ part = "definition" /\ ModalNext
        /\ UNCHANGED <<logVars, execVars, benchVars, forwardVars, scanVars, sectionVars,
                       listVars, panelVars, detailVars, helmVars, browserVars,
                       testerVars, graphVars, prefVars, updateVars, pluginVars, hubVars,
                       overviewVars>>
     \/ /\ part = "dashboard" /\ DashboardNext
        /\ UNCHANGED <<logVars, execVars, benchVars, forwardVars, scanVars, sectionVars,
                       listVars, panelVars, detailVars, helmVars, browserVars,
                       testerVars, graphVars, prefVars, updateVars, pluginVars, hubVars,
                       customVars>>
     \/ /\ part = "metrics" /\ UsageNext
        /\ UNCHANGED <<logVars, execVars, benchVars, forwardVars, scanVars, sectionVars,
                       listVars, panelVars, detailVars, helmVars, browserVars,
                       testerVars, graphVars, prefVars, updateVars, pluginVars, hubVars,
                       customVars>>
     \/ /\ part = "certs" /\ CertsNext
        /\ UNCHANGED <<logVars, execVars, benchVars, forwardVars, scanVars, sectionVars,
                       listVars, panelVars, detailVars, helmVars, browserVars,
                       testerVars, graphVars, prefVars, updateVars, pluginVars, hubVars,
                       customVars>>
     \/ /\ part = "trail" /\ TrailNext
        /\ UNCHANGED <<logVars, execVars, benchVars, forwardVars, scanVars, sectionVars,
                       listVars, panelVars, detailVars, helmVars, browserVars,
                       testerVars, graphVars, prefVars, updateVars, pluginVars, hubVars,
                       customVars>>
     \/ /\ part = "life" /\ LifeNext
        /\ UNCHANGED <<logVars, execVars, benchVars, forwardVars, scanVars, sectionVars,
                       listVars, panelVars, detailVars, helmVars, browserVars,
                       testerVars, graphVars, prefVars, updateVars, pluginVars, hubVars,
                       customVars>>
WindowSpec == WindowInit /\ [][WindowNext]_all

\* The streams and the shells of pods, and the pods made to open one.
StreamsTrue ==
  /\ part = "logs" => LogsTrue
  /\ part = "exec" => ShellsTrue
  /\ part = "launcher" => LauncherTrue
  /\ part = "pod" => PodPanelTrue

\* What the lists show and act on.
ListsTrue ==
  /\ part = "sections" => SectionsTrue
  /\ part = "list" => ListActionsTrue
  /\ part = "forwards" => ForwardsTrue
  /\ part \in {"gitops", "manifest", "reports"} => GitOpsTrue

\* What the panels of one object show and act on.
PanelsTrue ==
  /\ part = "details" => DetailsTrue
  /\ part \in {"custom", "saves", "definition"} => CustomTrue

\* What the Helm panels show and act on.
HelmTrue ==
  /\ part = "helm" => HelmPanelTrue
  /\ part = "browser" => HelmBrowserTrue

\* What scans and connectivity tests report.
ReportsTrue ==
  /\ part \in {"scan", "sieve", "orders"} => ScansTrue
  /\ part \in {"sieve", "orders"} => PageTrue
  /\ part = "tester" => TesterTrue
  /\ part \in {"dashboard", "metrics", "certs", "trail", "life"} => OverviewTrue

\* What the settings file and the kubeconfigs hold, and what is said of updates.
SettingsTrue ==
  /\ part \in {"settings", "kubeconfig"} => PreferencesTrue
  /\ part = "updates" => UpdatesTrue

\* What plugins are shown as installed, and what they print.
ToolsTrue == part \in {"plugins", "krew", "tables"} => PluginsTrue

\* What the network graph draws.
NetworkTrue == part = "graph" => NetworkPanelTrue
==============================================================================
