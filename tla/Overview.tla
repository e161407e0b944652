------------------------------ MODULE Overview ------------------------------
(***************************************************************************)
(* Panels that sum a cluster up: the dashboard (Dashboard.tsx), the metrics *)
(* (MetricsView.tsx), the certificates (TLSCertDashboard.tsx, tls.go), the  *)
(* audit log (AuditLogPanel.tsx) and the life of a pod                      *)
(* (buildTimelineItems.ts, PodRestartAnalyzer.tsx).                         *)
(*                                                                         *)
(* The sidecar is taken to be in the context that is selected.             *)
(***************************************************************************)
EXTENDS Integers, FiniteSets, FiniteSetsExt, Sequences, TLC

CONSTANTS
  Views,        \* [ctx, ns]: what can be selected
  FirstView,
  WorldNames,   \* what a cluster can be like
  WorldOf,      \* its name -> [pods, deployments, nodes, events, certs]
  FirstWorld,
  MaxProblems,  \* derivedHealth: the problem pods shown (20)
  MaxRecent,    \* the events shown (15)
  Slots,        \* the minutes of the timeline (60)
  SoonDays,     \* tls.go: days before the end that are "soon" (30)
  MaxEntries,   \* AuditLogPanel: the limit of its requests (500)
  MaxViewMoves, \* bound: selections
  MaxDrifts,    \* bound: changes of the clusters, and hours that pass
  MaxAsks,      \* bound: loads
  MaxLogged,    \* bound: entries of the audit log
  MaxRestarted, \* bound: restarts of a container
  NoView

AllSpaces == "_all"
ViewContexts == {v.ctx : v \in Views}

VARIABLES
  outlook,         \* the context and the namespace selected
  cluster,      \* external: context -> the name of a world
  tick,         \* external: the time
  queries,         \* loads under way: [n, kind, view, filter]
  lastAsk,
  board,        \* dashboard: [pods, deployments, nodes, events, load, at, fresh, loading,
                \* dismissed]; history: [of, world, missing, loadOf]
  usage,        \* metrics: [pods, measured, nodes, load, loading, error, fresh];
                \* history: [of, world]
  certs,        \* certificates: [rows, loading, error, filter, picked]; history: of
  trail,        \* audit log: [rows, loading, error, filter]; history: of
  log,          \* external: the entries of the audit log, oldest first
  life,         \* external: the pod: [uid, conds, placed, init, app, last, restarts]
  happened,     \* external: its events: [uid, reason, id, count, at]
  analyzer,     \* PodRestartAnalyzer: [uid, events, loading]; history: failed
  panelOdd,     \* history: what has happened out of the ordinary
  viewMoves, drifts

lifeVars == <<life, happened, analyzer>>
trailVars == <<trail, log>>
sceneVars == <<outlook, cluster, tick, viewMoves, drifts>>
askVars == <<queries, lastAsk>>
notBoard == <<usage, certs, trailVars, lifeVars>>
notUsage == <<board, certs, trailVars, lifeVars>>
notCerts == <<board, usage, trailVars, lifeVars>>
notTrail == <<board, usage, certs, lifeVars>>
notLife == <<board, usage, certs, trailVars>>
overviewVars == <<sceneVars, askVars, board, usage, certs, trailVars, lifeVars, panelOdd>>

\* Another namespace, or another context with all its namespaces.
OtherViews == {v \in Views \ {outlook} : v.ctx = outlook.ctx \/ v.ns = AllSpaces}
InView(x, v) == v.ns \in {AllSpaces, x.ns}
Asked(kind, v, filter) == [n |-> lastAsk + 1, kind |-> kind, view |-> v, filter |-> filter]
NoUse == [x \in {} |-> 0]
EmptyBoard ==
  [pods |-> <<>>, deployments |-> {}, nodes |-> {}, events |-> {}, load |-> NoUse, at |-> 0,
   of |-> NoView, world |-> NoView, missing |-> {}, loadOf |-> NoView]
EmptyUsage ==
  [pods |-> {}, measured |-> {}, nodes |-> {}, load |-> NoUse, error |-> FALSE, of |-> NoView,
   world |-> NoView]

OverviewTypeOK ==
  /\ outlook \in Views /\ cluster \in [ViewContexts -> WorldNames] /\ tick \in Nat
  /\ \A k \in queries : k.view \in Views /\ k.n \in 1..lastAsk
  /\ {board.fresh, board.loading, board.dismissed, usage.loading, usage.error, certs.loading,
      certs.error, trail.loading, trail.error, analyzer.loading} \subseteq BOOLEAN
  /\ certs.filter \in {"all", "expired", "expiring", "valid"}
  /\ life.restarts \in 0..MaxRestarted

NewPod(uid) ==
  [uid |-> uid, conds |-> {}, placed |-> FALSE, init |-> [is |-> "waiting", at |-> tick],
   app |-> [is |-> "none", at |-> tick], last |-> "none", restarts |-> 0]

OverviewInit ==
  /\ outlook = FirstView /\ cluster = [c \in ViewContexts |-> FirstWorld] /\ tick = 0
  /\ queries = {} /\ lastAsk = 0 /\ panelOdd = {} /\ viewMoves = 0 /\ drifts = 0
  /\ board = EmptyBoard @@ [fresh |-> FALSE, loading |-> FALSE, dismissed |-> FALSE]
  /\ usage = EmptyUsage @@ [loading |-> FALSE, fresh |-> {}]
  /\ certs = [rows |-> {}, loading |-> FALSE, error |-> FALSE, filter |-> "all",
              picked |-> NoView, of |-> NoView]
  /\ trail = [rows |-> {}, loading |-> FALSE, error |-> FALSE, filter |-> "", of |-> NoView]
  /\ log = <<>> /\ life = NewPod(1) /\ happened = {}
  /\ analyzer = [uid |-> 1, events |-> {}, loading |-> FALSE, failed |-> FALSE]

--------------------------------------------------------------------------
(* The dashboard                                                           *)

podTotalRestarts(p) == p.restarts
CrashLooping(p) == p.waiting = "CrashLoopBackOff"
NotReady(p) == p.phase = "Running" /\ ~p.ready
FailedPod(p) == p.phase = "Failed"
\* derivedHealth. Slip: a container that is not ready is no problem.
SlipProblem(p) == CrashLooping(p) \/ FailedPod(p)
Problem(p) == CrashLooping(p) \/ FailedPod(p) \/ NotReady(p)
\* Slip: the rows with the lowest score first.
Score(p) ==
  (IF CrashLooping(p) THEN 1000 ELSE 0) + (IF FailedPod(p) THEN 500 ELSE 0)
  + (IF NotReady(p) THEN 100 ELSE 0) + podTotalRestarts(p)
SlipAhead(ps, i) ==
  {j \in DOMAIN ps : Problem(ps[j])
     /\ (Score(ps[j]) < Score(ps[i]) \/ (Score(ps[j]) = Score(ps[i]) /\ j < i))}
Ahead(ps, i) ==
  {j \in DOMAIN ps : Problem(ps[j])
     /\ (Score(ps[j]) > Score(ps[i]) \/ (Score(ps[j]) = Score(ps[i]) /\ j < i))}
problemPods ==
  {i \in DOMAIN board.pods :
     Problem(board.pods[i]) /\ Cardinality(Ahead(board.pods, i)) < MaxProblems}
degradedDeployments == {d \in board.deployments : d.ready < d.want}
\* PodStatusBadge: its last wording is for a pod that is no problem, and never shown.
PodStatusBadge(p) ==
  CASE CrashLooping(p) -> "CrashLoop"
    [] ~CrashLooping(p) /\ FailedPod(p) -> "Failed"
    [] ~CrashLooping(p) /\ ~FailedPod(p) /\ NotReady(p) -> "Not Ready"
    [] OTHER -> "High Restarts"
AllHealthy == problemPods = {} /\ degradedDeployments = {} /\ board.pods # <<>>

\* The cards.
runningPods == {i \in DOMAIN board.pods : board.pods[i].phase = "Running" /\ ~board.pods[i].deleted}
readyNodes == {n \in board.nodes : n.ready}
readyDeploys == {d \in board.deployments : d.ready >= d.want /\ d.want > 0}
StatCards ==
  [pods |-> IF Cardinality(runningPods) < Len(board.pods) THEN "yellow" ELSE "green",
   deployments |-> IF Cardinality(readyDeploys) < Cardinality(board.deployments)
                   THEN "yellow" ELSE "green",
   nodes |-> IF Cardinality(readyNodes) < Cardinality(board.nodes) THEN "red" ELSE "green"]

\* The card of a node: what it uses, by its name, where that is known.
Level(used, of) == IF of = 0 THEN 0 ELSE (100 * used) \div of
NodeCard(n) ==
  IF n.name \in DOMAIN board.load /\ n.cpu > 0
  THEN [shown |-> "load", pct |-> Level(board.load[n.name], n.cpu)]
  ELSE [shown |-> "total", pct |-> 0]

\* The events with a time, newest first; of those shown the warnings come first.
processedEvents == {e \in board.events : e.at >= 0}
Newer(e, f) == e.at > f.at \/ (e.at = f.at /\ e.id > f.id)
SlipRecent(es) == {e \in es : Cardinality({f \in es : Newer(e, f)}) < MaxRecent}
Recent(es) == {e \in es : Cardinality({f \in es : Newer(f, e)}) < MaxRecent}
recentEvents == Recent(processedEvents)
MoreEvents == IF Cardinality(processedEvents) > MaxRecent
              THEN Cardinality(processedEvents) - MaxRecent ELSE 0
warningCount == Cardinality({e \in board.events : e.type = "Warning"})
WarningBanner == warningCount > 0 /\ ~board.dismissed
\* EventTimeline: the minutes as they were when the events came. Slip: one minute off.
SlipBucket(i) == {e \in processedEvents : board.at - e.at = Slots - i}
Bucket(i) == {e \in processedEvents : board.at - e.at = Slots - 1 - i}
Colour(i) == IF \E e \in Bucket(i) : e.type = "Warning" THEN "rose"
             ELSE IF Bucket(i) # {} THEN "blue" ELSE "none"
DashboardScreen == IF board.loading /\ board.pods = <<>> THEN "loading" ELSE "content"

\* loadDashboard: the lists, and what the nodes use on its own.
AskBoard ==
  /\ queries' = queries \cup {Asked("board", outlook', ""), Asked("load", outlook', "")}
  /\ lastAsk' = lastAsk + 1

OpenBoard ==
  /\ lastAsk < MaxAsks /\ ~board.fresh /\ board' = [board EXCEPT !.loading = TRUE]
  /\ UNCHANGED outlook /\ AskBoard
  /\ UNCHANGED <<cluster, tick, panelOdd, viewMoves, drifts, notBoard>>

\* Half a minute has passed, or the refresh button, which clears the mark.
BoardExpires ==
  /\ board.fresh /\ board' = [board EXCEPT !.fresh = FALSE]
  /\ UNCHANGED <<sceneVars, panelOdd, askVars, notBoard>>

\* A list that fails is asked for again in the namespace selected, and is else empty.
Summary(k, name, missing, again) ==
  LET now == WorldOf[name]
      scoped(x) == again /\ k.view.ns # AllSpaces /\ InView(x, k.view)
  IN  [board EXCEPT
         !.pods = IF "pods" \notin missing THEN now.pods ELSE SelectSeq(now.pods, scoped),
         !.deployments = {d \in now.deployments : "deployments" \notin missing \/ scoped(d)},
         !.nodes = IF "nodes" \in missing THEN {} ELSE now.nodes,
         !.events = now.events, !.at = tick, !.fresh = TRUE, !.loading = FALSE,
         !.of = k.view.ctx, !.world = name, !.missing = missing]
\* Slip: neither the number nor the context is compared.
SlipLatestBoard(k) == TRUE
LatestBoard(k) == k.n = lastAsk /\ outlook.ctx = k.view.ctx

BoardAnswers ==
  \E k \in queries :
    /\ k.kind = "board" /\ queries' = queries \ {k}
    /\ \E missing \in SUBSET {"pods", "deployments"} \cup {{"nodes"}},
          again \in {FALSE, k.view.ns # AllSpaces} :
         board' = IF LatestBoard(k) THEN Summary(k, cluster[k.view.ctx], missing, again)
                  ELSE [board EXCEPT !.loading = FALSE]
    /\ UNCHANGED <<sceneVars, lastAsk, panelOdd, notBoard>>

\* What the nodes use, which may fail: no metrics-server answers for no node.
LoadOf(w) == [n \in {x.name : x \in {y \in w.nodes : y.used >= 0}} |->
                (CHOOSE x \in w.nodes : x.name = n).used]
\* Slip: the context is not compared.
SlipOfContext(k) == TRUE
OfContext(k) == outlook.ctx = k.view.ctx
LoadAnswers ==
  \E k \in queries, ok \in BOOLEAN :
    /\ k.kind = "load" /\ queries' = queries \ {k}
    /\ board' = IF ok /\ OfContext(k)
                THEN [board EXCEPT !.load = LoadOf(WorldOf[cluster[k.view.ctx]]),
                                   !.loadOf = k.view.ctx]
                ELSE board
    /\ UNCHANGED <<sceneVars, lastAsk, panelOdd, notBoard>>

DismissWarnings ==
  /\ WarningBanner /\ board' = [board EXCEPT !.dismissed = TRUE]
  /\ UNCHANGED <<sceneVars, panelOdd, askVars, notBoard>>

\* The cluster changes; time passes.
Drift ==
  /\ drifts < MaxDrifts /\ drifts' = drifts + 1 /\ tick' = tick + 1
  /\ \E w \in WorldNames : cluster' = [cluster EXCEPT ![outlook.ctx] = w]
  /\ UNCHANGED <<outlook, board, panelOdd, viewMoves, askVars, notBoard>>

\* Another context empties the store; the dashboard does not depend on the namespace. Slip:
\* the banner stays dismissed.
SlipBlankBoard == EmptyBoard @@ [fresh |-> FALSE, loading |-> TRUE, dismissed |-> board.dismissed]
BlankBoard == EmptyBoard @@ [fresh |-> FALSE, loading |-> TRUE, dismissed |-> FALSE]
BoardSelects ==
  /\ viewMoves < MaxViewMoves /\ viewMoves' = viewMoves + 1 /\ lastAsk < MaxAsks
  /\ \E v \in OtherViews :
       /\ outlook' = v
       /\ IF v.ctx = outlook.ctx /\ board.fresh THEN UNCHANGED <<board, askVars>>
          ELSE /\ board' = IF v.ctx = outlook.ctx THEN [board EXCEPT !.loading = TRUE]
                           ELSE BlankBoard
               /\ AskBoard
  /\ UNCHANGED <<cluster, tick, panelOdd, drifts, notBoard>>

DashboardNext ==
  \/ OpenBoard \/ BoardExpires \/ BoardAnswers \/ LoadAnswers \/ DismissWarnings \/ Drift
  \/ BoardSelects

--------------------------------------------------------------------------
(* The metrics                                                             *)

\* One container for each pod: what it uses, joined with what it queries for.
UsageRow(m) ==
  LET known == {p \in usage.pods : p.name = m.name /\ p.ns = m.ns}
      p == CHOOSE p \in known : TRUE
  IN  IF known = {}
      THEN [name |-> m.name, ns |-> m.ns, cpu |-> m.cpu, req |-> 0, lim |-> 0, hpa |-> FALSE]
      ELSE [name |-> m.name, ns |-> m.ns, cpu |-> m.cpu, req |-> p.req, lim |-> p.lim,
            hpa |-> p.scaled]
processedPods == {UsageRow(m) : m \in usage.measured}
\* What is advised for a row. Slip: "reduce" and "increase" are compared the wrong way.
ReduceRequest(r) == r.req > 0 /\ Level(r.cpu, r.req) < 10
SlipIncreaseLimit(r) == r.lim > 0 /\ 100 * r.cpu < 95 * r.lim
IncreaseLimit(r) == r.lim > 0 /\ 100 * r.cpu > 95 * r.lim
LimitsOn(ps, n) == MapThenSumSet(LAMBDA p : p.lim, {p \in ps : p.node = n})
CapacityOf(n) == MapThenSumSet(LAMBDA x : x.cpu, {x \in usage.nodes : x.name = n})
\* The pods that are loaded, which may be those of one namespace. Slip: at its limit as well.
SlipOvercommitted(n) == LimitsOn(usage.pods, n) >= CapacityOf(n)
Overcommitted(n) == LimitsOn(usage.pods, n) > CapacityOf(n)
clusterTotals ==
  Level(MapThenSumSet(LAMBDA n : usage.load[n], DOMAIN usage.load),
        MapThenSumSet(LAMBDA x : x.cpu, usage.nodes))
MetricBar(pct) == CASE pct >= 85 -> "red" [] pct \in 65..84 -> "orange"
                    [] pct \in 45..64 -> "yellow" [] OTHER -> "blue"
\* The body of the panel; the hint opens the Helm section on metrics-server.
MetricsScreen ==
  CASE DOMAIN usage.load # {} -> "tables"
    [] DOMAIN usage.load = {} /\ usage.loading -> "synchronizing"
    [] DOMAIN usage.load = {} /\ ~usage.loading /\ usage.error -> "unavailable"
    [] OTHER -> "no metrics"

\* The effect of a namespace: a view loaded within half a minute, or being loaded, is skipped.
LoadUsage(v) ==
  IF v \in usage.fresh \/ \E k \in queries : k.view = v /\ k.filter # "left"
  THEN /\ UNCHANGED <<askVars>> /\ usage' = [usage EXCEPT !.error = FALSE]
       /\ panelOdd' = panelOdd \cup (IF usage.of \in {v, NoView} THEN {} ELSE {"skipped"})
  ELSE /\ queries' = queries \cup {Asked("usage", v, "")} /\ lastAsk' = lastAsk + 1
       /\ usage' = [usage EXCEPT !.loading = TRUE, !.error = FALSE]
       /\ UNCHANGED panelOdd

UsageOpens ==
  /\ lastAsk = 0 /\ LoadUsage(outlook)
  /\ UNCHANGED <<sceneVars, notUsage>>

UsageExpires ==
  /\ usage.fresh # {} /\ usage' = [usage EXCEPT !.fresh = {}]
  /\ UNCHANGED <<sceneVars, panelOdd, askVars, notUsage>>

\* Another context empties the store and forgets the loads under way; their answers come.
UsageSelects ==
  /\ viewMoves < MaxViewMoves /\ viewMoves' = viewMoves + 1 /\ lastAsk \in 1..(MaxAsks - 1)
  /\ \E v \in OtherViews :
       /\ outlook' = v
       /\ IF v.ctx = outlook.ctx THEN LoadUsage(v)
          ELSE /\ queries' = {[k EXCEPT !.filter = "left"] : k \in queries}
                              \cup {Asked("usage", v, "")}
               /\ lastAsk' = lastAsk + 1
               /\ usage' = EmptyUsage @@ [loading |-> TRUE, fresh |-> {}]
               /\ UNCHANGED panelOdd
  /\ UNCHANGED <<cluster, tick, drifts, notUsage>>

\* What is measured and what the pods are may be of different moments.
UsageAnswers ==
  \E k \in queries :
    /\ k.kind = "usage" /\ queries' = queries \ {k}
    /\ \E name \in {cluster[k.view.ctx], FirstWorld}, ok \in BOOLEAN :
         LET now == WorldOf[cluster[k.view.ctx]]
             w == WorldOf[name]
             here(ps) == {p \in {ps[i] : i \in DOMAIN ps} : InView(p, k.view)}
         IN  /\ usage' = CASE OfContext(k) /\ ok ->
                               [pods |-> here(w.pods), nodes |-> w.nodes, load |-> LoadOf(now),
                                world |-> name,
                                measured |-> {p \in here(now.pods) : p.cpu >= 0},
                                error |-> FALSE, of |-> k.view, loading |-> FALSE,
                                fresh |-> usage.fresh \cup {k.view}]
                           [] OfContext(k) /\ ~ok ->
                               [usage EXCEPT !.load = NoUse, !.measured = {}, !.error = TRUE,
                                             !.loading = FALSE]
                           [] ~OfContext(k) -> [usage EXCEPT !.loading = FALSE]
             /\ panelOdd' = panelOdd \cup
                  (IF OfContext(k) /\ k.view # outlook THEN {"late"} ELSE {})
    /\ UNCHANGED <<sceneVars, lastAsk, notUsage>>

UsageNext == UsageOpens \/ UsageExpires \/ UsageSelects \/ UsageAnswers \/ Drift

--------------------------------------------------------------------------
(* The certificates                                                        *)

\* tls.go: whole days, towards zero; a tick is half a day.
DaysLeft(c) == IF c.ends >= tick THEN (c.ends - tick) \div 2 ELSE -((tick - c.ends) \div 2)
\* HandleTLSCerts. Slip: the last day counts as over.
SlipCertInfo(c) ==
  [name |-> c.name, ns |-> c.ns, days |-> DaysLeft(c), error |-> c.bad,
   isExpired |-> ~c.bad /\ DaysLeft(c) <= 0,
   isExpiringSoon |-> ~c.bad /\ DaysLeft(c) \in 0..SoonDays, overFor |-> tick - c.ends]
CertInfo(c) ==
  [name |-> c.name, ns |-> c.ns, days |-> IF c.bad THEN 0 ELSE DaysLeft(c), error |-> c.bad,
   isExpired |-> ~c.bad /\ DaysLeft(c) < 0,
   isExpiringSoon |-> ~c.bad /\ DaysLeft(c) \in 0..SoonDays, overFor |-> tick - c.ends]

certStatus(c) ==
  CASE c.error -> "error"
    [] ~c.error /\ c.isExpired -> "expired"
    [] ~c.error /\ ~c.isExpired /\ c.isExpiringSoon -> "expiring"
    [] OTHER -> "valid"
expiredCount == Cardinality({c \in certs.rows : c.isExpired})
expiringCount == Cardinality({c \in certs.rows : c.isExpiringSoon /\ ~c.isExpired})
validCount == Cardinality({c \in certs.rows : ~c.isExpired /\ ~c.isExpiringSoon /\ ~c.error})
errorCount == Cardinality({c \in certs.rows : c.error})
\* OverviewPanel: what needs attention, and what ends next.
Urgent == expiredCount + expiringCount
Upcoming ==
  LET known == {c \in certs.rows : ~c.isExpired /\ ~c.error}
  IN  {c \in known : Cardinality({d \in known : d.days < c.days}) < 6}
\* Slip: what does not parse is valid.
SlipCertListed(c) == certs.filter = "valid" => ~c.isExpired /\ ~c.isExpiringSoon
CertListed(c) ==
  /\ certs.filter = "expired" => c.isExpired
  /\ certs.filter = "expiring" => c.isExpiringSoon /\ ~c.isExpired
  /\ certs.filter = "valid" => ~c.isExpired /\ ~c.isExpiringSoon /\ ~c.error
filteredCerts == {c \in certs.rows : CertListed(c)}
SameSecret(c, d) == c # NoView /\ d # NoView /\ c.name = d.name /\ c.ns = d.ns
CertScreen == CASE certs.loading -> "loading" [] ~certs.loading /\ certs.error -> "error"
                [] OTHER -> "table"
\* CertDetail: the days left, or those since the end.
Days(n) == IF n < 0 THEN -n ELSE n
CertDetail(c) ==
  [status |-> certStatus(c), ago |-> c.isExpired,
   days |-> IF c.error THEN 0 ELSE Days(c.days), identity |-> ~c.error]

AskCerts(v) ==
  /\ queries' = queries \cup {Asked("certs", v, "")} /\ lastAsk' = lastAsk + 1
  /\ certs' = [certs EXCEPT !.loading = TRUE, !.error = FALSE,
                            !.picked = IF v = outlook THEN certs.picked ELSE NoView]

\* At the mount, and the refresh button.
LoadCerts ==
  /\ ~certs.loading /\ lastAsk < MaxAsks /\ AskCerts(outlook)
  /\ UNCHANGED <<sceneVars, panelOdd, notCerts>>

CertsSelect ==
  /\ viewMoves < MaxViewMoves /\ viewMoves' = viewMoves + 1 /\ lastAsk \in 1..(MaxAsks - 1)
  /\ \E v \in OtherViews : outlook' = v /\ AskCerts(v)
  /\ UNCHANGED <<cluster, tick, panelOdd, drifts, notCerts>>

\* Answers of another context or namespace are dropped; those of this one are not numbered.
\* Slip: nothing is compared.
SlipForView(k) == TRUE
ForView(k) == k.view = outlook
CertsAnswer ==
  \E k \in queries, ok \in BOOLEAN :
    /\ k.kind = "certs" /\ queries' = queries \ {k}
    /\ certs' = CASE ForView(k) /\ ok ->
                       [certs EXCEPT !.loading = FALSE, !.of = k.view,
                          !.rows = {CertInfo(c) : c \in {x \in WorldOf[cluster[k.view.ctx]].certs :
                                                            InView(x, k.view)}}]
                  [] ForView(k) /\ ~ok ->
                       [certs EXCEPT !.loading = FALSE, !.rows = {}, !.error = TRUE, !.of = k.view]
                  [] ~ForView(k) -> certs
    /\ UNCHANGED <<sceneVars, lastAsk, panelOdd, notCerts>>

PickCert ==
  /\ CertScreen = "table"
  /\ \E c \in filteredCerts :
       certs' = [certs EXCEPT !.picked = IF SameSecret(certs.picked, c) THEN NoView ELSE c]
  /\ UNCHANGED <<sceneVars, panelOdd, askVars, notCerts>>

\* A chip clicked again is taken off.
FilterCerts ==
  /\ \E f \in {"expired", "expiring", "valid"} :
       certs' = [certs EXCEPT !.filter = IF certs.filter = f THEN "all" ELSE f]
  /\ UNCHANGED <<sceneVars, panelOdd, askVars, notCerts>>

CertsNext == LoadCerts \/ CertsSelect \/ CertsAnswer \/ PickCert \/ FilterCerts \/ Drift

--------------------------------------------------------------------------
(* The audit log                                                           *)

\* The newest entries that the filter lets through. Slip: of the newest, those it lets through.
SlipNewestOf(filter) ==
  {log[i] : i \in {j \in DOMAIN log : j > Len(log) - MaxEntries /\ filter \in {"", log[j].outcome}}}
NewestOf(filter) ==
  LET fits == {j \in DOMAIN log : filter \in {"", log[j].outcome}}
  IN  {log[i] : i \in {j \in fits : Cardinality({x \in fits : x > j}) < MaxEntries}}

\* At the mount, by the button, and when a filter is set: nothing holds a second load back.
LoadTrail ==
  /\ lastAsk < MaxAsks
  /\ \E f \in {"", "success", "failure"} :
       /\ lastAsk = 0 => f = ""
       /\ queries' = queries \cup {Asked("trail", outlook, f)} /\ lastAsk' = lastAsk + 1
       /\ trail' = [trail EXCEPT !.filter = f, !.loading = TRUE, !.error = FALSE]
       /\ panelOdd' = panelOdd \cup (IF queries = {} THEN {} ELSE {"crossed"})
  /\ UNCHANGED <<sceneVars, log, notTrail>>

\* Slip: a failure leaves the rows as they were.
SlipTrailFails == [trail EXCEPT !.loading = FALSE, !.error = TRUE]
TrailFails == [trail EXCEPT !.loading = FALSE, !.error = TRUE, !.rows = {}, !.of = NoView]
TrailAnswers ==
  \E k \in queries, ok \in BOOLEAN :
    /\ k.kind = "trail" /\ queries' = queries \ {k}
    /\ trail' = IF ok THEN [trail EXCEPT !.loading = FALSE, !.rows = NewestOf(k.filter),
                                          !.of = [filter |-> k.filter, upTo |-> Len(log)]]
                ELSE TrailFails
    /\ UNCHANGED <<sceneVars, lastAsk, log, panelOdd, notTrail>>

\* An action is recorded.
Recorded ==
  /\ Len(log) < MaxLogged /\ UNCHANGED drifts
  /\ \E o \in {"success", "failure"} :
       log' = Append(log, [seq |-> Len(log) + 1, outcome |-> o])
  /\ UNCHANGED <<outlook, cluster, tick, trail, panelOdd, viewMoves, askVars, notTrail>>
TrailScreen ==
  CASE trail.loading -> "loading" [] ~trail.loading /\ trail.error -> "error"
    [] ~trail.loading /\ ~trail.error /\ trail.rows = {} -> "no entries" [] OTHER -> "rows"

TrailNext == LoadTrail \/ TrailAnswers \/ Recorded

--------------------------------------------------------------------------
(* The life of a pod                                                       *)

\* What buildTimelineItems makes of the pod and of the events that were loaded.
Item(when, title, type) ==
  [at |-> when, title |-> title, type |-> type, live |-> FALSE, count |-> 1]
LiveItem(title, type) == [Item(tick, title, type) EXCEPT !.live = TRUE]
BadEnds == {"OOMKilled", "Error"}
ConditionItems ==
  {Item(c.at, c.is, IF c.is = "Ready" THEN "success" ELSE "info") : c \in life.conds}
InitItems ==
  CASE life.init.is = "running" -> {Item(life.init.at, "init running", "info")}
    [] life.init.is = "Completed" -> {Item(life.init.at, "init completed", "success")}
    [] life.init.is \in BadEnds -> {Item(life.init.at, "init failed", "error")}
    [] OTHER -> {}
EndedItem(is) ==
  CASE is = "OOMKilled" -> {Item(life.app.at, "app ended before", "error")}
    [] is = "Error" -> {Item(life.app.at, "app ended before", "warning")}
    [] is = "Completed" -> {Item(life.app.at, "app ended before", "info")}
    [] OTHER -> {}
AppItems ==
  CASE life.app.is = "running" -> {Item(life.app.at, "app started", "success")}
    [] life.app.is = "Completed" -> {Item(life.app.at, "app completed", "success")}
    [] life.app.is \in BadEnds -> {Item(life.app.at, "app ended", "error")}
    [] life.app.is = "CrashLoopBackOff" -> {LiveItem("app waits", "error")}
    [] life.app.is = "ContainerCreating" -> {LiveItem("app waits", "info")}
    [] OTHER -> {}
\* Slip: one restart more.
SlipUnstable == IF life.restarts > 3 THEN {Item(life.app.at, "app unstable", "warning")} ELSE {}
Unstable == IF life.restarts >= 3 THEN {Item(life.app.at, "app unstable", "warning")} ELSE {}
\* The events of one reason are one item, with the time of the latest and how often they came.
EventType(reason) == IF reason \in {"Unhealthy", "BackOff"} THEN "warning" ELSE "info"
SlipEventItem(es, reason) ==
  LET same == {e \in es : e.reason = reason}
      latest == CHOOSE e \in same : \A f \in same : f.at <= e.at
  IN  [Item(latest.at, reason, EventType(reason)) EXCEPT !.count = latest.count]
EventItem(es, reason) ==
  LET same == {e \in es : e.reason = reason}
  IN  [Item(CHOOSE t \in {e.at : e \in same} : \A e \in same : e.at <= t, reason, EventType(reason))
         EXCEPT !.count = MapThenSumSet(LAMBDA e : e.count, same)]
EventItems(es) == {EventItem(es, r) : r \in {e.reason : e \in es}}
TimelineItems(es) ==
  {Item(0, "Pod Created", "info")} \cup ConditionItems
  \cup (IF life.placed THEN {Item(0, "Scheduled", "success")} ELSE {})
  \cup InitItems \cup EndedItem(life.last) \cup AppItems \cup Unstable \cup EventItems(es)
\* What is now comes after what was. Slip: by the time alone.
SlipShownBefore(i, j) == i.at < j.at
ShownBefore(i, j) == IF i.live # j.live THEN j.live ELSE i.at < j.at

\* The kubelet. A container that ended waits for its next start. The last seconds are not told
\* apart.
LifeStep(pod) ==
  /\ life' = pod /\ tick' = IF tick < MaxDrifts THEN tick + 1 ELSE tick
  /\ UNCHANGED <<outlook, cluster, viewMoves, drifts, askVars, happened, analyzer, notLife,
                 panelOdd>>
At(is) == [is |-> is, at |-> tick]
Schedule == ~life.placed /\ LifeStep([life EXCEPT !.placed = TRUE])
InitRuns == life.placed /\ life.init.is \in {"waiting"} \cup BadEnds
            /\ LifeStep([life EXCEPT !.init = At("running")])
InitEnds == \E is \in {"Completed", "Error"} :
  life.init.is = "running"
  /\ LifeStep([life EXCEPT !.init = At(is), !.conds = IF is = "Completed"
                 THEN {At("Initialized")} ELSE {},
                 !.app = IF is = "Completed" THEN At("ContainerCreating") ELSE life.app])
AppStarts ==
  /\ life.app.is = "ContainerCreating" \/ life.app.is = "CrashLoopBackOff"
  /\ LifeStep([life EXCEPT !.app = At("running"), !.conds = life.conds \cup {At("Ready")},
                 !.restarts = IF life.last = "none" THEN 0 ELSE life.restarts + 1])
AppEnds == \E is \in {"Completed"} \cup BadEnds :
  life.app.is = "running" /\ life.restarts < MaxRestarted
  /\ LifeStep([life EXCEPT !.app = At(is), !.conds = {c \in life.conds : c.is # "Ready"}])
\* The end it had becomes the last one.
AppWaits ==
  /\ life.app.is \in {"Completed"} \cup BadEnds
  /\ LifeStep([life EXCEPT !.app = At("CrashLoopBackOff"), !.last = life.app.is])
EventHappens ==
  /\ \E r \in CASE life.app.is = "ContainerCreating" -> {"Pulled"}
              [] life.app.is = "running" -> {"Unhealthy"}
              [] life.app.is = "CrashLoopBackOff" -> {"BackOff"}
              [] OTHER -> {} :
       \/ /\ Cardinality(happened) < MaxRecent
          /\ happened' = happened \cup
               {[uid |-> life.uid, reason |-> r, id |-> Cardinality(happened), count |-> 1,
                 at |-> tick]}
       \/ \E e \in happened : e.uid = life.uid /\ e.reason = r /\ e.count = 1
            /\ happened' = (happened \ {e}) \cup {[e EXCEPT !.count = 2, !.at = tick]}
  /\ UNCHANGED <<sceneVars, life, analyzer, panelOdd, askVars, notLife>>
\* A pod of the same name takes its place: the effect of PodRestartAnalyzer, keyed by the name,
\* does not run.
Recreated ==
  /\ life.uid = 1 /\ life.restarts > 0 /\ life' = NewPod(2)
  /\ UNCHANGED <<sceneVars, happened, analyzer, panelOdd, askVars, notLife>>

OpenAnalyzer ==
  /\ queries = {} /\ lastAsk < MaxAsks
  /\ queries' = {Asked("life", outlook, "")} /\ lastAsk' = lastAsk + 1
  /\ analyzer' = [uid |-> life.uid, events |-> {}, loading |-> TRUE, failed |-> FALSE]
  /\ UNCHANGED <<sceneVars, life, happened, panelOdd, notLife>>
AnalyzerAnswers ==
  /\ \E k \in queries, ok \in BOOLEAN :
       /\ queries' = queries \ {k}
       /\ analyzer' = [analyzer EXCEPT !.loading = FALSE, !.failed = ~ok,
            !.events = IF ok THEN {e \in happened : e.uid = analyzer.uid} ELSE {}]
  /\ UNCHANGED <<sceneVars, lastAsk, life, happened, panelOdd, notLife>>
\* The last end before the present one. Slip: an end is told only when it is the present one.
SlipTermination == life.app.is
Termination == IF life.last # "none" THEN life.last ELSE life.app.is
diagnostics ==
  IF analyzer.loading THEN {}
  ELSE (CASE Termination = "OOMKilled" -> {"memory"} [] Termination = "Error" -> {"crash"}
          [] OTHER -> {})
       \cup {e.reason : e \in {x \in analyzer.events : x.reason \in {"Unhealthy", "BackOff"}}}

LifeNext ==
  \/ Schedule \/ InitRuns \/ InitEnds \/ AppStarts \/ AppEnds \/ AppWaits \/ EventHappens
  \/ Recreated \/ OpenAnalyzer \/ AnalyzerAnswers

--------------------------------------------------------------------------
(* Properties                                                              *)

\* The dashboard shows what was read in the context that is selected, its lists by the last
\* load and what its nodes use by any (loadDashboard compares a number and the context), and it
\* loads for as long as a load is under way.
BoardOfContext ==
  /\ board.of \in {outlook.ctx, NoView} /\ board.loadOf \in {outlook.ctx, NoView}
  /\ board.loading => \E k \in queries : k.kind = "board"

\* "All pods and deployments are healthy" is said only when the cluster that was read had no
\* pod in a crash loop, failed or running without being ready, and no deployment short of its
\* replicas -- unless the pods or the deployments could not be read, which is not told. The
\* cards agree: what is not ready are then deployments scaled to none.
HealthyTrue ==
  AllHealthy =>
    /\ \A i \in DOMAIN board.pods : PodStatusBadge(board.pods[i]) = "High Restarts"
    /\ board.missing = {} =>
         /\ LET ps == WorldOf[board.world].pods IN \A i \in DOMAIN ps : ~Problem(ps[i])
         /\ \A d \in WorldOf[board.world].deployments : d.ready >= d.want
    /\ board.deployments \ readyDeploys = {d \in board.deployments : d.want = 0}

\* A pod in a crash loop is left out of the rows only for as many that score as high.
WorstFirst ==
  \A i \in DOMAIN board.pods :
    CrashLooping(board.pods[i]) /\ i \notin problemPods =>
      \A j \in problemPods : Score(board.pods[j]) >= 1000

\* Every event of the last minutes is in one column of the timeline; the rows hold the newest
\* events, and with "more" they are all.
EventsShown ==
  /\ \A e \in processedEvents : board.at - e.at \in 0..(Slots - 1) =>
       Cardinality({i \in 0..(Slots - 1) : e \in Bucket(i)}) = 1
  /\ \A e \in recentEvents, f \in processedEvents \ recentEvents : f.at <= e.at
  /\ Cardinality(recentEvents) + MoreEvents = Cardinality(processedEvents)

\* The cards agree with the lists below them: no pod failed under a green one, no deployment
\* is short of its replicas, a column with a warning is one the banner counts, a node's card
\* tells what it uses only as this context answered it, and nothing is said while it loads.
CardsAgree ==
  /\ StatCards.pods = "green" => \A i \in DOMAIN board.pods : ~FailedPod(board.pods[i])
  /\ StatCards.deployments = "green" => degradedDeployments = {}
  /\ StatCards.nodes = "green" => \A n \in board.nodes : n.ready
  /\ (\E i \in 0..(Slots - 1) : Colour(i) = "rose") => WarningBanner \/ board.dismissed
  /\ \A n \in board.nodes : NodeCard(n).shown = "load" => board.loadOf = outlook.ctx
  /\ DashboardScreen = "loading" => ~AllHealthy /\ problemPods = {}

\* Warnings are not shown only while their banner was dismissed in this context.
BannerReturns == board.of = NoView => ~board.dismissed

\* The metrics are those of the context that is selected, and of the namespace unless the
\* answer for one that was left came late, or the panel skipped the load of one it had loaded.
UsageOfView ==
  /\ usage.of # NoView => usage.of.ctx = outlook.ctx
  /\ panelOdd = {} /\ ~usage.loading /\ processedPods # {} => usage.of = outlook
  /\ usage.loading => \E k \in queries : k.kind = "usage"

\* No container is advised both to ask for less and to be allowed more, and one whose pod is
\* not known is advised nothing.
AdviceConsistent ==
  \A r \in processedPods :
    /\ ~(ReduceRequest(r) /\ IncreaseLimit(r))
    /\ {p \in usage.pods : p.name = r.name /\ p.ns = r.ns} = {} =>
         ~ReduceRequest(r) /\ ~IncreaseLimit(r) /\ ~r.hpa

\* A known node is called overcommitted only if the limits of its pods are above what it has,
\* in a panel that may know only some of them.
OvercommitTrue ==
  usage.world # NoView => \A x \in usage.nodes :
    Overcommitted(x.name) =>
      LET ps == WorldOf[usage.world].pods
      IN  MapThenSumSet(LAMBDA i : ps[i].lim, {i \in DOMAIN ps : ps[i].node = x.name}) > x.cpu

\* The bar of the cluster is red only when that of a node is, where every node that is measured
\* is known; no row of a container is shown where the panel says there are no metrics after a
\* failure.
TotalsTrue ==
  /\ DOMAIN usage.load \subseteq {x.name : x \in usage.nodes} =>
       (MetricBar(clusterTotals) = "red" =>
          \E x \in usage.nodes : x.name \in DOMAIN usage.load
                                /\ MetricBar(Level(usage.load[x.name], x.cpu)) = "red")
  /\ MetricsScreen = "unavailable" => processedPods = {}

\* The certificates are those of the view, the chips and the overview count each once, a row a
\* chip lets through has its badge, and one shown on its own is of the view.
CertsTrue ==
  /\ ~certs.loading => certs.of \in {outlook, NoView}
  /\ certs.loading => \E k \in queries : k.view = outlook
  /\ expiredCount + expiringCount + validCount + errorCount = Cardinality(certs.rows)
  /\ certs.filter # "all" => \A c \in filteredCerts : certStatus(c) = certs.filter
  /\ Urgent + Cardinality({c \in Upcoming : ~c.isExpiringSoon})
       <= Cardinality({c \in certs.rows : ~c.error})
  /\ certs.picked # NoView => InView(certs.picked, outlook) /\ CertDetail(certs.picked).days >= 0

\* A certificate that ended a day ago or more is shown as expired (for less it is "expiring
\* soon" with no days left: tls.go rounds towards zero), and one that did not never is.
ExpiryTrue ==
  \A c \in certs.rows : ~c.error =>
    /\ c.overFor >= 2 => c.isExpired
    /\ c.overFor <= 0 => ~c.isExpired

\* The rows of the audit log are the newest that the filter lets through, unless two loads were
\* under way at once: then they may be those of another filter, or not be shown for the failure
\* of the other.
TrailTrue ==
  /\ \A e \in trail.rows : trail.of.filter \in {"", e.outcome}
  /\ trail.of # NoView =>
       Cardinality(trail.rows) = Min({MaxEntries, Cardinality({i \in 1..trail.of.upTo :
                                        trail.of.filter \in {"", log[i].outcome}})})
  /\ TrailScreen = "rows" /\ panelOdd = {} => trail.of.filter = trail.filter
  /\ trail.error /\ panelOdd = {} => trail.rows = {}

\* The timeline tells every event as often as it came, shows what is now last, and warns of a
\* container that crashed or was restarted three times.
TimelineTrue ==
  LET es == {e \in happened : e.uid = life.uid}
      items == TimelineItems(es)
  IN  /\ MapThenSumSet(LAMBDA i : i.count, EventItems(es)) = MapThenSumSet(LAMBDA e : e.count, es)
      /\ \A i, j \in items : i.live /\ ~j.live => ShownBefore(j, i) /\ ~ShownBefore(i, j)
      /\ life.last \in BadEnds \/ life.restarts >= 3 =>
           \E i \in items : i.type \in {"warning", "error"} /\ ~i.live

\* "Everything looks stable" is said of a pod whose last end was clean and whose events told
\* nothing, or while they are being read or could not be. (An end before the present one is
\* all that is looked at: a container killed just now after a clean end looks stable.)
StableTrue ==
  diagnostics = {} /\ ~analyzer.loading /\ ~analyzer.failed =>
    /\ life.last \notin BadEnds /\ (life.app.is \in BadEnds => life.last = "Completed")
    /\ \A e \in analyzer.events : e.reason = "Pulled"

OverviewTrue ==
  /\ OverviewTypeOK /\ BoardOfContext /\ HealthyTrue /\ WorstFirst /\ EventsShown /\ CardsAgree
  /\ BannerReturns /\ UsageOfView /\ AdviceConsistent /\ OvercommitTrue /\ TotalsTrue
  /\ CertsTrue /\ ExpiryTrue /\ TrailTrue /\ TimelineTrue /\ StableTrue
=============================================================================
