---------------------------- MODULE PanelProofs ----------------------------
(* What panels of the window show and act on, while requests are under way, *)
(* the context changes and the sidecar serves another: the network graph,   *)
(* the Helm releases and the browser of charts, the settings, and what the  *)
(* window tells of an update.  Each part's invariant is inductive for its   *)
(* own specification; WindowProofs takes what they hold to the parts of the *)
(* window side by side.                                                     *)
EXTENDS TopologyPanel, HelmBrowser, HelmReleases, Settings, Updates,
        FiniteSetTheorems, SequenceTheorems, TLAPS

(***************************************************************************)
(* TopologyPanel: what the network graph draws                             *)
(***************************************************************************)

\* The loads whose answer is to be shown.
LiveLoads == {q \in graphAsks : ~q.aborted}
\* A load of the graph, or its answer: what it is of, and the phase the cluster was in.
GraphLoads ==
  [of: Scenes, n: Nat, aborted: BOOLEAN, answered: BOOLEAN, shape: ShapeSet,
   phase: 0..MaxWorldSteps]

\* Requests are well formed, and tell of the cluster as it has been.
AsksTypeOK ==
  /\ graphAsks \subseteq GraphLoads /\ worldSteps \in 0..MaxWorldSteps /\ sceneSteps \in Nat
  /\ world.phase = worldSteps /\ \A q \in graphAsks : q.phase <= worldSteps

\* One load at most is to be shown, of the scene that is chosen, and the spinner turns
\* for it.
LiveOK ==
  /\ \A p \in LiveLoads, q \in LiveLoads : p = q
  /\ graphBusy <=> LiveLoads # {}
  /\ \A q \in LiveLoads : q.of = scene

\* The fingerprint is of the graph on display, which is of the scene, and no newer than
\* the load that is to be shown.
PrintOK ==
  fingerprint # NoGraph =>
    /\ rawGraph.phase \in Nat /\ rawGraph.phase <= worldSteps
    /\ rawGraph.of = scene /\ rawGraph.shape = fingerprint
    /\ \A q \in LiveLoads : rawGraph.phase <= q.phase

\* The answer taken last is shown, or one of its shape that came before.
NewestOK ==
  newest # NoGraph =>
    rawGraph.of = newest.of /\ rawGraph.shape = newest.shape /\ rawGraph.phase <= newest.phase

\* The inductive invariant of the network panel.
PanelInv ==
  /\ TopologyTypeOK /\ AsksTypeOK /\ LiveOK /\ PrintOK /\ NewestOK /\ GraphOfScene
  /\ filters # {}

\* What the invariant says of the panel.
LEMMA PanelInvTells == PanelInv => NetworkPanelTrue
<1> SUFFICES ASSUME PanelInv PROVE NetworkPanelTrue
  OBVIOUS
<1>1. SpinnerAwaits
  BY DEF PanelInv, LiveOK, LiveLoads, SpinnerAwaits
<1>2. OneLoad
  <2>1. CASE LiveLoads = {}
    <3>1. Cardinality({}) = 0
      BY FS_EmptySet
    <3> QED BY <2>1, <3>1 DEF OneLoad, LiveLoads
  <2>2. CASE LiveLoads # {}
    <3>1. PICK q \in LiveLoads : TRUE
      BY <2>2
    <3>2. LiveLoads = {q}
      BY <3>1 DEF PanelInv, LiveOK
    <3>3. Cardinality({q}) = 1
      BY FS_Singleton
    <3> QED BY <3>2, <3>3 DEF OneLoad, LiveLoads
  <2> QED BY <2>1, <2>2
<1>3. GraphIsNewest
  BY DEF PanelInv, NewestOK, GraphIsNewest
<1>4. FiltersTell
  <2>1. filters # {}
    BY DEF PanelInv
  <2>2. \A e \in EdgesDrawn : {e.from, e.to} \subseteq NodesDrawn \/ NodeFilters \subseteq filters
    BY DEF EdgesDrawn, BothEnds
  <2> QED BY <2>1, <2>2 DEF FiltersTell
<1> QED BY <1>1, <1>2, <1>3, <1>4 DEF NetworkPanelTrue, PanelInv

\* A panel that has just been opened awaits its first answer.
LEMMA PanelStarts == TopologyInit => PanelInv
<1> SUFFICES ASSUME TopologyInit PROVE PanelInv
  OBVIOUS
<1>1. world \in World /\ world.phase = 0
  BY TopologyAssumption DEF TopologyInit, World
<1>2. TopologyTypeOK
  BY <1>1, TopologyAssumption DEF TopologyInit, TopologyTypeOK, AllFilters
<1>3. AsksTypeOK
  BY <1>1, TopologyAssumption DEF TopologyInit, AsksTypeOK, GraphLoads, World
<1>4. LiveOK
  <2> DEFINE q == [of |-> FirstScene, n |-> 0, aborted |-> FALSE, answered |-> FALSE,
                   shape |-> world.shape, phase |-> world.phase]
  <2>0. graphAsks = {q} /\ q.of = FirstScene /\ q.aborted = FALSE
    BY DEF TopologyInit
  <2> HIDE DEF q
  <2>1. LiveLoads = {q} /\ q.of = FirstScene
    BY <2>0 DEF LiveLoads
  <2>3. graphBusy = TRUE /\ scene = FirstScene
    BY DEF TopologyInit
  <2> QED BY <2>1, <2>3 DEF LiveOK
<1>5. PrintOK /\ NewestOK /\ GraphOfScene /\ filters # {}
  BY TopologyAssumption DEF TopologyInit, PrintOK, NewestOK, GraphOfScene
<1> QED BY <1>2, <1>3, <1>4, <1>5 DEF PanelInv

\* Whatever was asked before is aborted.
LEMMA AbortedTells ==
  ASSUME PanelInv
  PROVE  /\ Aborted \subseteq GraphLoads
         /\ \A q \in Aborted : q.aborted /\ q.phase <= worldSteps
  BY DEF PanelInv, AsksTypeOK, Aborted, GraphLoads

\* A load aborts the one under way, and is the one that is to be shown.
LEMMA LoadTells ==
  ASSUME PanelInv, NEW s \in Scenes, LoadGraph(s)
  PROVE  /\ graphAsks' \subseteq GraphLoads /\ graphBusy' = TRUE
         /\ LiveLoads' = {AskedGraph(s)}
         /\ AskedGraph(s) \in GraphLoads /\ AskedGraph(s).of = s /\ AskedGraph(s).phase = worldSteps
         /\ \A q \in graphAsks' : q.phase <= worldSteps
<1>1. world \in World /\ world.phase = worldSteps /\ worldSteps \in Nat /\ sceneSteps \in Nat
  BY TopologyAssumption DEF PanelInv, AsksTypeOK, TopologyTypeOK
<1>2. worldSteps + sceneSteps \in Nat
  BY <1>1
<1>3. /\ AskedGraph(s) \in GraphLoads /\ AskedGraph(s).of = s /\ AskedGraph(s).phase = worldSteps
      /\ AskedGraph(s).aborted = FALSE
  BY <1>1, <1>2 DEF AskedGraph, GraphLoads, World
<1>4. graphAsks' = Aborted \cup {AskedGraph(s)} /\ graphBusy' = TRUE
  BY DEF LoadGraph
<1>5. /\ Aborted \subseteq GraphLoads
      /\ \A q \in Aborted : q.aborted /\ q.phase <= worldSteps
  BY AbortedTells
<1>6. LiveLoads' = {AskedGraph(s)}
  BY <1>3, <1>4, <1>5 DEF LiveLoads
<1>7. graphAsks' \subseteq GraphLoads /\ \A q \in graphAsks' : q.phase <= worldSteps
  BY <1>1, <1>3, <1>4, <1>5
<1> QED BY <1>3, <1>4, <1>6, <1>7

\* Another scene is chosen.
LEMMA ChooseKeeps ==
  ASSUME PanelInv, NEW s \in Scenes, ChooseScene(s)
  PROVE  PanelInv'
<1>1. /\ scene' = s /\ fingerprint' = NoGraph /\ LoadGraph(s) /\ sceneSteps' = sceneSteps + 1
      /\ UNCHANGED <<switchingNow, world, rawGraph, relay, filters, newest, worldSteps>>
  BY DEF ChooseScene, SceneStep, Forgotten
<1>0. /\ graphAsks' \subseteq GraphLoads /\ graphBusy' = TRUE
      /\ LiveLoads' = {AskedGraph(s)} /\ AskedGraph(s).of = s
      /\ \A q \in graphAsks' : q.phase <= worldSteps
  BY <1>1, LoadTells
<1>2. TopologyTypeOK'
  BY <1>0, <1>1 DEF PanelInv, TopologyTypeOK
<1>3. AsksTypeOK'
  BY <1>0, <1>1 DEF PanelInv, AsksTypeOK
<1>4. LiveOK' /\ GraphOfScene' /\ PrintOK'
  BY <1>0, <1>1 DEF LiveOK, GraphOfScene, PrintOK
<1>5. NewestOK' /\ (filters # {})'
  BY <1>1 DEF PanelInv, NewestOK
<1> QED BY <1>2, <1>3, <1>4, <1>5 DEF PanelInv

\* A switch of context begins: nothing is awaited,
LEMMA SwitchStartsKeeps ==
  ASSUME PanelInv, NEW s \in Scenes, SwitchStarts(s)
  PROVE  PanelInv'
<1>1. /\ scene' = s /\ fingerprint' = NoGraph /\ graphAsks' = Aborted /\ graphBusy' = FALSE
      /\ switchingNow' = TRUE /\ relay' = FALSE /\ sceneSteps' = sceneSteps + 1
      /\ UNCHANGED <<world, rawGraph, filters, newest, worldSteps>>
  BY DEF SwitchStarts, SceneStep, Forgotten
<1>2. TopologyTypeOK'
  BY <1>1 DEF PanelInv, TopologyTypeOK
<1>3. AsksTypeOK'
  BY <1>1, AbortedTells DEF PanelInv, AsksTypeOK
<1>4. LiveLoads' = {}
  BY <1>1, AbortedTells DEF LiveLoads
<1>5. LiveOK' /\ GraphOfScene' /\ PrintOK'
  BY <1>1, <1>4 DEF LiveOK, GraphOfScene, PrintOK
<1>6. NewestOK' /\ (filters # {})'
  BY <1>1 DEF PanelInv, NewestOK
<1> QED BY <1>2, <1>3, <1>5, <1>6 DEF PanelInv

\* ... and ends with a load, as does a poll or a click.
LEMMA ReloadKeeps ==
  ASSUME PanelInv, LoadGraph(scene), switchingNow' \in BOOLEAN, relay' \in BOOLEAN,
         sceneSteps' \in Nat,
         UNCHANGED <<scene, world, rawGraph, fingerprint, filters, newest, graphOdd, worldSteps>>
  PROVE  PanelInv'
<1>0. scene \in Scenes
  BY DEF PanelInv, TopologyTypeOK
<1>1. /\ graphAsks' \subseteq GraphLoads /\ graphBusy' = TRUE
      /\ LiveLoads' = {AskedGraph(scene)}
      /\ AskedGraph(scene).of = scene /\ AskedGraph(scene).phase = worldSteps
      /\ \A q \in graphAsks' : q.phase <= worldSteps
  BY <1>0, LoadTells
<1>2. TopologyTypeOK'
  BY <1>1 DEF PanelInv, TopologyTypeOK
<1>3. AsksTypeOK'
  BY <1>1 DEF PanelInv, AsksTypeOK
<1>4. LiveOK' /\ GraphOfScene'
  BY <1>1 DEF LiveOK, GraphOfScene
<1>5. PrintOK'
  BY <1>1 DEF PanelInv, PrintOK
<1>6. NewestOK' /\ (filters # {})'
  BY DEF PanelInv, NewestOK
<1> QED BY <1>2, <1>3, <1>4, <1>5, <1>6 DEF PanelInv

\* A change of the cluster makes every answer older.
LEMMA WorldKeeps ==
  ASSUME PanelInv, NEW w \in World, WorldChanges(w)
  PROVE  PanelInv'
<1>1. /\ worldSteps < MaxWorldSteps /\ worldSteps' = worldSteps + 1 /\ world' = w
      /\ w.phase = worldSteps'
      /\ UNCHANGED <<scene, switchingNow, rawGraph, fingerprint, graphAsks, graphBusy, relay,
                     filters, newest, graphOdd, sceneSteps>>
  BY DEF WorldChanges
<1>2. TopologyTypeOK'
  BY <1>1 DEF PanelInv, TopologyTypeOK
<1>3. AsksTypeOK'
  <2>1. \A q \in graphAsks : q.phase \in Nat /\ q.phase <= worldSteps
    BY DEF PanelInv, AsksTypeOK, GraphLoads
  <2>2. worldSteps \in Nat /\ worldSteps + 1 \in 0..MaxWorldSteps
    BY <1>1, TopologyAssumption DEF PanelInv, AsksTypeOK
  <2>3. \A q \in graphAsks : q.phase <= worldSteps + 1
    BY <2>1, <2>2
  <2> QED BY <1>1, <2>2, <2>3 DEF PanelInv, AsksTypeOK
<1>4. LiveOK' /\ GraphOfScene' /\ NewestOK' /\ (filters # {})'
  BY <1>1 DEF PanelInv, LiveOK, LiveLoads, GraphOfScene, NewestOK
<1>5. PrintOK'
  <2> SUFFICES ASSUME fingerprint' # NoGraph PROVE PrintOK'
    BY DEF PrintOK
  <2>1. /\ rawGraph.phase \in Nat /\ rawGraph.phase <= worldSteps
        /\ rawGraph.of = scene /\ rawGraph.shape = fingerprint
        /\ \A q \in LiveLoads : rawGraph.phase <= q.phase
    BY <1>1 DEF PanelInv, PrintOK
  <2>3. worldSteps \in Nat
    BY TopologyAssumption DEF PanelInv, AsksTypeOK
  <2>4. rawGraph.phase <= worldSteps + 1
    BY <2>1, <2>3
  <2> QED BY <1>1, <2>1, <2>4 DEF PrintOK, LiveLoads
<1> QED BY <1>2, <1>3, <1>4, <1>5 DEF PanelInv

\* An answer is made of the cluster as it is.
LEMMA ServedKeeps ==
  ASSUME PanelInv, NEW q \in graphAsks, GraphServed(q)
  PROVE  PanelInv'
<1> DEFINE served == [q EXCEPT !.answered = TRUE, !.shape = world.shape, !.phase = world.phase]
<1>1. /\ graphAsks' = (graphAsks \ {q}) \cup {served}
      /\ UNCHANGED <<scene, switchingNow, world, rawGraph, fingerprint, graphBusy, relay, filters,
                     newest, graphOdd, worldSteps, sceneSteps>>
  BY DEF GraphServed
<1>2. q \in GraphLoads /\ world \in World /\ world.phase = worldSteps
  BY DEF PanelInv, AsksTypeOK, TopologyTypeOK
<1>3. served \in GraphLoads /\ served.of = q.of /\ served.aborted = q.aborted
      /\ served.phase = worldSteps
  BY <1>2 DEF GraphLoads, World
<1> HIDE DEF served
<1>4. TopologyTypeOK'
  BY <1>1 DEF PanelInv, TopologyTypeOK
<1>5. AsksTypeOK'
  BY <1>1, <1>3 DEF PanelInv, AsksTypeOK
<1>6. ASSUME NEW p \in LiveLoads'
      PROVE  (p = served /\ q \in LiveLoads) \/ (p \in LiveLoads /\ p # q)
  <2>1. p \in graphAsks' /\ ~p.aborted
    BY DEF LiveLoads
  <2>2. CASE p = served
    BY <1>3, <2>1, <2>2 DEF LiveLoads
  <2>3. CASE p \in graphAsks \ {q}
    BY <2>1, <2>3 DEF LiveLoads
  <2> QED BY <1>1, <2>1, <2>2, <2>3
<1>7. LiveLoads # {} => LiveLoads' # {}
  <2> SUFFICES ASSUME NEW p \in LiveLoads PROVE LiveLoads' # {}
    OBVIOUS
  <2>1. CASE p = q
    <3>1. served \in LiveLoads'
      BY <1>1, <1>3, <2>1 DEF LiveLoads
    <3> QED BY <3>1
  <2>2. CASE p # q
    <3>1. p \in LiveLoads'
      BY <1>1, <2>2 DEF LiveLoads
    <3> QED BY <3>1
  <2> QED BY <2>1, <2>2
<1>8. LiveOK'
  BY <1>1, <1>3, <1>6, <1>7 DEF PanelInv, LiveOK
<1>9. GraphOfScene' /\ NewestOK' /\ (filters # {})'
  BY <1>1 DEF PanelInv, GraphOfScene, NewestOK
<1>10. PrintOK'
  BY <1>1, <1>3, <1>6 DEF PanelInv, PrintOK
<1> QED BY <1>4, <1>5, <1>8, <1>9, <1>10 DEF PanelInv

\* An answer is shown if its load was not aborted and its shape is another.
LEMMA ArrivesKeeps ==
  ASSUME PanelInv, NEW q \in graphAsks, NEW ok \in BOOLEAN, GraphArrives(q, ok)
  PROVE  PanelInv'
<1> DEFINE g == [of |-> q.of, shape |-> q.shape, phase |-> q.phase]
<1>1. /\ graphAsks' = graphAsks \ {q}
      /\ UNCHANGED <<scene, switchingNow, world, relay, filters, worldSteps, sceneSteps>>
  BY DEF GraphArrives
<1>2. /\ q \in GraphLoads /\ q.of \in Scenes /\ q.shape \in ShapeSet /\ q.phase \in 0..MaxWorldSteps
      /\ q.aborted \in BOOLEAN
  BY DEF PanelInv, AsksTypeOK, GraphLoads
<1>3. AsksTypeOK' /\ (filters # {})'
  BY <1>1 DEF PanelInv, AsksTypeOK
<1>4. LiveLoads' = LiveLoads \ {q}
  BY <1>1 DEF LiveLoads
<1>5. CASE q.aborted
  <2>1. UNCHANGED <<rawGraph, fingerprint, graphBusy, newest, graphOdd>>
    BY <1>5 DEF GraphArrives, Taken
  <2>2. LiveLoads' = LiveLoads
    BY <1>4, <1>5 DEF LiveLoads
  <2>3. TopologyTypeOK' /\ LiveOK' /\ GraphOfScene' /\ NewestOK' /\ PrintOK'
    BY <1>1, <2>1, <2>2 DEF PanelInv, TopologyTypeOK, LiveOK, GraphOfScene, NewestOK, PrintOK
  <2> QED BY <1>3, <2>3 DEF PanelInv
<1>6. CASE ~q.aborted
  <2>1. q \in LiveLoads /\ LiveLoads' = {} /\ q.of = scene
    BY <1>4, <1>6 DEF PanelInv, LiveOK, LiveLoads
  <2>2. /\ graphBusy' = FALSE
        /\ newest' = IF ok THEN g ELSE newest
        /\ IF ok /\ q.shape # fingerprint THEN rawGraph' = g /\ fingerprint' = q.shape
           ELSE UNCHANGED <<rawGraph, fingerprint>>
        /\ ~ok => "load failed" \in graphOdd'
    BY <1>6 DEF GraphArrives, Taken, SameShape
  <2>3. LiveOK'
    BY <2>1, <2>2 DEF LiveOK
  <2>4. CASE ok /\ q.shape # fingerprint
    <3>1. rawGraph' = g /\ fingerprint' = q.shape /\ newest' = g
      BY <2>2, <2>4
    <3>2. TopologyTypeOK'
      BY <1>1, <1>2, <2>2, <3>1 DEF PanelInv, TopologyTypeOK
    <3>3. NewestOK' /\ GraphOfScene'
      BY <1>1, <1>2, <2>1, <3>1, TopologyAssumption DEF NewestOK, GraphOfScene
    <3>4. PrintOK'
      BY <1>1, <1>2, <2>1, <3>1, TopologyAssumption DEF PanelInv, PrintOK, AsksTypeOK
    <3> QED BY <1>3, <2>3, <3>2, <3>3, <3>4 DEF PanelInv
  <2>5. CASE ok /\ q.shape = fingerprint
    <3>1. rawGraph' = rawGraph /\ fingerprint' = fingerprint /\ newest' = g
      BY <2>2, <2>5
    <3>2. /\ rawGraph.phase \in Nat /\ rawGraph.phase <= worldSteps
          /\ rawGraph.of = scene /\ rawGraph.shape = fingerprint
          /\ rawGraph.phase <= q.phase
      BY <1>2, <2>1, <2>5, TopologyAssumption DEF PanelInv, PrintOK, ShapeSet
    <3>3. TopologyTypeOK' /\ GraphOfScene'
      BY <1>1, <2>2, <3>1, <3>2 DEF PanelInv, TopologyTypeOK, GraphOfScene
    <3>4. NewestOK' /\ PrintOK'
      BY <1>1, <2>1, <2>5, <3>1, <3>2 DEF NewestOK, PrintOK
    <3> QED BY <1>3, <2>3, <3>3, <3>4 DEF PanelInv
  <2>6. CASE ~ok
    <3>1. UNCHANGED <<rawGraph, fingerprint, newest>> /\ "load failed" \in graphOdd'
      BY <2>2, <2>6
    <3>2. TopologyTypeOK' /\ GraphOfScene' /\ NewestOK' /\ PrintOK'
      BY <1>1, <2>1, <2>2, <3>1 DEF PanelInv, TopologyTypeOK, GraphOfScene, NewestOK, PrintOK
    <3> QED BY <1>3, <2>3, <3>2 DEF PanelInv
  <2> QED BY <2>4, <2>5, <2>6
<1> QED BY <1>2, <1>5, <1>6

\* The last filter stays.
LEMMA ToggleKeeps ==
  ASSUME PanelInv, NEW f \in AllFilters, ToggleFilter(f)
  PROVE  PanelInv'
<1>1. /\ filters' = Toggled(f)
      /\ UNCHANGED <<scene, switchingNow, world, rawGraph, fingerprint, graphAsks, graphBusy,
                     relay, newest, graphOdd, worldSteps, sceneSteps>>
  BY DEF ToggleFilter
<1>2. filters' # {}
  <2>1. CASE f \in filters /\ Cardinality(filters) > 1
    <3>1. Cardinality({f}) = 1
      BY FS_Singleton
    <3>2. filters # {f}
      BY <2>1, <3>1
    <3> QED BY <1>1, <2>1, <3>2 DEF Toggled
  <2>2. CASE ~(f \in filters /\ Cardinality(filters) > 1)
    BY <1>1, <2>2 DEF Toggled
  <2> QED BY <2>1, <2>2
<1>3. filters' \subseteq AllFilters
  BY <1>1 DEF PanelInv, TopologyTypeOK, Toggled
<1>4. TopologyTypeOK'
  BY <1>1, <1>3 DEF PanelInv, TopologyTypeOK
<1>5. AsksTypeOK' /\ LiveOK' /\ GraphOfScene'
  BY <1>1 DEF PanelInv, AsksTypeOK, LiveOK, LiveLoads, GraphOfScene
<1>6. NewestOK' /\ PrintOK'
  BY <1>1 DEF PanelInv, NewestOK, PrintOK, LiveLoads
<1> QED BY <1>2, <1>4, <1>5, <1>6 DEF PanelInv

\* The network panel draws the graph of the scene that is chosen.
THEOREM PanelHolds == TopologySpec => []NetworkPanelTrue
<1>1. ASSUME PanelInv, [TopologyNext]_graphVars PROVE PanelInv'
  <2>0. scene \in Scenes /\ switchingNow \in BOOLEAN /\ relay \in BOOLEAN /\ sceneSteps \in Nat
    BY <1>1 DEF PanelInv, TopologyTypeOK, AsksTypeOK
  <2>1. CASE \E s \in Scenes : ChooseScene(s) \/ SwitchStarts(s)
    BY <1>1, <2>1, ChooseKeeps, SwitchStartsKeeps
  <2>2. CASE \E hubble \in BOOLEAN : SwitchOver(hubble)
    <3>1. /\ LoadGraph(scene) /\ switchingNow' = FALSE /\ relay' \in BOOLEAN
          /\ UNCHANGED <<scene, world, rawGraph, fingerprint, filters, newest, graphOdd,
                         worldSteps, sceneSteps>>
      BY <2>2 DEF SwitchOver
    <3> QED BY <1>1, <2>0, <3>1, ReloadKeeps
  <2>3. CASE ReloadGraph
    <3>1. /\ LoadGraph(scene) /\ sceneSteps' = sceneSteps + 1
          /\ UNCHANGED <<scene, switchingNow, world, rawGraph, fingerprint, relay, filters,
                         newest, graphOdd, worldSteps>>
      BY <2>3 DEF ReloadGraph, SceneStep
    <3> QED BY <1>1, <2>0, <3>1, ReloadKeeps
  <2>4. CASE \E w \in World : WorldChanges(w)
    BY <1>1, <2>4, WorldKeeps
  <2>5. CASE \E q \in graphAsks : GraphServed(q) \/ \E ok \in BOOLEAN : GraphArrives(q, ok)
    BY <1>1, <2>5, ServedKeeps, ArrivesKeeps
  <2>6. CASE \E f \in AllFilters : ToggleFilter(f)
    BY <1>1, <2>6, ToggleKeeps
  <2>7. CASE UNCHANGED graphVars
    <3>1. TopologyTypeOK' /\ AsksTypeOK' /\ LiveOK'
      BY <1>1, <2>7 DEF graphVars, PanelInv, TopologyTypeOK, AsksTypeOK, LiveOK, LiveLoads
    <3>2. GraphOfScene' /\ NewestOK' /\ PrintOK' /\ (filters # {})'
      BY <1>1, <2>7 DEF graphVars, PanelInv, GraphOfScene, NewestOK, PrintOK, LiveLoads
    <3> QED BY <3>1, <3>2 DEF PanelInv
  <2> QED BY <1>1, <2>1, <2>2, <2>3, <2>4, <2>5, <2>6, <2>7 DEF TopologyNext
<1> QED BY <1>1, PanelStarts, PanelInvTells, PTL DEF TopologySpec

(***************************************************************************)
(* HelmBrowser: what is found, and installed                               *)
(***************************************************************************)

\* An install that was ordered, with the version and the values it was ordered with.
Installs == [n: Nat, version: VersionSet \cup {NoneYet}, values: VersionSet \cup {NoneYet},
           edited: BOOLEAN, phase: {"running", "ok", "error"}]
\* The install dialog.
Dialogs == [n: Nat, open: BOOLEAN, versions: BOOLEAN, version: VersionSet \cup {NoneYet},
            values: VersionSet \cup {NoneYet}, loading: BOOLEAN, edited: BOOLEAN,
            running: BOOLEAN, done: BOOLEAN, error: BOOLEAN]
\* The page of charts on display, and what it was searched for.
Pages == [of: [q: Queries \cup {FirstQuery, HintQuery}, off: {0, 1}] \cup {NoneYet},
          loading: BOOLEAN, error: BOOLEAN,
          searched: [q: Queries \cup {FirstQuery, HintQuery}, off: {0, 1}]]
\* A search under way: what for, and its number.
Searches == [of: [q: Queries \cup {FirstQuery, HintQuery}, off: {0, 1}], n: Nat]
\* A load of the values of a version, for a dialog.
ChartLoads == [n: Nat, version: VersionSet]

\* The types of what the browser holds.
BrowserTypes ==
  /\ box \in Queries \cup {FirstQuery, HintQuery}
  /\ page \in Pages /\ looks \subseteq Searches /\ lastLook \in Nat
  /\ busy \subseteq {"adding", "refreshing"} /\ repoAdded \in BOOLEAN /\ offer \in BOOLEAN
  /\ installer \in Dialogs /\ valueLoads \subseteq ChartLoads /\ installs \in Seq(Installs)
  /\ lines \subseteq DOMAIN installs /\ lookCount \in 0..MaxLooks

\* Without overlap there is one search at most, that is the newest; the spinner turns for
\* it, and without a spinner what it has found is on display.
SearchOK ==
  "searches overlap" \notin looked =>
    /\ \A k \in looks, l \in looks : k = l
    /\ page.loading <=> looks # {}
    /\ \A k \in looks : k.of = page.searched
    /\ ~page.loading /\ ~page.error => page.of = page.searched

\* Values are loaded for the dialogs so far, and for what is chosen in the one that is
\* open; once loaded they are of what is chosen, or edited.
DialogOK ==
  /\ \A l \in valueLoads : l.n <= installer.n
  /\ "loads overlap" \notin looked /\ installer.open =>
       /\ \A k \in valueLoads, l \in valueLoads :
            k.n = installer.n /\ l.n = installer.n => k = l
       /\ \A l \in valueLoads : l.n = installer.n =>
            l.version = installer.version /\ installer.loading
       /\ ~installer.loading /\ ~installer.edited => installer.values = installer.version

\* What runs is the install of the dialog that is open.
RunningOK ==
  "closed while installing" \notin looked =>
    /\ \A k \in DOMAIN installs : installs[k].phase = "running" =>
         installs[k].n = installer.n /\ installer.open /\ installer.running
    /\ \A k \in DOMAIN installs, l \in DOMAIN installs :
         installs[k].phase = "running" /\ installs[l].phase = "running" => k = l
    /\ \A k \in lines : installs[k].n = installer.n

\* A dialog that tells that the install is done has ordered one that ended well.
DoneOK ==
  installer.done =>
    \E k \in DOMAIN installs : installs[k].n = installer.n /\ installs[k].phase = "ok"

\* The inductive invariant of the browser.
BrowserInv ==
  BrowserTypes /\ SearchOK /\ DialogOK /\ InstalledAsShown /\ RunningOK /\ DoneOK

\* What the browser's invariant says of what is shown.
LEMMA BrowserInvTells == BrowserInv => HelmBrowserTrue
<1> SUFFICES ASSUME BrowserInv PROVE HelmBrowserTrue
  OBVIOUS
<1>1. BrowserTypeOK
  <2>1. \A k \in DOMAIN installs : installs[k] \in Installs
    BY DEF BrowserInv, BrowserTypes
  <2> QED BY <2>1 DEF BrowserInv, BrowserTypes, BrowserTypeOK, Pages, Dialogs, Installs
<1>2. ChartsOfSearch
  BY DEF BrowserInv, SearchOK, ChartsOfSearch
<1>3. InstallTells
  <2>1. CASE "closed while installing" \in looked
    BY <2>1 DEF BrowserInv, DoneOK, InstallTells
  <2>2. CASE "closed while installing" \notin looked
    <3> DEFINE running == {k \in DOMAIN installs : installs[k].phase = "running"}
    <3>1. \A k \in running, l \in running : k = l
      BY <2>2 DEF BrowserInv, RunningOK
    <3> HIDE DEF running
    <3>2. running = {} \/ \E k \in running : running = {k}
      BY <3>1
    <3>3. Cardinality(running) \in {0, 1}
      <4>1. Cardinality({}) = 0 /\ \A k \in running : Cardinality({k}) = 1
        BY FS_EmptySet, FS_Singleton
      <4> QED BY <3>2, <4>1
    <3>4. Cardinality(running) <= 1
      BY <3>3
    <3>5. \A k \in lines : installs[k].n = installer.n
      BY <2>2 DEF BrowserInv, RunningOK
    <3> QED BY <3>4, <3>5 DEF BrowserInv, DoneOK, InstallTells, running
  <2> QED BY <2>1, <2>2
<1> QED BY <1>1, <1>2, <1>3 DEF BrowserInv, HelmBrowserTrue

\* The panel opens with its first search under way.
LEMMA BrowserStarts == BrowserInit => BrowserInv
<1> SUFFICES ASSUME BrowserInit PROVE BrowserInv
  OBVIOUS
<1>1. /\ repoAdded = FALSE /\ busy = {} /\ installer = NoWindow(0) /\ valueLoads = {}
      /\ installs = <<>> /\ lines = {} /\ lookCount = 0
  BY DEF BrowserInit
<1>2. /\ box \in {HintQuery, FirstQuery} /\ offer \in BOOLEAN
      /\ page = [of |-> NoneYet, loading |-> TRUE, error |-> FALSE, searched |-> Search(box, 0)]
      /\ lastLook \in {1, 2}
      /\ \/ looked = {"searches overlap"}
         \/ looked = {} /\ looks = {[of |-> Search(box, 0), n |-> 1]}
      /\ looks \subseteq {[of |-> Search(FirstQuery, 0), n |-> 1],
                          [of |-> Search(HintQuery, 0), n |-> 2]}
  BY DEF BrowserInit
<1>3. BrowserTypes
  <2>1. Search(box, 0) \in [q: Queries \cup {FirstQuery, HintQuery}, off: {0, 1}]
    BY <1>2 DEF Search
  <2>2. page \in Pages
    BY <1>2, <2>1 DEF Pages
  <2>3. looks \subseteq Searches
    <3>1. \A q \in {FirstQuery, HintQuery}, i \in {1, 2} :
            [of |-> Search(q, 0), n |-> i] \in Searches
      BY DEF Searches, Search
    <3> QED BY <1>2, <3>1
  <2>4. installer \in Dialogs
    BY <1>1 DEF Dialogs, NoWindow
  <2>5. /\ installs \in Seq(Installs) /\ lines \subseteq DOMAIN installs
        /\ valueLoads \subseteq ChartLoads
    BY <1>1
  <2>6. lookCount \in 0..MaxLooks
    <3>1. lookCount = 0
      BY <1>1
    <3> QED BY <3>1, BrowserAssumption
  <2>8. lastLook \in Nat /\ repoAdded \in BOOLEAN
    <3>1. lastLook \in {1, 2} /\ repoAdded = FALSE
      BY <1>1, <1>2
    <3>2. repoAdded \in BOOLEAN
      BY <3>1, Zenon
    <3> QED BY <3>1, <3>2
  <2>7. busy \subseteq {"adding", "refreshing"} /\ box \in Queries \cup {FirstQuery, HintQuery}
    BY <1>1, <1>2
  <2> QED BY <1>2, <2>2, <2>3, <2>4, <2>5, <2>6, <2>7, <2>8 DEF BrowserTypes
<1>4. SearchOK
  <2> SUFFICES ASSUME "searches overlap" \notin looked PROVE SearchOK
    BY DEF SearchOK
  <2> DEFINE look == [of |-> Search(box, 0), n |-> 1]
  <2>1. looks = {look} /\ look.of = Search(box, 0)
    BY <1>2
  <2>2. page.loading = TRUE /\ page.searched = Search(box, 0)
    BY <1>2
  <2> HIDE DEF look
  <2> QED BY <2>1, <2>2 DEF SearchOK
<1>5. DialogOK /\ InstalledAsShown /\ RunningOK /\ DoneOK
  BY <1>1 DEF DialogOK, InstalledAsShown, RunningOK, DoneOK, NoWindow
<1> QED BY <1>3, <1>4, <1>5 DEF BrowserInv

\* A step of the search leaves the dialog alone: what it has to show is that searches are
\* in order.
LEMMA SearchStep ==
  ASSUME BrowserInv, DialogStays, looked \subseteq looked',
         looked' \subseteq looked \cup {"searches overlap"}, SearchOK',
         box' \in Queries \cup {FirstQuery, HintQuery}, page' \in Pages,
         looks' \subseteq Searches, lastLook' \in Nat, busy' \subseteq {"adding", "refreshing"},
         repoAdded' \in BOOLEAN, offer' \in BOOLEAN, lookCount' \in 0..MaxLooks
  PROVE  BrowserInv'
<1>1. UNCHANGED <<installer, valueLoads, installs, lines>>
  BY DEF DialogStays
<1>2. BrowserTypes'
  BY <1>1 DEF BrowserInv, BrowserTypes
<1>3. DialogOK'
  BY <1>1 DEF BrowserInv, DialogOK
<1>4. InstalledAsShown'
  BY <1>1 DEF BrowserInv, InstalledAsShown
<1>5. RunningOK'
  BY <1>1 DEF BrowserInv, RunningOK
<1>6. DoneOK'
  BY <1>1 DEF BrowserInv, DoneOK
<1> QED BY <1>2, <1>3, <1>4, <1>5, <1>6 DEF BrowserInv

\* A search is made: the newest one, and the only one unless another is under way.
LEMMA BeginTells ==
  ASSUME BrowserInv, NEW s \in [q: Queries \cup {FirstQuery, HintQuery}, off: {0, 1}],
         NEW anytime \in BOOLEAN, Begin(s, anytime), anytime \/ ~page.loading
  PROVE  /\ SearchOK' /\ page' \in Pages /\ looks' \subseteq Searches /\ lastLook' \in Nat
         /\ looked \subseteq looked' /\ looked' \subseteq looked \cup {"searches overlap"}
<1> DEFINE look == [of |-> s, n |-> lastLook + 1]
<1>1. /\ looks' = looks \cup {look} /\ lastLook' = lastLook + 1
      /\ page' = [page EXCEPT !.loading = TRUE, !.error = FALSE, !.searched = s]
      /\ looked' = looked \cup (IF looks # {} /\ anytime THEN {"searches overlap"} ELSE {})
  BY DEF Begin
<1>2. page \in Pages /\ lastLook \in Nat /\ looks \subseteq Searches
  BY DEF BrowserInv, BrowserTypes
<1>3. page' \in Pages /\ page'.loading = TRUE /\ page'.searched = s
  BY <1>1, <1>2 DEF Pages
<1>4. look \in Searches /\ look.of = s
  BY <1>2 DEF Searches
<1> HIDE DEF look
<1>5. SearchOK'
  <2> SUFFICES ASSUME "searches overlap" \notin looked' PROVE SearchOK'
    BY DEF SearchOK
  <2>1. "searches overlap" \notin looked /\ ~(looks # {} /\ anytime)
    BY <1>1
  <2>2. looks = {}
    BY <2>1 DEF BrowserInv, SearchOK
  <2>3. looks' = {look}
    BY <1>1, <2>2
  <2> QED BY <1>3, <1>4, <2>3 DEF SearchOK
<1>6. looks' \subseteq Searches /\ lastLook' \in Nat
  <2>1. looks' = looks \cup {look} /\ lastLook' = lastLook + 1
    BY <1>1
  <2> QED BY <1>2, <1>4, <2>1
<1>7. looked \subseteq looked' /\ looked' \subseteq looked \cup {"searches overlap"}
  BY <1>1
<1> QED BY <1>3, <1>5, <1>6, <1>7

\* What the box holds can be searched for.
LEMMA BoxTells ==
  ASSUME BrowserInv, NEW q \in Queries \cup {FirstQuery, HintQuery}, NEW off \in {0, 1}
  PROVE  Search(q, off) \in [q: Queries \cup {FirstQuery, HintQuery}, off: {0, 1}]
  BY DEF Search

\* Typing, a search, the next page, and a repository.
LEMMA LooksKeep ==
  ASSUME BrowserInv,
         \/ \E q \in Queries \cup {FirstQuery, HintQuery} : Type(q)
         \/ \E q \in Queries : PickRepo(q)
         \/ Submit \/ NextPage
  PROVE  BrowserInv'
<1>1. /\ box \in Queries \cup {FirstQuery, HintQuery} /\ page \in Pages /\ looks \subseteq Searches
      /\ lastLook \in Nat /\ busy \subseteq {"adding", "refreshing"} /\ repoAdded \in BOOLEAN
      /\ offer \in BOOLEAN /\ lookCount \in 0..MaxLooks
  BY DEF BrowserInv, BrowserTypes
<1>2. lookCount' \in 0..MaxLooks /\ UNCHANGED <<repoAdded, offer, busy>> /\ DialogStays
  <2>1. Look /\ UNCHANGED <<repoAdded, offer, busy>> /\ DialogStays
    BY DEF Type, PickRepo, Submit, NextPage
  <2> QED BY <1>1, <2>1, BrowserAssumption DEF Look
<1>3. CASE \E q \in Queries \cup {FirstQuery, HintQuery} : Type(q)
  <2>1. /\ box' \in Queries \cup {FirstQuery, HintQuery}
        /\ UNCHANGED <<page, looks, lastLook, looked>>
    BY <1>3 DEF Type
  <2>2. SearchOK'
    BY <2>1 DEF BrowserInv, SearchOK
  <2> QED BY <1>1, <1>2, <2>1, <2>2, SearchStep
<1>4. CASE \E q \in Queries : PickRepo(q)
  <2>1. PICK q \in Queries : PickRepo(q)
    BY <1>4
  <2>2. box' = q /\ Begin(Search(q, 0), TRUE)
    BY <2>1 DEF PickRepo
  <2>3. Search(q, 0) \in [q: Queries \cup {FirstQuery, HintQuery}, off: {0, 1}]
    BY BoxTells
  <2> QED BY <1>1, <1>2, <2>2, <2>3, BeginTells, SearchStep
<1>5. CASE Submit \/ NextPage
  <2>1. PICK off \in {0, 1} : Begin(Search(box, off), FALSE)
    BY <1>5 DEF Submit, NextPage
  <2>2. box' = box /\ ~page.loading
    BY <1>5 DEF Submit, NextPage, MaySearch
  <2>3. Search(box, off) \in [q: Queries \cup {FirstQuery, HintQuery}, off: {0, 1}]
    BY <1>1, BoxTells
  <2> QED BY <1>1, <1>2, <2>1, <2>2, <2>3, BeginTells, SearchStep
<1> QED BY <1>3, <1>4, <1>5

\* What a search has found is shown.
LEMMA FoundKeeps ==
  ASSUME BrowserInv, NEW k \in looks, NEW ok \in BOOLEAN, Found(k, ok)
  PROVE  BrowserInv'
<1>1. /\ looks' = looks \ {k}
      /\ page' = IF ok THEN [page EXCEPT !.of = k.of, !.loading = FALSE]
                 ELSE [page EXCEPT !.error = TRUE, !.loading = FALSE]
      /\ UNCHANGED <<box, lastLook, repoAdded, offer, busy, looked, lookCount>> /\ DialogStays
  BY DEF Found
<1>2. BrowserTypes /\ page \in Pages /\ k \in Searches
  BY DEF BrowserInv, BrowserTypes
<1>3. /\ page' \in Pages /\ page'.loading = FALSE /\ page'.searched = page.searched
      /\ ok => page'.of = k.of
      /\ ~ok => page'.error = TRUE
  BY <1>1, <1>2 DEF Pages, Searches
<1>4. SearchOK'
  BY <1>1, <1>3 DEF BrowserInv, SearchOK
<1> QED BY <1>1, <1>2, <1>3, <1>4, SearchStep DEF BrowserTypes

\* A repository is added, or the list refreshed, and a search made at the end.
LEMMA BusyKeeps ==
  ASSUME BrowserInv, NEW what \in {"adding", "refreshing"},
         StartBusy(what) \/ \E ok \in BOOLEAN : EndBusy(what, ok)
  PROVE  BrowserInv'
<1>1. BrowserTypes
  BY DEF BrowserInv
<1>2. CASE StartBusy(what)
  <2>1. /\ busy' = busy \cup {what} /\ lookCount' \in 0..MaxLooks /\ DialogStays
        /\ UNCHANGED <<box, page, looks, lastLook, repoAdded, offer, looked>>
    BY <1>1, <1>2, BrowserAssumption DEF StartBusy, Look, BrowserTypes
  <2>2. SearchOK'
    BY <2>1 DEF BrowserInv, SearchOK
  <2> QED BY <1>1, <2>1, <2>2, SearchStep DEF BrowserTypes
<1>3. CASE \E ok \in BOOLEAN : EndBusy(what, ok)
  <2>1. busy' = busy \ {what} /\ lookCount' = lookCount /\ DialogStays
    BY <1>3 DEF EndBusy
  <2>2. CASE UNCHANGED <<box, page, looks, lastLook, repoAdded, offer, looked>>
    <3>1. SearchOK'
      BY <2>2 DEF BrowserInv, SearchOK
    <3> QED BY <1>1, <2>1, <2>2, <3>1, SearchStep DEF BrowserTypes
  <2>3. CASE ~UNCHANGED <<box, page, looks, lastLook, repoAdded, offer, looked>>
    <3>1. /\ repoAdded' = (repoAdded \/ what = "adding")
          /\ box' \in {box, HintQuery} /\ offer' \in {offer, FALSE}
          /\ Begin(Search(box', 0), TRUE)
      BY <1>3, <2>3 DEF EndBusy
    <3>2. box' \in Queries \cup {FirstQuery, HintQuery}
      BY <1>1, <3>1 DEF BrowserTypes
    <3>3. Search(box', 0) \in [q: Queries \cup {FirstQuery, HintQuery}, off: {0, 1}]
      BY <3>2, BoxTells
    <3>4. /\ SearchOK' /\ page' \in Pages /\ looks' \subseteq Searches /\ lastLook' \in Nat
          /\ looked \subseteq looked' /\ looked' \subseteq looked \cup {"searches overlap"}
      BY <3>1, <3>3, BeginTells
    <3>5. /\ busy' \subseteq {"adding", "refreshing"} /\ lookCount' \in 0..MaxLooks
          /\ repoAdded' \in BOOLEAN /\ offer' \in BOOLEAN
      BY <1>1, <2>1, <3>1 DEF BrowserTypes
    <3> QED BY <2>1, <3>2, <3>4, <3>5, SearchStep
  <2> QED BY <2>2, <2>3
<1> QED BY <1>2, <1>3

\* A step of the dialog leaves the search alone.
LEMMA DialogStep ==
  ASSUME BrowserInv, SearchStays, looked \subseteq looked',
         "searches overlap" \in looked' => "searches overlap" \in looked,
         installer' \in Dialogs, valueLoads' \subseteq ChartLoads, installs' \in Seq(Installs),
         lines' \subseteq DOMAIN installs', lookCount' \in 0..MaxLooks,
         DialogOK', InstalledAsShown', RunningOK', DoneOK'
  PROVE  BrowserInv'
<1>1. UNCHANGED <<box, page, looks, lastLook, repoAdded, offer, busy>>
  BY DEF SearchStays
<1>2. BrowserTypes'
  BY <1>1 DEF BrowserInv, BrowserTypes
<1>3. SearchOK'
  BY <1>1 DEF BrowserInv, SearchOK
<1> QED BY <1>2, <1>3 DEF BrowserInv

\* The types of the dialog, the loads and the installs.
LEMMA DialogTypes ==
  ASSUME BrowserInv
  PROVE  /\ installer \in Dialogs /\ valueLoads \subseteq ChartLoads /\ installs \in Seq(Installs)
         /\ lines \subseteq DOMAIN installs /\ lookCount \in 0..MaxLooks
         /\ \A k \in DOMAIN installs : installs[k] \in Installs
         /\ installer.n \in Nat /\ \A l \in valueLoads : l.n \in Nat
<1>1. /\ installer \in Dialogs /\ valueLoads \subseteq ChartLoads /\ installs \in Seq(Installs)
      /\ lines \subseteq DOMAIN installs /\ lookCount \in 0..MaxLooks
  BY DEF BrowserInv, BrowserTypes
<1>2. \A k \in DOMAIN installs : installs[k] \in Installs
  BY <1>1
<1>3. installer.n \in Nat /\ \A l \in valueLoads : l.n \in Nat
  BY <1>1 DEF Dialogs, ChartLoads
<1> QED BY <1>1, <1>2, <1>3

\* What the dialog shows stays, and what is loaded for it.
LEMMA ChoiceStays ==
  ASSUME DialogOK, looked \subseteq looked', valueLoads' = valueLoads,
         installer'.n = installer.n, installer'.open = installer.open,
         installer'.version = installer.version, installer'.values = installer.values,
         installer'.edited = installer.edited, installer'.loading = installer.loading
  PROVE  DialogOK'
<1>1. "loads overlap" \notin looked' => "loads overlap" \notin looked
  OBVIOUS
<1> QED BY <1>1 DEF DialogOK

\* A dialog is opened: nothing of another is left in it.
LEMMA OpenKeeps ==
  ASSUME BrowserInv, OpenInstall
  PROVE  BrowserInv'
<1> DEFINE fresh == [NoWindow(installer.n + 1) EXCEPT !.open = TRUE]
<1>1. /\ ~installer.open /\ installer' = fresh /\ lines' = {}
      /\ Look /\ SearchStays /\ UNCHANGED <<valueLoads, installs, looked>>
  BY DEF OpenInstall
<1>2. installer.n \in Nat /\ \A l \in valueLoads : l.n \in Nat /\ l.n <= installer.n
  BY DialogTypes DEF BrowserInv, DialogOK
<1>3. /\ fresh \in Dialogs /\ fresh.n = installer.n + 1 /\ fresh.open = TRUE /\ fresh.done = FALSE
      /\ fresh.running = FALSE /\ fresh.values = fresh.version
  <2>1. \A m \in Nat : LET w == [NoWindow(m) EXCEPT !.open = TRUE]
                       IN  /\ w \in Dialogs /\ w.n = m /\ w.open = TRUE /\ w.done = FALSE
                           /\ w.running = FALSE /\ w.values = w.version
    BY DEF NoWindow, Dialogs
  <2>2. installer.n + 1 \in Nat
    BY <1>2
  <2> QED BY <2>1, <2>2
<1> HIDE DEF fresh
<1>4. \A l \in valueLoads : l.n <= installer.n + 1 /\ l.n # installer.n + 1
  BY <1>2
<1>5. lookCount' \in 0..MaxLooks
  BY <1>1, DialogTypes, BrowserAssumption DEF Look
<1>6. DialogOK'
  BY <1>1, <1>3, <1>4 DEF DialogOK
<1>7. InstalledAsShown' /\ DoneOK'
  BY <1>1, <1>3 DEF BrowserInv, InstalledAsShown, DoneOK
<1>8. RunningOK'
  BY <1>1 DEF BrowserInv, RunningOK
<1> QED BY <1>1, <1>3, <1>5, <1>6, <1>7, <1>8, DialogTypes, DialogStep

\* A version is chosen in the dialog, and its values asked for.
LEMMA ChooseVersionKeeps ==
  ASSUME BrowserInv, NEW w \in Dialogs, NEW v \in VersionSet, ChooseVersion(w, v),
         installer.open, w = [installer EXCEPT !.versions = w.versions], SearchStays,
         UNCHANGED <<installs, lines>>, lookCount' \in 0..MaxLooks
  PROVE  BrowserInv'
<1> DEFINE newLoad == [n |-> w.n, version |-> v]
<1>1. /\ installer' = [w EXCEPT !.version = v, !.loading = TRUE]
      /\ valueLoads' = valueLoads \cup {newLoad}
      /\ looked' = looked \cup (IF \E l \in valueLoads : l.n = w.n THEN {"loads overlap"} ELSE {})
  BY DEF ChooseVersion
<1>2. installer \in Dialogs
  BY DialogTypes
<1>3. /\ w.n = installer.n /\ w.open = installer.open /\ w.done = installer.done
      /\ w.running = installer.running
  BY <1>2 DEF Dialogs
<1>4. /\ installer' \in Dialogs /\ installer'.n = installer.n /\ installer'.open = installer.open
      /\ installer'.done = installer.done /\ installer'.running = installer.running
      /\ installer'.version = v /\ installer'.loading = TRUE
  BY <1>1, <1>3 DEF Dialogs
<1>5. newLoad \in ChartLoads /\ newLoad.n = installer.n /\ newLoad.version = v
  BY <1>3, DialogTypes DEF ChartLoads
<1> HIDE DEF newLoad
<1>6. DialogOK'
  <2>1. \A l \in valueLoads : l.n <= installer.n
    BY DEF BrowserInv, DialogOK
  <2>2. installer.n <= installer.n
    BY DialogTypes
  <2>3. \A l \in valueLoads' : l.n <= installer'.n
    BY <1>1, <1>4, <1>5, <2>1, <2>2
  <2>4. ASSUME "loads overlap" \notin looked'
        PROVE  \A l \in valueLoads' : l.n = installer.n => l = newLoad
    BY <1>1, <1>3, <2>4
  <2> QED BY <1>4, <1>5, <2>3, <2>4 DEF DialogOK
<1>7. InstalledAsShown'
  BY <1>1 DEF BrowserInv, InstalledAsShown
<1>8. DoneOK'
  BY <1>4 DEF BrowserInv, DoneOK
<1>9. RunningOK'
  BY <1>1, <1>4 DEF BrowserInv, RunningOK
<1>10. /\ looked \subseteq looked'
       /\ "searches overlap" \in looked' => "searches overlap" \in looked
       /\ valueLoads' \subseteq ChartLoads /\ installs' \in Seq(Installs)
       /\ lines' \subseteq DOMAIN installs'
  BY <1>1, <1>5, DialogTypes
<1> QED BY <1>4, <1>6, <1>7, <1>8, <1>9, <1>10, DialogStep

\* At first it is the newest, then the user's.
LEMMA VersionsKeep ==
  ASSUME BrowserInv, VersionsCome \/ \E v \in VersionSet : SelectVersion(v)
  PROVE  BrowserInv'
<1>1. installer \in Dialogs /\ lookCount \in 0..MaxLooks
  BY DialogTypes
<1>2. CASE VersionsCome
  <2> DEFINE w == [installer EXCEPT !.versions = TRUE]
  <2>1. w \in Dialogs /\ w = [installer EXCEPT !.versions = w.versions]
    BY <1>1 DEF Dialogs
  <2>2. Versions[1] \in VersionSet
    BY BrowserAssumption DEF VersionSet
  <2>3. /\ installer.open /\ ChooseVersion(w, Versions[1]) /\ SearchStays
        /\ UNCHANGED <<installs, lines, lookCount>>
    BY <1>2 DEF VersionsCome
  <2> HIDE DEF w
  <2> QED BY <1>1, <2>1, <2>2, <2>3, ChooseVersionKeeps
<1>3. CASE \E v \in VersionSet : SelectVersion(v)
  <2>1. PICK v \in VersionSet : SelectVersion(v)
    BY <1>3
  <2>2. /\ installer.open /\ ChooseVersion(installer, v) /\ SearchStays
        /\ UNCHANGED <<installs, lines>> /\ Look
    BY <2>1 DEF SelectVersion
  <2>3. lookCount' \in 0..MaxLooks
    BY <1>1, <2>2, BrowserAssumption DEF Look
  <2>4. installer = [installer EXCEPT !.versions = installer.versions]
    BY <1>1 DEF Dialogs
  <2> QED BY <1>1, <2>2, <2>3, <2>4, ChooseVersionKeeps
<1> QED BY <1>2, <1>3

\* The values come, to the dialog they were asked for.
LEMMA ValuesKeep ==
  ASSUME BrowserInv, NEW l \in valueLoads, NEW ok \in BOOLEAN, ValuesArrive(l, ok)
  PROVE  BrowserInv'
<1> DEFINE filled == [installer EXCEPT !.loading = FALSE, !.edited = ~ok,
                                       !.values = IF ok THEN l.version ELSE NoneYet]
<1>1. /\ valueLoads' = valueLoads \ {l}
      /\ installer' = IF ~installer.open \/ l.n # installer.n THEN installer ELSE filled
      /\ SearchStays /\ UNCHANGED <<installs, lines, looked, lookCount>>
  BY DEF ValuesArrive, TakeValues
<1>2. installer \in Dialogs /\ l \in ChartLoads
  BY DialogTypes
<1>3. /\ filled \in Dialogs /\ filled.n = installer.n /\ filled.open = installer.open
      /\ filled.done = installer.done /\ filled.running = installer.running
      /\ filled.version = installer.version /\ filled.loading = FALSE
      /\ filled.edited = ~ok
      /\ ok => filled.values = l.version
  BY <1>2 DEF Dialogs, ChartLoads
<1> HIDE DEF filled
<1>4. /\ installer' \in Dialogs /\ installer'.n = installer.n /\ installer'.open = installer.open
      /\ installer'.done = installer.done /\ installer'.running = installer.running
      /\ installer'.version = installer.version
  BY <1>1, <1>2, <1>3
<1>5. DialogOK'
  <2>1. \A p \in valueLoads' : p.n <= installer'.n
    BY <1>1, <1>4 DEF BrowserInv, DialogOK
  <2> SUFFICES ASSUME "loads overlap" \notin looked, installer.open PROVE DialogOK'
    BY <1>1, <1>4, <2>1 DEF DialogOK
  <2>2. /\ \A p \in valueLoads, q \in valueLoads :
             p.n = installer.n /\ q.n = installer.n => p = q
        /\ \A p \in valueLoads : p.n = installer.n =>
             p.version = installer.version /\ installer.loading
        /\ ~installer.loading /\ ~installer.edited => installer.values = installer.version
    BY DEF BrowserInv, DialogOK
  <2>3. CASE l.n = installer.n
    <3>1. \A p \in valueLoads' : p.n # installer.n
      BY <1>1, <2>2, <2>3
    <3>2. installer' = filled /\ l.version = installer.version
      BY <1>1, <2>2, <2>3
    <3>3. installer'.n = installer.n
      BY <1>4
    <3>4. ~installer'.loading /\ ~installer'.edited => installer'.values = installer'.version
      BY <1>3, <3>2
    <3> QED BY <2>1, <3>1, <3>3, <3>4 DEF DialogOK
  <2>4. CASE l.n # installer.n
    BY <1>1, <2>1, <2>2, <2>4 DEF DialogOK
  <2> QED BY <2>3, <2>4
<1>6. InstalledAsShown'
  BY <1>1 DEF BrowserInv, InstalledAsShown
<1>7. DoneOK'
  BY <1>1, <1>4 DEF BrowserInv, DoneOK
<1>8. RunningOK'
  BY <1>1, <1>4 DEF BrowserInv, RunningOK
<1> QED BY <1>1, <1>4, <1>5, <1>6, <1>7, <1>8, DialogTypes, DialogStep

\* An install begins with what the dialog shows.
LEMMA InstallKeeps ==
  ASSUME BrowserInv, Install
  PROVE  BrowserInv'
<1> DEFINE made == [n |-> installer.n, version |-> installer.version, values |-> installer.values,
                     edited |-> installer.edited, phase |-> "running"]
           i == Len(installs) + 1
<1>1. /\ installer.open /\ ~installer.done /\ ~installer.running
      /\ installs' = Append(installs, made)
      /\ installer' = [installer EXCEPT !.running = TRUE, !.error = FALSE] /\ lines' = {}
      /\ looked' = looked \cup (IF installer.loading THEN {"installed while loading"} ELSE {})
      /\ SearchStays /\ UNCHANGED <<valueLoads, lookCount>>
  BY DEF Install, MayInstall
<1>2. /\ installer \in Dialogs /\ installs \in Seq(Installs)
  BY DialogTypes
<1>3. /\ made \in Installs /\ made.n = installer.n /\ made.version = installer.version
      /\ made.values = installer.values /\ made.edited = installer.edited
      /\ made.phase = "running"
  BY <1>2 DEF Dialogs, Installs
<1>4. /\ installer' \in Dialogs /\ installer'.n = installer.n /\ installer'.open = installer.open
      /\ installer'.done = installer.done /\ installer'.running = TRUE
      /\ installer'.version = installer.version /\ installer'.values = installer.values
      /\ installer'.edited = installer.edited /\ installer'.loading = installer.loading
  BY <1>1, <1>2 DEF Dialogs
<1> HIDE DEF made
<1>5. /\ installs' \in Seq(Installs) /\ DOMAIN installs' = DOMAIN installs \cup {i}
      /\ i \notin DOMAIN installs /\ installs'[i] = made
      /\ \A k \in DOMAIN installs : installs'[k] = installs[k]
  <2>1. installs' = Append(installs, made) /\ made \in Installs /\ installs \in Seq(Installs)
    BY <1>1, <1>2, <1>3
  <2> QED BY <2>1
<1> HIDE DEF i
<1>6. DialogOK'
  <2>1. looked \subseteq looked' /\ valueLoads' = valueLoads /\ DialogOK
    BY <1>1 DEF BrowserInv
  <2> QED BY <1>4, <2>1, ChoiceStays
<1>7. InstalledAsShown'
  <2>1. made.values # made.version =>
          made.edited \/ looked' \cap {"loads overlap", "installed while loading"} # {}
    BY <1>1, <1>3 DEF BrowserInv, DialogOK
  <2> QED BY <1>1, <1>5, <2>1 DEF BrowserInv, InstalledAsShown
<1>8. DoneOK'
  BY <1>1, <1>4 DEF DoneOK
<1>9. RunningOK'
  <2>1. "closed while installing" \notin looked' =>
          \A k \in DOMAIN installs : installs[k].phase # "running"
    <3>1. "closed while installing" \notin looked' => "closed while installing" \notin looked
      BY <1>1
    <3>2. RunningOK /\ ~installer.running
      BY <1>1 DEF BrowserInv
    <3> QED BY <3>1, <3>2 DEF RunningOK
  <2>2. lines' = {} /\ installer.open
    BY <1>1
  <2> QED BY <1>3, <1>4, <1>5, <2>1, <2>2 DEF RunningOK
<1>10. /\ looked \subseteq looked'
       /\ "searches overlap" \in looked' => "searches overlap" \in looked
  BY <1>1
<1> QED BY <1>1, <1>4, <1>5, <1>6, <1>7, <1>8, <1>9, <1>10, DialogTypes, DialogStep

\* Its progress is shown,
LEMMA ProgressKeeps ==
  ASSUME BrowserInv, NEW k \in DOMAIN installs, Progress(k)
  PROVE  BrowserInv'
<1>1. /\ installs[k].phase = "running" /\ lines' = lines \cup {k} /\ SearchStays
      /\ UNCHANGED <<installer, valueLoads, installs, looked, lookCount>>
  BY DEF Progress
<1>2. DialogOK' /\ InstalledAsShown' /\ DoneOK'
  BY <1>1 DEF BrowserInv, DialogOK, InstalledAsShown, DoneOK
<1>3. RunningOK'
  BY <1>1 DEF BrowserInv, RunningOK
<1> QED BY <1>1, <1>2, <1>3, DialogTypes, DialogStep

\* ... and its end.
LEMMA EndsKeeps ==
  ASSUME BrowserInv, NEW k \in DOMAIN installs, NEW ok \in BOOLEAN, InstallEnds(k, ok)
  PROVE  BrowserInv'
<1> DEFINE ended == [installer EXCEPT !.running = FALSE, !.done = ok, !.error = ~ok]
           end == [installs[k] EXCEPT !.phase = IF ok THEN "ok" ELSE "error"]
<1>1. /\ installs[k].phase = "running"
      /\ installs' = [installs EXCEPT ![k].phase = IF ok THEN "ok" ELSE "error"]
      /\ installer' = IF ~installer.open \/ installs[k].n # installer.n THEN installer ELSE ended
      /\ SearchStays /\ UNCHANGED <<valueLoads, lines, looked, lookCount>>
  BY DEF InstallEnds, Relayed
<1>2. installer \in Dialogs /\ installs \in Seq(Installs) /\ installs[k] \in Installs
  BY DialogTypes
<1>3. /\ ended \in Dialogs /\ ended.n = installer.n /\ ended.open = installer.open
      /\ ended.done = ok /\ ended.version = installer.version /\ ended.values = installer.values
      /\ ended.edited = installer.edited /\ ended.loading = installer.loading
  BY <1>2 DEF Dialogs
<1>4. /\ end \in Installs /\ end.n = installs[k].n /\ end.version = installs[k].version
      /\ end.values = installs[k].values /\ end.edited = installs[k].edited
      /\ end.phase # "running"
      /\ ok => end.phase = "ok"
  BY <1>2 DEF Installs
<1>5. installs' = [installs EXCEPT ![k] = end]
  BY <1>1
<1> HIDE DEF ended, end
<1>6. /\ installs' \in Seq(Installs) /\ DOMAIN installs' = DOMAIN installs /\ installs'[k] = end
      /\ \A j \in DOMAIN installs : j # k => installs'[j] = installs[j]
  BY <1>2, <1>4, <1>5
<1>7. /\ installer' \in Dialogs /\ installer'.n = installer.n /\ installer'.open = installer.open
      /\ installer'.version = installer.version /\ installer'.values = installer.values
      /\ installer'.edited = installer.edited /\ installer'.loading = installer.loading
  BY <1>1, <1>2, <1>3
<1>8. DialogOK'
  <2>1. looked \subseteq looked' /\ valueLoads' = valueLoads /\ DialogOK
    BY <1>1 DEF BrowserInv
  <2> QED BY <1>7, <2>1, ChoiceStays
<1>9. InstalledAsShown'
  BY <1>1, <1>4, <1>6 DEF BrowserInv, InstalledAsShown
<1>10. DoneOK'
  <2>1. CASE installer' = ended /\ installs[k].n = installer.n
    <3>1. installer'.done => installs'[k].n = installer'.n /\ installs'[k].phase = "ok"
      BY <1>3, <1>4, <1>6, <2>1
    <3> QED BY <1>6, <3>1 DEF DoneOK
  <2>2. CASE installer' = installer
    <3>1. \A j \in DOMAIN installs : installs[j].phase = "ok" => j # k
      BY <1>1
    <3> QED BY <1>6, <2>2, <3>1 DEF BrowserInv, DoneOK
  <2> QED BY <1>1, <2>1, <2>2
<1>11. RunningOK'
  <2> SUFFICES ASSUME "closed while installing" \notin looked PROVE RunningOK'
    BY <1>1 DEF RunningOK
  <2>1. \A j \in DOMAIN installs' : installs'[j].phase # "running"
    <3>1. \A j \in DOMAIN installs : installs[j].phase = "running" => j = k
      BY <1>1 DEF BrowserInv, RunningOK
    <3> QED BY <1>4, <1>6, <3>1
  <2>2. \A j \in DOMAIN installs : installs'[j].n = installs[j].n
    BY <1>4, <1>6
  <2>3. \A j \in lines' : installs'[j].n = installer'.n
    BY <1>1, <1>7, <2>2, DialogTypes DEF BrowserInv, RunningOK
  <2> QED BY <2>1, <2>3 DEF RunningOK
<1> QED BY <1>1, <1>6, <1>7, <1>8, <1>9, <1>10, <1>11, DialogTypes, DialogStep

\* The dialog is closed.
LEMMA CloseKeeps ==
  ASSUME BrowserInv, CloseInstall
  PROVE  BrowserInv'
<1>1. /\ installer' = NoWindow(installer.n) /\ lines' = {}
      /\ looked' = looked \cup (IF installer.running THEN {"closed while installing"} ELSE {})
      /\ SearchStays /\ UNCHANGED <<valueLoads, installs, lookCount>>
  BY DEF CloseInstall
<1>2. /\ installer' \in Dialogs /\ installer'.n = installer.n /\ installer'.open = FALSE
      /\ installer'.done = FALSE
  BY <1>1, DialogTypes DEF NoWindow, Dialogs
<1>3. DialogOK' /\ InstalledAsShown' /\ DoneOK'
  BY <1>1, <1>2 DEF BrowserInv, DialogOK, InstalledAsShown, DoneOK
<1>4. RunningOK'
  <2> SUFFICES ASSUME "closed while installing" \notin looked' PROVE RunningOK'
    BY DEF RunningOK
  <2>1. \A k \in DOMAIN installs : installs[k].phase # "running"
    BY <1>1 DEF BrowserInv, RunningOK
  <2> QED BY <1>1, <2>1 DEF RunningOK
<1>5. /\ looked \subseteq looked'
      /\ "searches overlap" \in looked' => "searches overlap" \in looked
  BY <1>1
<1> QED BY <1>1, <1>2, <1>3, <1>4, <1>5, DialogTypes, DialogStep

\* Charts are found, and installed, as they are shown.
THEOREM BrowserHolds == BrowserSpec => []HelmBrowserTrue
<1>1. ASSUME BrowserInv, [BrowserNext]_browserVars PROVE BrowserInv'
  <2>1. CASE \/ \E q \in Queries \cup {FirstQuery, HintQuery} : Type(q)
             \/ \E q \in Queries : PickRepo(q)
             \/ Submit \/ NextPage
    BY <1>1, <2>1, LooksKeep
  <2>2. CASE \E what \in {"adding", "refreshing"} :
                StartBusy(what) \/ \E ok \in BOOLEAN : EndBusy(what, ok)
    BY <1>1, <2>2, BusyKeeps
  <2>3. CASE VersionsCome \/ \E v \in VersionSet : SelectVersion(v)
    BY <1>1, <2>3, VersionsKeep
  <2>4. CASE OpenInstall \/ Install \/ CloseInstall
    BY <1>1, <2>4, OpenKeeps, InstallKeeps, CloseKeeps
  <2>5. CASE \E ok \in BOOLEAN :
                \/ \E k \in looks : Found(k, ok)
                \/ \E l \in valueLoads : ValuesArrive(l, ok)
                \/ \E k \in DOMAIN installs : InstallEnds(k, ok)
    BY <1>1, <2>5, FoundKeeps, ValuesKeep, EndsKeeps
  <2>6. CASE \E k \in DOMAIN installs : Progress(k)
    BY <1>1, <2>6, ProgressKeeps
  <2>7. CASE UNCHANGED browserVars
    <3>1. BrowserTypes' /\ SearchOK' /\ DialogOK'
      BY <1>1, <2>7 DEF browserVars, BrowserInv, BrowserTypes, SearchOK, DialogOK
    <3>2. InstalledAsShown' /\ RunningOK' /\ DoneOK'
      BY <1>1, <2>7 DEF browserVars, BrowserInv, InstalledAsShown, RunningOK, DoneOK
    <3> QED BY <3>1, <3>2 DEF BrowserInv
  <2> QED
    BY <1>1, <2>1, <2>2, <2>3, <2>4, <2>5, <2>6, <2>7 DEF BrowserNext
<1> QED BY <1>1, BrowserStarts, BrowserInvTells, PTL DEF BrowserSpec

(***************************************************************************)
(* HelmReleases: what the panel of the releases shows and does             *)
(***************************************************************************)

\* What is asked of the sidecar.
RequestKinds == {"list", "history", "values", "rollback", "uninstall"}
\* A request, or its answer: of the detail numbered n, made in context ctx.
HelmRequests ==
  [what: RequestKinds, ctx: HelmContexts, n: Nat, id: Nat, meant: HelmContexts \cup {NoHelm},
   state: {"open", "ok", "error"}, of: HelmContexts \cup {NoHelm}, rev: Nat]
\* The list of releases.
Listings == [state: {"none", "shown", "error"}, of: HelmContexts \cup {NoHelm}, rev: Nat,
         loading: BOOLEAN, id: Nat]
\* What is on display of something that is loaded.
Displays(states) == [state: states, of: HelmContexts \cup {NoHelm}, rev: Nat]
\* The detail of a release.
Panes ==
  [mount: Nat, valuesId: Nat, values: Displays({"none", "loading", "shown", "error"}),
   tab: {"overview", "history"}, history: Displays({"none", "loading", "shown"}),
   target: BOOLEAN, rolling: BOOLEAN, least: Nat, wanted: BOOLEAN]

\* The types of what the panel holds.
HelmTypes ==
  /\ released \in [HelmContexts -> Nat] /\ chosen \in HelmContexts /\ serving \in HelmContexts
  /\ leaving \in HelmContexts \cup {NoHelm} /\ helmList \in Listings
  /\ helmList.state = "shown" => helmList.of \in HelmContexts
  /\ picked \in [of: HelmContexts, rev: Nat] \cup {NoHelm} /\ pane \in Panes
  /\ doomed \in HelmContexts \cup {NoHelm} /\ removing \in BOOLEAN
  /\ helmAsks \in Seq(HelmRequests)

\* The bound on the requests is passed by one at most: a switch that is taken back.
AskedOK ==
  /\ helmAsked \in Nat /\ helmAsked <= MaxHelmAsks + 1 /\ helmTurns \in 0..MaxHelmTurns
  /\ leaving # NoHelm => helmAsked <= MaxHelmAsks

\* A request was served in another context than the one it was made in.
ServedElsewhere == "served elsewhere" \in helmOdd
\* What is done may be done elsewhere than it was meant.
Misplaced == helmOdd \cap {"served elsewhere", "taken back under a dialog"} # {}
\* A history may be older than the last rollback of its detail.
Mixed     == helmOdd \cap {"loads overlap", "served elsewhere"} # {}

\* A request of the detail that is on screen.
OfPane(r) == r.n = pane.mount /\ picked # NoHelm

\* A request was made by a detail so far; what it is answered, and what it does.
AskOK(r) ==
  /\ r.n <= pane.mount
  /\ r.state = "ok" => r.of \in HelmContexts /\ (ServedElsewhere \/ r.of = r.ctx)
  /\ r.what \in {"rollback", "uninstall"} => Misplaced \/ r.meant = r.ctx
  /\ OfPane(r) /\ r.what \in {"history", "values", "rollback"} => r.ctx = chosen
  /\ OfPane(r) /\ r.what = "values" =>
       r.id <= pane.valuesId /\ (r.id = pane.valuesId => pane.wanted)
  /\ OfPane(r) /\ ~Mixed /\ r.state = "ok" =>
       /\ r.what = "history" => pane.least <= r.rev
       /\ r.what = "rollback" => released[chosen] = 0 \/ r.rev <= released[chosen]
\* Every request under way is in order.
AsksOK == \A j \in DOMAIN helmAsks : AskOK(helmAsks[j])

\* One request at most of a kind, made by details of a set; or none.
Single(s, w, N) ==
  \A j \in DOMAIN s, k \in DOMAIN s :
    s[j].what = w /\ s[j].n \in N /\ s[k].what = w /\ s[k].n \in N => j = k
\* No request of a kind is made by details of a set.
NoneOf(s, w, N) == \A j \in DOMAIN s : ~(s[j].what = w /\ s[j].n \in N)

\* One uninstalling is under way at most, and none when none is shown.
RemovalOK == Single(helmAsks, "uninstall", Nat) /\ (~removing => NoneOf(helmAsks, "uninstall", Nat))

\* A detail loads its history once at a time, and not while it rolls back; what it has
\* rolled back to is not newer than the cluster's, and its history not older.
HistoryOK ==
  picked # NoHelm /\ ~Mixed =>
    /\ Single(helmAsks, "history", {pane.mount})
    /\ pane.history.state # "loading" => NoneOf(helmAsks, "history", {pane.mount})
    /\ Single(helmAsks, "rollback", {pane.mount})
    /\ ~pane.rolling => NoneOf(helmAsks, "rollback", {pane.mount})
    /\ pane.rolling => pane.history.state = "shown"
    /\ released[chosen] = 0 \/ pane.least <= released[chosen]
    /\ pane.history.state = "shown" => pane.least <= pane.history.rev

\* Without a selection nothing is shown of a release, and values are when they are wanted.
PaneOK ==
  /\ picked = NoHelm => pane = EmptyPane(pane.mount)
  /\ pane.values.state \in {"shown", "error"} => pane.wanted

\* What is shown of a release is of the context, and what is done to it was meant for it.
ReleaseOK ==
  /\ ShownOfContext /\ DoneWhereMeant /\ DetailOfRow
  /\ doomed # NoHelm => Misplaced \/ doomed = chosen

\* The inductive invariant of the panel of the releases.
ReleasesInv ==
  HelmTypes /\ AskedOK /\ AsksOK /\ RemovalOK /\ HistoryOK /\ PaneOK /\ ReleaseOK

\* What the invariant says of the panel.
LEMMA ReleasesInvTells == ReleasesInv => HelmPanelTrue
<1> SUFFICES ASSUME ReleasesInv PROVE HelmPanelTrue
  OBVIOUS
<1>1. HelmTypeOK
  <2>1. helmAsked \in 0..(MaxHelmAsks + 2)
    BY HelmAssumption DEF ReleasesInv, AskedOK
  <2> QED BY <2>1 DEF ReleasesInv, HelmTypes, AskedOK, HelmTypeOK, Listings, Panes, Displays
<1>2. PaneTells
  <2>1. pane.history.state = "shown" /\ pane.history.rev < pane.least => Mixed
    <3> SUFFICES ASSUME ~Mixed, pane.history.state = "shown"
                 PROVE  ~(pane.history.rev < pane.least)
      OBVIOUS
    <3>1. picked # NoHelm
      BY DEF ReleasesInv, PaneOK, EmptyPane, Shown
    <3>2. pane.least <= pane.history.rev
      BY <3>1 DEF ReleasesInv, HistoryOK
    <3>3. pane.least \in Nat /\ pane.history.rev \in Nat
      BY DEF ReleasesInv, HelmTypes, Panes, Displays
    <3> QED BY <3>2, <3>3
  <2> QED BY <2>1 DEF ReleasesInv, PaneOK, PaneTells, Mixed
<1>3. OneRemoval
  <2>1. \A j \in DOMAIN helmAsks : helmAsks[j].n \in Nat
    <3>1. \A j \in DOMAIN helmAsks : helmAsks[j] \in HelmRequests
      BY DEF ReleasesInv, HelmTypes
    <3> QED BY <3>1 DEF HelmRequests
  <2> QED BY <2>1 DEF ReleasesInv, RemovalOK, Single, OneRemoval
<1> QED BY <1>1, <1>2, <1>3 DEF ReleasesInv, ReleaseOK, HelmPanelTrue

\* The panel opens with a load of its list.
LEMMA ReleasesStart == HelmInit => ReleasesInv
<1> SUFFICES ASSUME HelmInit PROVE ReleasesInv
  OBVIOUS
<1> DEFINE first == HelmRequest("list", 1, NoHelm)
<1>1. /\ released = [c \in HelmContexts |-> 1] /\ chosen = FirstHelmContext
      /\ serving = FirstHelmContext /\ leaving = NoHelm /\ helmList = FirstList /\ picked = NoHelm
      /\ pane = EmptyPane(0) /\ doomed = NoHelm /\ removing = FALSE /\ helmAsks = <<first>>
      /\ helmDeeds = {} /\ helmOdd = {} /\ helmAsked = 1 /\ helmTurns = 0
  BY DEF HelmInit
<1>2. /\ first \in HelmRequests /\ first.what = "list" /\ first.n = 0 /\ first.state = "open"
  BY <1>1, HelmAssumption DEF HelmRequest, HelmRequests, RequestKinds, EmptyPane
<1> HIDE DEF first
<1>3. DOMAIN helmAsks = {1} /\ helmAsks[1] = first /\ helmAsks \in Seq(HelmRequests)
  BY <1>1, <1>2
<1>4. pane \in Panes /\ pane.mount = 0 /\ pane.values.state = "none" /\ pane.history.state = "none"
  BY <1>1, HelmAssumption DEF EmptyPane, Shown, Panes, Displays
<1>5. helmList \in Listings /\ helmList.state = "none" /\ helmList.rev = 0
  BY <1>1 DEF FirstList, Listings
<1>6. HelmTypes
  <2>1. released \in [HelmContexts -> Nat]
    BY <1>1
  <2>2. removing \in BOOLEAN
    BY Zenon DEF HelmInit
  <2> QED BY <1>1, <1>3, <1>4, <1>5, <2>1, <2>2, HelmAssumption DEF HelmTypes
<1>7. AskedOK
  BY <1>1, HelmAssumption DEF AskedOK
<1>8. AsksOK
  BY <1>1, <1>2, <1>3, <1>4 DEF AsksOK, AskOK, OfPane
<1>9. RemovalOK
  BY <1>2, <1>3 DEF RemovalOK, Single, NoneOf
<1>10. HistoryOK /\ PaneOK /\ ReleaseOK
  BY <1>1, <1>4, <1>5
     DEF HistoryOK, PaneOK, ReleaseOK, ShownOfContext, DoneWhereMeant, DetailOfRow
<1> QED BY <1>6, <1>7, <1>8, <1>9, <1>10 DEF ReleasesInv

----------------------------------------------------------------------------
\* Where a request was before an earlier one was taken away.
Earlier(i, j) == IF j < i THEN j ELSE j + 1

\* Without one request there are the others.
LEMMA WithoutTells ==
  ASSUME helmAsks \in Seq(HelmRequests), NEW i \in DOMAIN helmAsks
  PROVE  /\ HelmWithout(i) \in Seq(HelmRequests)
         /\ \A j \in DOMAIN HelmWithout(i) :
              /\ Earlier(i, j) \in DOMAIN helmAsks /\ Earlier(i, j) # i
              /\ HelmWithout(i)[j] = helmAsks[Earlier(i, j)]
         /\ \A j \in DOMAIN HelmWithout(i), k \in DOMAIN HelmWithout(i) :
              Earlier(i, j) = Earlier(i, k) => j = k
<1> DEFINE n == Len(helmAsks)
<1>1. n \in Nat /\ DOMAIN helmAsks = 1..n /\ i \in 1..n
  OBVIOUS
<1>2. HelmWithout(i) = [j \in 1..(n - 1) |-> helmAsks[Earlier(i, j)]]
  BY DEF HelmWithout, Earlier
<1> HIDE DEF n
<1>3. \A j \in 1..(n - 1) : Earlier(i, j) \in 1..n /\ Earlier(i, j) # i
  BY <1>1 DEF Earlier
<1>4. \A j \in 1..(n - 1), k \in 1..(n - 1) : Earlier(i, j) = Earlier(i, k) => j = k
  BY <1>1 DEF Earlier
<1>5. n - 1 \in Nat
  BY <1>1
<1>6. \A j \in 1..(n - 1) : helmAsks[Earlier(i, j)] \in HelmRequests
  BY <1>1, <1>3
<1>7. HelmWithout(i) \in Seq(HelmRequests) /\ DOMAIN HelmWithout(i) = 1..(n - 1)
  BY <1>2, <1>5, <1>6, IsASeq
<1> QED BY <1>1, <1>2, <1>3, <1>4, <1>7

\* A kind of which there was one at most has none without it, and none or one without
\* another.
LEMMA SingleWithout ==
  ASSUME helmAsks \in Seq(HelmRequests), NEW i \in DOMAIN helmAsks, NEW w, NEW N
  PROVE  /\ Single(helmAsks, w, N) => Single(HelmWithout(i), w, N)
         /\ NoneOf(helmAsks, w, N) => NoneOf(HelmWithout(i), w, N)
         /\ Single(helmAsks, w, N) /\ helmAsks[i].what = w /\ helmAsks[i].n \in N =>
              NoneOf(HelmWithout(i), w, N)
<1>1. \A j \in DOMAIN HelmWithout(i) :
        /\ Earlier(i, j) \in DOMAIN helmAsks /\ Earlier(i, j) # i
        /\ HelmWithout(i)[j] = helmAsks[Earlier(i, j)]
  BY WithoutTells
<1>2. \A j \in DOMAIN HelmWithout(i), k \in DOMAIN HelmWithout(i) :
        Earlier(i, j) = Earlier(i, k) => j = k
  BY WithoutTells
<1>3. Single(helmAsks, w, N) => Single(HelmWithout(i), w, N)
  BY <1>1, <1>2 DEF Single
<1>4. NoneOf(helmAsks, w, N) => NoneOf(HelmWithout(i), w, N)
  BY <1>1 DEF NoneOf
<1>5. Single(helmAsks, w, N) /\ helmAsks[i].what = w /\ helmAsks[i].n \in N =>
        NoneOf(HelmWithout(i), w, N)
  BY <1>1 DEF Single, NoneOf
<1> QED BY <1>3, <1>4, <1>5

\* A request that is added comes last.
LEMMA AppendTells ==
  ASSUME NEW s \in Seq(HelmRequests), NEW r \in HelmRequests
  PROVE  /\ Append(s, r) \in Seq(HelmRequests)
         /\ \A j \in DOMAIN Append(s, r) :
              Append(s, r)[j] = r \/ (j \in DOMAIN s /\ Append(s, r)[j] = s[j])
<1> DEFINE t == Append(s, r)
           last == Len(s) + 1
<1>1. /\ t \in Seq(HelmRequests) /\ DOMAIN t = DOMAIN s \cup {last}
      /\ t[last] = r /\ \A j \in DOMAIN s : t[j] = s[j]
  OBVIOUS
<1> HIDE DEF t, last
<1>2. \A j \in DOMAIN t : t[j] = r \/ (j \in DOMAIN s /\ t[j] = s[j])
  BY <1>1
<1> QED BY <1>1, <1>2, Zenon DEF t

\* One more request of a kind is the only one, or of another kind.
LEMMA SingleAppend ==
  ASSUME NEW s \in Seq(HelmRequests), NEW r \in HelmRequests, NEW w, NEW N
  PROVE  /\ Append(s, r) \in Seq(HelmRequests)
         /\ NoneOf(s, w, N) => Single(Append(s, r), w, N)
         /\ ~(r.what = w /\ r.n \in N) =>
              /\ Single(s, w, N) => Single(Append(s, r), w, N)
              /\ NoneOf(s, w, N) => NoneOf(Append(s, r), w, N)
<1> DEFINE t == Append(s, r)
           last == Len(s) + 1
<1>1. /\ t \in Seq(HelmRequests) /\ DOMAIN t = DOMAIN s \cup {last}
      /\ t[last] = r /\ \A j \in DOMAIN s : t[j] = s[j]
  OBVIOUS
<1> HIDE DEF t, last
<1>2. NoneOf(s, w, N) => Single(t, w, N)
  BY <1>1 DEF NoneOf, Single
<1>3. ~(r.what = w /\ r.n \in N) => (Single(s, w, N) => Single(t, w, N))
  BY <1>1 DEF Single
<1>4. ~(r.what = w /\ r.n \in N) => (NoneOf(s, w, N) => NoneOf(t, w, N))
  BY <1>1 DEF NoneOf
<1> QED BY <1>1, <1>2, <1>3, <1>4 DEF t

\* A request is one of those under way.
StillAsked(r) == \E k \in DOMAIN helmAsks : r = helmAsks[k]

\* The requests under way are in order when those of before are, and what is new.
LEMMA AsksStep ==
  ASSUME HelmTypes, AsksOK, \A r \in HelmRequests : AskOK(r) /\ StillAsked(r) => AskOK(r)',
         \A j \in DOMAIN helmAsks' : \E q \in HelmRequests :
            /\ q = helmAsks'[j]
            /\ AskOK(q)' \/ StillAsked(q)
  PROVE  AsksOK'
<1> SUFFICES ASSUME NEW j \in DOMAIN helmAsks' PROVE AskOK(helmAsks[j])'
  BY DEF AsksOK
<1>1. PICK q \in HelmRequests :
        /\ q = helmAsks'[j]
        /\ AskOK(q)' \/ StillAsked(q)
  OBVIOUS
<1>2. StillAsked(q) => AskOK(q)
  BY DEF AsksOK, StillAsked
<1>3. AskOK(q)'
  BY <1>1, <1>2
<1> QED BY <1>1, <1>3 DEF AskOK, OfPane

\* Nothing is asked or answered.
LEMMA AsksStay ==
  ASSUME HelmTypes, AsksOK, \A r \in HelmRequests : AskOK(r) /\ StillAsked(r) => AskOK(r)',
         helmAsks' = helmAsks
  PROVE  AsksOK' /\ helmAsks' \in Seq(HelmRequests)
<1>1. helmAsks \in Seq(HelmRequests) /\ \A j \in DOMAIN helmAsks : helmAsks[j] \in HelmRequests
  BY DEF HelmTypes
<1> QED BY <1>1, AsksStep DEF StillAsked

\* An answer is taken.
LEMMA AsksDrop ==
  ASSUME HelmTypes, AsksOK, \A r \in HelmRequests : AskOK(r) /\ StillAsked(r) => AskOK(r)',
         NEW i \in DOMAIN helmAsks, helmAsks' = HelmWithout(i)
  PROVE  AsksOK' /\ helmAsks' \in Seq(HelmRequests)
<1>1. helmAsks \in Seq(HelmRequests) /\ \A j \in DOMAIN helmAsks : helmAsks[j] \in HelmRequests
  BY DEF HelmTypes
<1>2. /\ helmAsks' \in Seq(HelmRequests)
      /\ \A j \in DOMAIN helmAsks' :
           Earlier(i, j) \in DOMAIN helmAsks /\ helmAsks'[j] = helmAsks[Earlier(i, j)]
  BY <1>1, WithoutTells
<1> QED BY <1>1, <1>2, AsksStep DEF StillAsked

\* Something is asked.
LEMMA AsksAppend ==
  ASSUME HelmTypes, AsksOK, \A r \in HelmRequests : AskOK(r) /\ StillAsked(r) => AskOK(r)',
         NEW q \in HelmRequests, AskOK(q)', helmAsks' = Append(helmAsks, q)
  PROVE  AsksOK' /\ helmAsks' \in Seq(HelmRequests)
<1>1. helmAsks \in Seq(HelmRequests) /\ \A j \in DOMAIN helmAsks : helmAsks[j] \in HelmRequests
  BY DEF HelmTypes
<1>2. /\ helmAsks' \in Seq(HelmRequests)
      /\ \A j \in DOMAIN helmAsks' :
           helmAsks'[j] = q \/ (j \in DOMAIN helmAsks /\ helmAsks'[j] = helmAsks[j])
  BY <1>1, AppendTells
<1> QED BY <1>1, <1>2, AsksStep DEF StillAsked

\* An answer is taken, and something asked.
LEMMA AsksSwap ==
  ASSUME HelmTypes, AsksOK, \A r \in HelmRequests : AskOK(r) /\ StillAsked(r) => AskOK(r)',
         NEW i \in DOMAIN helmAsks, NEW q \in HelmRequests, AskOK(q)',
         helmAsks' = Append(HelmWithout(i), q)
  PROVE  AsksOK' /\ helmAsks' \in Seq(HelmRequests)
<1>1. helmAsks \in Seq(HelmRequests) /\ \A j \in DOMAIN helmAsks : helmAsks[j] \in HelmRequests
  BY DEF HelmTypes
<1>2. /\ HelmWithout(i) \in Seq(HelmRequests)
      /\ \A j \in DOMAIN HelmWithout(i) :
           Earlier(i, j) \in DOMAIN helmAsks /\ HelmWithout(i)[j] = helmAsks[Earlier(i, j)]
  BY <1>1, WithoutTells
<1> DEFINE s == HelmWithout(i)
<1>3. helmAsks' = Append(s, q) /\ s \in Seq(HelmRequests)
  BY <1>2
<1> HIDE DEF s
<1>4. /\ helmAsks' \in Seq(HelmRequests)
      /\ \A j \in DOMAIN helmAsks' : helmAsks'[j] = q \/ (j \in DOMAIN s /\ helmAsks'[j] = s[j])
  BY <1>3, AppendTells
<1> QED BY <1>1, <1>2, <1>4, AsksStep DEF s, StillAsked

----------------------------------------------------------------------------
\* The facts of the invariant that steps start from.
LEMMA ReleaseFacts ==
  ASSUME ReleasesInv
  PROVE  /\ HelmTypes /\ AskedOK /\ AsksOK /\ RemovalOK /\ HistoryOK /\ PaneOK /\ ReleaseOK
         /\ pane \in Panes /\ pane.mount \in Nat /\ pane.valuesId \in Nat /\ pane.least \in Nat
         /\ helmList \in Listings /\ helmList.id \in Nat /\ helmList.rev \in Nat
         /\ helmAsks \in Seq(HelmRequests)
         /\ \A j \in DOMAIN helmAsks : helmAsks[j] \in HelmRequests /\ AskOK(helmAsks[j])
<1>1. HelmTypes /\ AskedOK /\ AsksOK /\ RemovalOK /\ HistoryOK /\ PaneOK /\ ReleaseOK
  BY DEF ReleasesInv
<1>2. pane \in Panes /\ helmList \in Listings /\ helmAsks \in Seq(HelmRequests)
  BY <1>1 DEF HelmTypes
<1>3. /\ pane.mount \in Nat /\ pane.valuesId \in Nat /\ pane.least \in Nat
      /\ helmList.id \in Nat /\ helmList.rev \in Nat
  BY <1>2 DEF Panes, Listings
<1>4. \A j \in DOMAIN helmAsks : helmAsks[j] \in HelmRequests /\ AskOK(helmAsks[j])
  BY <1>1, <1>2 DEF AsksOK
<1> QED BY <1>1, <1>2, <1>3, <1>4

\* A request that is made is open, of the context and of the detail.
LEMMA RequestTells ==
  ASSUME HelmTypes, NEW w \in RequestKinds, NEW id \in Nat, NEW m \in HelmContexts \cup {NoHelm}
  PROVE  \E q \in HelmRequests :
           /\ q = HelmRequest(w, id, m) /\ q.what = w /\ q.ctx = chosen /\ q.n = pane.mount
           /\ q.id = id /\ q.meant = m /\ q.state = "open"
<1> DEFINE q == HelmRequest(w, id, m)
<1>1. chosen \in HelmContexts /\ pane.mount \in Nat
  BY DEF HelmTypes, Panes
<1>2. /\ q \in HelmRequests /\ q.what = w /\ q.ctx = chosen /\ q.n = pane.mount
      /\ q.id = id /\ q.meant = m /\ q.state = "open"
  BY <1>1 DEF HelmRequest, HelmRequests
<1> HIDE DEF q
<1>3. q = HelmRequest(w, id, m)
  BY DEF q
<1> QED BY <1>2, <1>3

\* A load of the list leaves what is listed.
LEMMA ListingTells ==
  ASSUME NEW list \in Listings
  PROVE  /\ Listing(list) \in Listings /\ Listing(list).state = list.state
         /\ Listing(list).of = list.of /\ Listing(list).rev = list.rev
         /\ list.id + 1 \in Nat
<1>1. list.id + 1 \in Nat
  BY DEF Listings
<1>2. Listing(list) = [list EXCEPT !.loading = TRUE, !.id = list.id + 1]
  BY DEF Listing, Listings
<1> DEFINE n == list.id + 1
<1> HIDE DEF n
<1>3. [list EXCEPT !.loading = TRUE, !.id = n] \in Listings
  BY <1>1 DEF Listings, n
<1> QED BY <1>1, <1>2, <1>3 DEF Listings, n

\* The sidecar serves a request for the context that it is in, or refuses it.
LEMMA ServesKeeps ==
  ASSUME ReleasesInv, NEW i \in DOMAIN helmAsks, HelmServed(i)
  PROVE  ReleasesInv'
<1> DEFINE r == helmAsks[i]
           alters == r.what \in {"rollback", "uninstall"} /\ released[serving] # 0
<1>1. /\ HelmTypes /\ AskedOK /\ AsksOK /\ RemovalOK /\ HistoryOK /\ PaneOK /\ ReleaseOK
      /\ pane.least \in Nat /\ helmAsks \in Seq(HelmRequests) /\ r \in HelmRequests /\ AskOK(r)
      /\ serving \in HelmContexts /\ chosen \in HelmContexts /\ released \in [HelmContexts -> Nat]
  BY ReleaseFacts DEF HelmTypes
<1>2. /\ UNCHANGED <<chosen, serving, leaving, helmList, picked, pane, doomed, removing,
                     helmAsked, helmTurns>>
      /\ helmOdd' = helmOdd \cup (IF serving # r.ctx THEN {"served elsewhere"} ELSE {})
      /\ r.state = "open"
  BY DEF HelmServed
<1>3. PICK q \in HelmRequests :
        /\ helmAsks' = [helmAsks EXCEPT ![i] = q]
        /\ q.what = r.what /\ q.ctx = r.ctx /\ q.n = r.n /\ q.id = r.id /\ q.meant = r.meant
        /\ \/ /\ q.state = "ok" /\ q.of = serving /\ q.rev = released'[serving]
              /\ released' \in [HelmContexts -> Nat]
              /\ IF alters
                 THEN /\ released'[serving] \in {released[serving] + 1, 0}
                      /\ \A c \in HelmContexts : c # serving => released'[c] = released[c]
                      /\ r.what = "rollback" => released'[serving] = released[serving] + 1
                      /\ helmDeeds' = helmDeeds \cup {[meant |-> r.meant, on |-> serving]}
                 ELSE released' = released /\ helmDeeds' = helmDeeds
              /\ r.what = "history" => released[serving] # 0
           \/ q.state = "error" /\ released' = released /\ helmDeeds' = helmDeeds
  <2>1. CASE /\ \/ r.what \in {"list", "history", "values"} \/ alters
                /\ r.what \in {"history", "values"} => released[serving] # 0
             /\ released' = IF ~alters THEN released
                            ELSE [released EXCEPT ![serving] =
                                    IF r.what = "rollback" THEN @ + 1 ELSE 0]
             /\ helmDeeds' = helmDeeds \cup
                  (IF alters THEN {[meant |-> r.meant, on |-> serving]} ELSE {})
             /\ helmAsks' = [helmAsks EXCEPT ![i].state = "ok", ![i].of = serving,
                                             ![i].rev = released'[serving]]
    <3> DEFINE q == [r EXCEPT !.state = "ok", !.of = serving, !.rev = released'[serving]]
    <3>1. released' \in [HelmContexts -> Nat]
      BY <1>1, <2>1
    <3>2. helmAsks' = [helmAsks EXCEPT ![i] = q]
      BY <1>1, <2>1
    <3>3. /\ q \in HelmRequests /\ q.what = r.what /\ q.ctx = r.ctx /\ q.n = r.n /\ q.id = r.id
          /\ q.meant = r.meant /\ q.state = "ok" /\ q.of = serving /\ q.rev = released'[serving]
      BY <1>1, <3>1 DEF HelmRequests
    <3>4. IF alters
          THEN /\ released'[serving] \in {released[serving] + 1, 0}
               /\ \A c \in HelmContexts : c # serving => released'[c] = released[c]
               /\ r.what = "rollback" => released'[serving] = released[serving] + 1
               /\ helmDeeds' = helmDeeds \cup {[meant |-> r.meant, on |-> serving]}
          ELSE released' = released /\ helmDeeds' = helmDeeds
      BY <1>1, <2>1
    <3>5. r.what = "history" => released[serving] # 0
      BY <2>1
    <3> HIDE DEF q, r, alters
    <3> QED BY <3>1, <3>2, <3>3, <3>4, <3>5
  <2>2. CASE /\ helmAsks' = [helmAsks EXCEPT ![i].state = "error"]
             /\ UNCHANGED <<released, helmDeeds>>
    <3> DEFINE q == [r EXCEPT !.state = "error"]
    <3>1. helmAsks' = [helmAsks EXCEPT ![i] = q]
      BY <1>1, <2>2
    <3>2. /\ q \in HelmRequests /\ q.what = r.what /\ q.ctx = r.ctx /\ q.n = r.n /\ q.id = r.id
          /\ q.meant = r.meant /\ q.state = "error"
      BY <1>1 DEF HelmRequests
    <3> HIDE DEF q, r, alters
    <3> QED BY <2>2, <3>1, <3>2
  <2> QED BY <2>1, <2>2 DEF HelmServed
<1> HIDE DEF r, alters
<1>4. released' \in [HelmContexts -> Nat] /\ helmAsks' \in Seq(HelmRequests)
  BY <1>1, <1>3
<1>5. \A c \in HelmContexts, v \in Nat :
        released[c] = 0 \/ v <= released[c] => released'[c] = 0 \/ v <= released'[c]
  BY <1>1, <1>3 DEF alters
<1>6. /\ ServedElsewhere => ServedElsewhere'
      /\ Misplaced => Misplaced'
      /\ Mixed => Mixed'
      /\ ~ServedElsewhere' => serving = r.ctx
      /\ ~Misplaced' => serving = r.ctx
      /\ ~Mixed' => serving = r.ctx
  BY <1>2 DEF ServedElsewhere, Misplaced, Mixed
<1>7. ASSUME NEW p \in HelmRequests, AskOK(p) PROVE AskOK(p)'
  <2>1. p.rev \in Nat
    BY DEF HelmRequests
  <2> QED BY <1>1, <1>2, <1>5, <1>6, <1>7, <2>1 DEF AskOK, OfPane
<1>8. AskOK(q)'
  <2>1. AskOK(r)
    BY <1>1
  <2>2. q.n <= pane'.mount
    BY <1>2, <1>3, <2>1 DEF AskOK
  <2>3. q.state = "ok" => q.of \in HelmContexts /\ (ServedElsewhere' \/ q.of = q.ctx)
    BY <1>1, <1>3, <1>6
  <2>4. q.what \in {"rollback", "uninstall"} => Misplaced' \/ q.meant = q.ctx
    BY <1>3, <1>6, <2>1 DEF AskOK
  <2>5. q.n = pane.mount /\ picked # NoHelm =>
          /\ q.what \in {"history", "values", "rollback"} => q.ctx = chosen
          /\ q.what = "values" => q.id <= pane.valuesId /\ (q.id = pane.valuesId => pane.wanted)
    BY <1>3, <2>1 DEF AskOK, OfPane
  <2>6. ASSUME q.n = pane.mount, picked # NoHelm, ~Mixed', q.state = "ok"
        PROVE  /\ q.what = "history" => pane.least <= q.rev
               /\ q.what = "rollback" => released'[chosen] = 0 \/ q.rev <= released'[chosen]
    <3>1. serving = q.ctx /\ ~Mixed
      BY <1>3, <1>6, <2>6
    <3>2. q.what \in {"history", "rollback"} => serving = chosen /\ q.rev = released'[chosen]
      BY <1>3, <2>5, <2>6, <3>1
    <3>3. released[chosen] = 0 \/ pane.least <= released[chosen]
      BY <1>1, <2>6, <3>1 DEF HistoryOK
    <3>4. q.what = "history" => released'[chosen] = released[chosen] /\ released[chosen] # 0
      BY <1>3, <2>6, <3>2 DEF alters
    <3>5. released'[chosen] \in Nat /\ released[chosen] \in Nat
      BY <1>1, <1>4
    <3> QED BY <3>2, <3>3, <3>4, <3>5
  <2> QED BY <1>2, <2>2, <2>3, <2>4, <2>5, <2>6 DEF AskOK, OfPane
<1>9. AsksOK'
  <2>1. \A j \in DOMAIN helmAsks' : \E p \in HelmRequests :
          /\ p = helmAsks'[j]
          /\ AskOK(p)' \/ StillAsked(p)
    BY <1>1, <1>3, <1>8 DEF StillAsked
  <2> QED BY <1>1, <1>7, <2>1, AsksStep
<1>10. /\ DOMAIN helmAsks' = DOMAIN helmAsks
       /\ \A j \in DOMAIN helmAsks :
            helmAsks'[j].what = helmAsks[j].what /\ helmAsks'[j].n = helmAsks[j].n
  BY <1>1, <1>3 DEF r
<1>11. \A w \in RequestKinds, N \in {Nat, {pane.mount}} :
         /\ Single(helmAsks, w, N) => Single(helmAsks', w, N)
         /\ NoneOf(helmAsks, w, N) => NoneOf(helmAsks', w, N)
  BY <1>10 DEF Single, NoneOf
<1>12. RemovalOK'
  BY <1>1, <1>2, <1>11 DEF RemovalOK, RequestKinds
<1>13. HistoryOK'
  <2> SUFFICES ASSUME picked # NoHelm, ~Mixed' PROVE HistoryOK'
    BY <1>2 DEF HistoryOK
  <2>1. /\ Single(helmAsks, "history", {pane.mount})
        /\ pane.history.state # "loading" => NoneOf(helmAsks, "history", {pane.mount})
        /\ Single(helmAsks, "rollback", {pane.mount})
        /\ ~pane.rolling => NoneOf(helmAsks, "rollback", {pane.mount})
        /\ pane.rolling => pane.history.state = "shown"
        /\ released[chosen] = 0 \/ pane.least <= released[chosen]
        /\ pane.history.state = "shown" => pane.least <= pane.history.rev
    BY <1>1, <1>6 DEF HistoryOK
  <2>2. released'[chosen] = 0 \/ pane.least <= released'[chosen]
    BY <1>1, <1>5, <2>1
  <2>3. /\ Single(helmAsks', "history", {pane.mount})
        /\ pane.history.state # "loading" => NoneOf(helmAsks', "history", {pane.mount})
        /\ Single(helmAsks', "rollback", {pane.mount})
        /\ ~pane.rolling => NoneOf(helmAsks', "rollback", {pane.mount})
    BY <1>11, <2>1 DEF RequestKinds
  <2> QED BY <1>2, <2>1, <2>2, <2>3 DEF HistoryOK
<1>14. ReleaseOK'
  <2>1. ShownOfContext'
    BY <1>1, <1>2 DEF ReleaseOK, ShownOfContext
  <2>2. DoneWhereMeant'
    <3> SUFFICES ASSUME ~Misplaced' PROVE \A d \in helmDeeds' : d.on = d.meant
      BY DEF DoneWhereMeant, Misplaced
    <3>1. \A d \in helmDeeds : d.on = d.meant
      BY <1>1, <1>6 DEF ReleaseOK, DoneWhereMeant, Misplaced
    <3>2. alters => r.meant = serving
      BY <1>1, <1>6 DEF alters, AskOK
    <3>3. \A d \in helmDeeds' :
            d \in helmDeeds \/ (alters /\ d = [meant |-> r.meant, on |-> serving])
      BY <1>3
    <3> QED BY <3>1, <3>2, <3>3
  <2>3. DetailOfRow'
    BY <1>1, <1>2 DEF ReleaseOK, DetailOfRow
  <2> QED BY <1>1, <1>2, <1>6, <2>1, <2>2, <2>3 DEF ReleaseOK
<1>15. HelmTypes' /\ AskedOK' /\ PaneOK'
  BY <1>1, <1>2, <1>4 DEF HelmTypes, AskedOK, PaneOK
<1> QED BY <1>9, <1>12, <1>13, <1>14, <1>15 DEF ReleasesInv

----------------------------------------------------------------------------
\* A detail that has just opened shows nothing.
LEMMA EmptyPaneTells ==
  ASSUME NEW m \in Nat
  PROVE  LET p == EmptyPane(m)
         IN  /\ p \in Panes /\ p.mount = m /\ p.values.state = "none" /\ p.history.state = "none"
             /\ p.rolling = FALSE /\ p.least = 0
BY HelmAssumption DEF EmptyPane, Shown, Panes, Displays

\* What has happened out of the ordinary is remembered.
LEMMA OddGrows ==
  ASSUME helmOdd \subseteq helmOdd'
  PROVE  /\ ServedElsewhere => ServedElsewhere'
         /\ Misplaced => Misplaced'
         /\ Mixed => Mixed'
BY DEF ServedElsewhere, Misplaced, Mixed

\* The requests of a detail that is gone are in order.
LEMMA AskGone ==
  ASSUME ReleasesInv, helmOdd \subseteq helmOdd', pane'.mount \in Nat, pane.mount <= pane'.mount,
         picked' = NoHelm \/ pane.mount < pane'.mount
  PROVE  \A r \in HelmRequests : AskOK(r) => AskOK(r)'
<1> SUFFICES ASSUME NEW r \in HelmRequests, AskOK(r) PROVE AskOK(r)'
  OBVIOUS
<1>1. pane.mount \in Nat
  BY ReleaseFacts
<1>2. r.n \in Nat /\ r.n <= pane.mount
  BY DEF AskOK, HelmRequests
<1>3. r.n <= pane'.mount /\ ~(r.n = pane'.mount /\ picked' # NoHelm)
  BY <1>1, <1>2
<1> HIDE DEF ReleasesInv
<1>4. /\ ServedElsewhere => ServedElsewhere'
      /\ Misplaced => Misplaced'
  BY OddGrows
<1> QED BY <1>3, <1>4 DEF AskOK, OfPane

\* The requests are in order when the detail stays and what it last rolled back to.
LEMMA AskKept ==
  ASSUME ReleasesInv, helmOdd \subseteq helmOdd', UNCHANGED <<released, chosen>>,
         picked' = NoHelm <=> picked = NoHelm,
         pane'.mount = pane.mount, pane'.least = pane.least, pane'.valuesId \in Nat,
         \/ pane'.valuesId = pane.valuesId /\ pane'.wanted = pane.wanted
         \/ pane'.valuesId = pane.valuesId + 1
  PROVE  \A r \in HelmRequests : AskOK(r) => AskOK(r)'
<1> SUFFICES ASSUME NEW r \in HelmRequests, AskOK(r) PROVE AskOK(r)'
  OBVIOUS
<1>1. pane.valuesId \in Nat /\ r.id \in Nat
  BY ReleaseFacts DEF HelmRequests
<1>2. /\ ServedElsewhere => ServedElsewhere'
      /\ Misplaced => Misplaced'
      /\ Mixed => Mixed'
  BY OddGrows
<1>3. OfPane(r) /\ r.what = "values" =>
        r.id <= pane'.valuesId /\ (r.id = pane'.valuesId => pane'.wanted)
  BY <1>1 DEF AskOK
<1> QED BY <1>2, <1>3 DEF AskOK, OfPane

\* One uninstalling at a time, when none is asked for.
LEMMA RemovalKept ==
  ASSUME ReleasesInv, removing' = removing,
         /\ Single(helmAsks, "uninstall", Nat) => Single(helmAsks, "uninstall", Nat)'
         /\ NoneOf(helmAsks, "uninstall", Nat) => NoneOf(helmAsks, "uninstall", Nat)'
  PROVE  RemovalOK'
BY DEF ReleasesInv, RemovalOK

\* The history is in order when the detail and its history stay.
LEMMA HistoryKept ==
  ASSUME ReleasesInv, helmOdd \subseteq helmOdd', UNCHANGED <<released, chosen>>,
         picked' = NoHelm <=> picked = NoHelm,
         pane'.mount = pane.mount, pane'.least = pane.least, pane'.history = pane.history,
         pane'.rolling = pane.rolling,
         \A w \in {"history", "rollback"} :
           /\ Single(helmAsks, w, {pane.mount}) => Single(helmAsks', w, {pane.mount})
           /\ NoneOf(helmAsks, w, {pane.mount}) => NoneOf(helmAsks', w, {pane.mount})
  PROVE  HistoryOK'
<1>1. HistoryOK
  BY DEF ReleasesInv
<1>2. Mixed => Mixed'
  BY OddGrows
<1> QED BY <1>1, <1>2 DEF HistoryOK

\* No request is of a detail that has just opened.
LEMMA HistoryOpens ==
  ASSUME ReleasesInv, NEW m \in Nat, pane.mount < m, pane' = EmptyPane(m),
         \A j \in DOMAIN helmAsks' : helmAsks'[j].n \in Nat /\ helmAsks'[j].n <= pane.mount,
         released' \in [HelmContexts -> Nat], chosen' \in HelmContexts
  PROVE  HistoryOK'
<1>1. /\ pane'.mount = m /\ pane'.history.state = "none" /\ pane'.rolling = FALSE
      /\ pane'.least = 0
  BY EmptyPaneTells
<1>2. pane.mount \in Nat
  BY ReleaseFacts
<1>3. \A w : NoneOf(helmAsks', w, {m})
  BY <1>2 DEF NoneOf
<1>4. \A w : Single(helmAsks', w, {m})
  BY <1>3 DEF NoneOf, Single
<1>5. 0 <= released'[chosen']
  OBVIOUS
<1> QED BY <1>1, <1>3, <1>4, <1>5 DEF HistoryOK

\* Nothing that the panel holds changes: the sidecar follows, a switch ends, or the
\* question of uninstalling is put or taken back.
LEMMA QuietKeeps ==
  ASSUME ReleasesInv, SidecarFollows \/ SwitchEnds \/ AskUninstall \/ AbortUninstall
  PROVE  ReleasesInv'
<1>1. /\ HelmTypes /\ AskedOK /\ AsksOK /\ RemovalOK /\ HistoryOK /\ PaneOK /\ ReleaseOK
      /\ pane.valuesId \in Nat
  BY ReleaseFacts
<1>2. /\ UNCHANGED <<released, chosen, helmList, picked, pane, removing, helmAsks, helmDeeds,
                     helmOdd, helmAsked, helmTurns>>
      /\ leaving' \in {leaving, NoHelm}
      /\ serving' \in {serving, chosen}
      /\ doomed' \in {doomed, NoHelm} \/ (picked # NoHelm /\ doomed' = picked.of)
  BY DEF SidecarFollows, SwitchEnds, AskUninstall, AbortUninstall
<1>3. AsksOK'
  BY <1>1, <1>2, AskKept, AsksStay
<1>4. HelmTypes' /\ AskedOK' /\ RemovalOK' /\ HistoryOK' /\ PaneOK'
  <2>1. HelmTypes'
    BY <1>1, <1>2 DEF HelmTypes
  <2>2. AskedOK'
    BY <1>1, <1>2 DEF AskedOK
  <2>3. RemovalOK' /\ HistoryOK' /\ PaneOK'
    BY <1>1, <1>2 DEF RemovalOK, HistoryOK, PaneOK, Mixed, Single, NoneOf
  <2> QED BY <2>1, <2>2, <2>3
<1>5. ReleaseOK'
  <2>1. picked # NoHelm => Misplaced \/ picked.of = chosen
    BY <1>1 DEF ReleaseOK, ShownOfContext, Misplaced
  <2>2. doomed' # NoHelm => Misplaced \/ doomed' = chosen
    BY <1>1, <1>2, <2>1 DEF ReleaseOK
  <2> QED BY <1>1, <1>2, <2>2
          DEF ReleaseOK, ShownOfContext, DoneWhereMeant, DetailOfRow, Misplaced
<1> QED BY <1>1, <1>3, <1>4, <1>5 DEF ReleasesInv

\* Another context is shown: nothing is selected, and its releases are asked for.
LEMMA TakesContext ==
  ASSUME ReleasesInv, NEW c \in HelmContexts, TakeContext(c), AskedOK',
         UNCHANGED <<released, doomed, removing, helmDeeds>>, helmOdd \subseteq helmOdd',
         serving' \in HelmContexts, leaving' \in HelmContexts \cup {NoHelm},
         doomed # NoHelm => Misplaced'
  PROVE  ReleasesInv'
<1> DEFINE m == pane.mount
           cleared == [helmList EXCEPT !.state = "none", !.of = NoHelm, !.rev = 0]
<1>1. /\ HelmTypes /\ AsksOK /\ RemovalOK /\ ReleaseOK /\ m \in Nat
      /\ helmList \in Listings /\ helmAsks \in Seq(HelmRequests)
  BY ReleaseFacts
<1>2. /\ chosen' = c /\ picked' = NoHelm /\ pane' = EmptyPane(m)
      /\ helmList' = Listing(cleared)
      /\ helmAsks' = Append(helmAsks,
           [HelmRequest("list", helmList.id + 1, NoHelm) EXCEPT !.ctx = c])
  BY DEF TakeContext, OnContext
<1>3. PICK q \in HelmRequests :
        helmAsks' = Append(helmAsks, q) /\ q.what = "list" /\ q.n = m /\ q.state = "open"
  <2>1. helmList.id + 1 \in Nat /\ "list" \in RequestKinds
    BY <1>1, ListingTells DEF RequestKinds
  <2>2. PICK p \in HelmRequests :
          /\ p = HelmRequest("list", helmList.id + 1, NoHelm)
          /\ p.what = "list" /\ p.n = m /\ p.state = "open"
    BY <1>1, <2>1, RequestTells
  <2> DEFINE q == [p EXCEPT !.ctx = c]
  <2>3. q \in HelmRequests /\ q.what = "list" /\ q.n = m /\ q.state = "open"
    BY <2>2 DEF HelmRequests
  <2>4. helmAsks' = Append(helmAsks, q)
    BY <1>2, <2>2
  <2> HIDE DEF q
  <2> QED BY <2>3, <2>4
<1>4. /\ pane' \in Panes /\ pane'.mount = m /\ pane'.values.state = "none"
      /\ pane'.history.state = "none"
  BY <1>1, <1>2, EmptyPaneTells
<1>5. AsksOK' /\ helmAsks' \in Seq(HelmRequests)
  <2>1. \A r \in HelmRequests : AskOK(r) => AskOK(r)'
    BY <1>1, <1>2, <1>4, AskGone
  <2>2. AskOK(q)'
    BY <1>1, <1>2, <1>3, <1>4 DEF AskOK, OfPane
  <2> QED BY <1>1, <1>3, <2>1, <2>2, AsksAppend
<1>6. RemovalOK'
  <2>1. ~(q.what = "uninstall" /\ q.n \in Nat)
    BY <1>3
  <2>2. /\ Single(helmAsks, "uninstall", Nat) => Single(helmAsks', "uninstall", Nat)
        /\ NoneOf(helmAsks, "uninstall", Nat) => NoneOf(helmAsks', "uninstall", Nat)
    BY <1>1, <1>2, <1>3, <2>1, SingleAppend
  <2> QED BY <1>1, <2>2 DEF RemovalOK
<1>7. /\ helmList' \in Listings /\ helmList'.state = "none"
  <2>1. cleared \in Listings /\ cleared.state = "none"
    BY <1>1 DEF Listings
  <2> HIDE DEF cleared
  <2> QED BY <1>2, <2>1, ListingTells
<1>8. HelmTypes'
  BY <1>1, <1>2, <1>4, <1>5, <1>7 DEF HelmTypes
<1>9. HistoryOK' /\ PaneOK'
  BY <1>2, <1>4 DEF HistoryOK, PaneOK
<1>10. ReleaseOK'
  <2>1. ShownOfContext' /\ DetailOfRow'
    BY <1>2, <1>4, <1>7 DEF ShownOfContext, DetailOfRow
  <2>2. DoneWhereMeant'
    BY <1>1 DEF ReleaseOK, DoneWhereMeant
  <2> QED BY <2>1, <2>2 DEF ReleaseOK
<1> QED BY <1>5, <1>6, <1>8, <1>9, <1>10 DEF ReleasesInv

\* The context is changed, or changed back.
LEMMA SwitchKeeps ==
  ASSUME ReleasesInv, SwitchedBack \/ \E c \in HelmContexts : ChooseContext(c)
  PROVE  ReleasesInv'
<1>1. /\ HelmTypes /\ AskedOK
      /\ serving \in HelmContexts /\ chosen \in HelmContexts
      /\ leaving \in HelmContexts \cup {NoHelm}
  BY ReleaseFacts DEF HelmTypes
<1>2. ASSUME NEW c \in HelmContexts, ChooseContext(c) PROVE ReleasesInv'
  <2>1. /\ TakeContext(c) /\ UNCHANGED <<released, serving, doomed, removing, helmDeeds, helmOdd>>
        /\ doomed = NoHelm /\ leaving' = chosen /\ helmTurns < MaxHelmTurns
        /\ helmTurns' = helmTurns + 1 /\ helmAsked < MaxHelmAsks /\ helmAsked' = helmAsked + 1
    BY <1>2 DEF ChooseContext, TakeContext
  <2>2. AskedOK'
    BY <1>1, <2>1, HelmAssumption DEF AskedOK
  <2> QED BY <1>1, <2>1, <2>2, TakesContext
<1>3. ASSUME SwitchedBack PROVE ReleasesInv'
  <2>1. /\ TakeContext(leaving) /\ UNCHANGED <<released, doomed, removing, helmDeeds, helmTurns>>
        /\ leaving # NoHelm /\ leaving' = NoHelm /\ serving' = leaving
        /\ helmAsked' = helmAsked + 1
        /\ helmOdd' = helmOdd \cup (IF doomed # NoHelm THEN {"taken back under a dialog"} ELSE {})
    BY <1>3 DEF SwitchedBack, TakeContext
  <2>2. AskedOK'
    <3>1. helmAsked \in Nat /\ helmAsked <= MaxHelmAsks /\ helmTurns' \in 0..MaxHelmTurns
      BY <1>1, <2>1 DEF AskedOK
    <3>2. helmAsked' = helmAsked + 1 /\ MaxHelmAsks \in Nat
      BY <2>1, HelmAssumption
    <3>3. helmAsked' \in Nat /\ helmAsked' <= MaxHelmAsks + 1
      BY <3>1, <3>2
    <3> QED BY <2>1, <3>1, <3>3 DEF AskedOK
  <2>3. doomed # NoHelm => Misplaced'
    BY <2>1 DEF Misplaced
  <2>4. leaving \in HelmContexts
    BY <1>1, <2>1
  <2> QED BY <1>1, <2>1, <2>2, <2>3, <2>4, TakesContext
<1> QED BY <1>2, <1>3

\* The releases are asked for again.
LEMMA RefreshKeeps ==
  ASSUME ReleasesInv, RefreshReleases
  PROVE  ReleasesInv'
<1>1. /\ HelmTypes /\ AskedOK /\ AsksOK /\ RemovalOK /\ HistoryOK /\ PaneOK /\ ReleaseOK
      /\ pane.mount \in Nat /\ pane.valuesId \in Nat
      /\ helmList \in Listings /\ helmAsks \in Seq(HelmRequests)
  BY ReleaseFacts
<1>2. /\ helmList' = Listing(helmList)
      /\ helmAsks' = Append(helmAsks, HelmRequest("list", helmList.id + 1, NoHelm))
      /\ helmAsked < MaxHelmAsks /\ helmAsked' = helmAsked + 1
      /\ UNCHANGED <<released, chosen, serving, leaving, picked, pane, doomed, removing,
                     helmDeeds, helmOdd, helmTurns>>
  BY DEF RefreshReleases, HelmAsking
<1>3. PICK q \in HelmRequests :
        /\ helmAsks' = Append(helmAsks, q) /\ q.what = "list" /\ q.n = pane.mount
        /\ q.state = "open"
  <2>1. helmList.id + 1 \in Nat /\ "list" \in RequestKinds
    BY <1>1, ListingTells DEF RequestKinds
  <2> QED BY <1>1, <1>2, <2>1, RequestTells
<1>4. AsksOK' /\ helmAsks' \in Seq(HelmRequests)
  <2>1. \A r \in HelmRequests : AskOK(r) => AskOK(r)'
    BY <1>1, <1>2, AskKept
  <2>2. AskOK(q)'
    BY <1>1, <1>2, <1>3 DEF AskOK, OfPane
  <2> QED BY <1>1, <1>3, <2>1, <2>2, AsksAppend
<1>5. \A w \in {"uninstall", "history", "rollback"}, N \in {Nat, {pane.mount}} :
        /\ Single(helmAsks, w, N) => Single(helmAsks', w, N)
        /\ NoneOf(helmAsks, w, N) => NoneOf(helmAsks', w, N)
  BY <1>1, <1>2, <1>3, SingleAppend
<1>6. RemovalOK' /\ HistoryOK'
  BY <1>1, <1>2, <1>5, RemovalKept, HistoryKept
<1>7. /\ helmList' \in Listings /\ helmList'.state = helmList.state /\ helmList'.of = helmList.of
      /\ helmList'.rev = helmList.rev
  BY <1>1, <1>2, ListingTells
<1>8. HelmTypes' /\ AskedOK' /\ PaneOK'
  <2>1. HelmTypes'
    BY <1>1, <1>2, <1>4, <1>7 DEF HelmTypes
  <2>2. AskedOK'
    BY <1>1, <1>2, HelmAssumption DEF AskedOK
  <2> QED BY <1>1, <1>2, <2>1, <2>2 DEF PaneOK
<1>9. ReleaseOK'
  BY <1>1, <1>2, <1>7
     DEF ReleaseOK, ShownOfContext, DoneWhereMeant, DetailOfRow, Misplaced
<1> QED BY <1>4, <1>6, <1>8, <1>9 DEF ReleasesInv

\* A load of the list is answered: what is selected follows, in another detail when
\* its revision is another.
LEMMA ListedKeeps ==
  ASSUME ReleasesInv, NEW i \in DOMAIN helmAsks, Listed(i)
  PROVE  ReleasesInv'
<1> DEFINE r == helmAsks[i]
           list == IF r.state = "error"
                   THEN [helmList EXCEPT !.state = "error", !.loading = FALSE]
                   ELSE [helmList EXCEPT !.state = "shown", !.of = r.of, !.rev = r.rev,
                                         !.loading = FALSE]
           m == pane.mount
<1>1. /\ HelmTypes /\ AskedOK /\ AsksOK /\ RemovalOK /\ HistoryOK /\ PaneOK /\ ReleaseOK
      /\ pane \in Panes /\ m \in Nat /\ pane.valuesId \in Nat
      /\ helmList \in Listings /\ helmAsks \in Seq(HelmRequests)
      /\ r \in HelmRequests /\ AskOK(r)
      /\ \A j \in DOMAIN helmAsks : helmAsks[j] \in HelmRequests /\ AskOK(helmAsks[j])
  BY ReleaseFacts
<1>2. /\ helmAsks' = HelmWithout(i)
      /\ UNCHANGED <<released, chosen, serving, leaving, doomed, removing, helmDeeds, helmOdd,
                     helmAsked, helmTurns>>
      /\ r.state # "open"
  BY DEF Listed, HelmAnswer
<1>3. /\ list \in Listings
      /\ list.state = "shown" => r.state = "ok" /\ list.of = r.of /\ list.rev = r.rev
  BY <1>1, <1>2 DEF Listings, HelmRequests
<1>4. list.state # "shown" => list.of = helmList.of /\ list.rev = helmList.rev
  BY <1>1 DEF Listings
<1>5. CASE LatestLoad(r)
  <2>1. /\ helmList' = list /\ picked' = InSync(list) /\ pane' = Remounted(InSync(list))
        /\ r.ctx = chosen
    BY <1>5 DEF Listed, LatestLoad
  <2>2. list.state = "shown" => list.of \in HelmContexts /\ (ServedElsewhere \/ list.of = chosen)
    BY <1>1, <1>3, <2>1 DEF AskOK
  <2> HIDE DEF list, r
  <2>3. picked \in [of: HelmContexts, rev: Nat] \cup {NoHelm}
    BY <1>1 DEF HelmTypes
  <2>4. /\ picked' \in [of: HelmContexts, rev: Nat] \cup {NoHelm}
        /\ picked' = NoHelm <=> picked = NoHelm
        /\ picked' = picked \/ (list.state = "shown" /\ picked'.of = list.of)
        /\ picked' # NoHelm /\ list.rev # 0 =>
             picked' = picked \/ picked' = [of |-> list.of, rev |-> list.rev]
        /\ picked' # NoHelm /\ list.rev # 0 /\ list.state = "shown" =>
             picked' = [of |-> list.of, rev |-> list.rev]
    <3>1. CASE picked # NoHelm /\ list.state = "shown" /\ list.rev # 0
      <4>1. picked' = [of |-> list.of, rev |-> list.rev]
        BY <2>1, <3>1 DEF InSync
      <4>2. list.of \in HelmContexts /\ list.rev \in Nat
        BY <1>3, <2>2, <3>1 DEF Listings
      <4>3. picked' \in [of: HelmContexts, rev: Nat]
        BY <4>1, <4>2
      <4> QED BY <3>1, <4>1, <4>3, HelmAssumption
    <3>2. CASE ~(picked # NoHelm /\ list.state = "shown" /\ list.rev # 0)
      BY <2>1, <2>3, <3>2 DEF InSync
    <3> QED BY <3>1, <3>2
  <2>5. pane' = pane \/ (picked # NoHelm /\ pane' = EmptyPane(m + 1))
    BY <2>1 DEF Remounted, InSync
  <2>6. /\ m + 1 \in Nat /\ m < m + 1
    BY <1>1
  <2> DEFINE n == m + 1
  <2> HIDE DEF n, m
  <2>7. /\ pane' \in Panes /\ pane'.mount \in Nat /\ pane.mount <= pane'.mount
        /\ pane' = pane \/ pane.mount < pane'.mount
        /\ pane' = pane \/ (pane'.history.state = "none" /\ pane'.values.state = "none")
    <3>1. /\ n \in Nat /\ m \in Nat /\ m < n
          /\ pane' = pane \/ pane' = EmptyPane(n)
      BY <1>1, <2>5, <2>6 DEF n
    <3>2. CASE pane' = pane
      BY <1>1, <3>2 DEF m
    <3>3. CASE pane' = EmptyPane(n)
      <4>1. /\ pane' \in Panes /\ pane'.mount = n /\ pane'.values.state = "none"
            /\ pane'.history.state = "none"
        BY <3>1, <3>3, EmptyPaneTells
      <4> QED BY <3>1, <4>1 DEF m
    <3> QED BY <3>1, <3>2, <3>3
  <2>8. AsksOK' /\ helmAsks' \in Seq(HelmRequests)
    <3>1. \A p \in HelmRequests : AskOK(p) => AskOK(p)'
      <4>1. CASE pane' = pane
        BY <1>1, <1>2, <2>4, <4>1, AskKept
      <4>2. CASE pane' # pane
        BY <1>2, <2>7, <4>2, AskGone
      <4> QED BY <4>1, <4>2
    <3> QED BY <1>1, <1>2, <3>1, AsksDrop
  <2>9. RemovalOK'
    BY <1>1, <1>2, SingleWithout, RemovalKept
  <2>10. HistoryOK'
    <3>1. CASE pane' = pane
      BY <1>1, <1>2, <2>4, <3>1, SingleWithout, HistoryKept
    <3>2. CASE pane' # pane
      <4>1. n \in Nat /\ pane.mount < n /\ pane' = EmptyPane(n)
        BY <2>5, <2>6, <3>2 DEF n, m
      <4>2. \A j \in DOMAIN helmAsks' : helmAsks'[j].n \in Nat /\ helmAsks'[j].n <= pane.mount
        <5>1. \A j \in DOMAIN helmAsks : helmAsks[j].n \in Nat /\ helmAsks[j].n <= pane.mount
          BY <1>1 DEF HelmRequests, AskOK
        <5> QED BY <1>1, <1>2, <5>1, WithoutTells
      <4>3. released' \in [HelmContexts -> Nat] /\ chosen' \in HelmContexts
        BY <1>1, <1>2 DEF HelmTypes
      <4> QED BY <4>1, <4>2, <4>3, HistoryOpens
    <3> QED BY <3>1, <3>2
  <2>11. HelmTypes' /\ AskedOK'
    BY <1>1, <1>2, <1>3, <2>1, <2>2, <2>4, <2>7, <2>8 DEF HelmTypes, AskedOK
  <2>12. PaneOK'
    BY <1>1, <2>4, <2>5, <2>7 DEF PaneOK
  <2>13. ReleaseOK'
    <3>1. ShownOfContext'
      BY <1>1, <1>2, <2>1, <2>2, <2>4, <2>7 DEF ReleaseOK, ShownOfContext, ServedElsewhere
    <3>2. DetailOfRow'
      BY <1>1, <1>4, <2>1, <2>4 DEF ReleaseOK, DetailOfRow
    <3> QED BY <1>1, <1>2, <3>1, <3>2 DEF ReleaseOK, DoneWhereMeant, Misplaced
  <2> QED BY <2>8, <2>9, <2>10, <2>11, <2>12, <2>13 DEF ReleasesInv
<1>6. CASE ~LatestLoad(r)
  <2>1. UNCHANGED <<helmList, picked, pane>>
    BY <1>6 DEF Listed
  <2> HIDE DEF list, r, m
  <2>2. AsksOK' /\ helmAsks' \in Seq(HelmRequests)
    BY <1>1, <1>2, <2>1, AskKept, AsksDrop
  <2>3. RemovalOK' /\ HistoryOK'
    BY <1>1, <1>2, <2>1, SingleWithout, RemovalKept, HistoryKept
  <2>4. HelmTypes' /\ AskedOK' /\ PaneOK'
    BY <1>1, <1>2, <2>1, <2>2 DEF HelmTypes, AskedOK, PaneOK
  <2>5. ReleaseOK'
    BY <1>1, <1>2, <2>1
       DEF ReleaseOK, ShownOfContext, DoneWhereMeant, DetailOfRow, Misplaced
  <2> QED BY <2>2, <2>3, <2>4, <2>5 DEF ReleasesInv
<1> QED BY <1>5, <1>6

\* A row is selected in a detail of its own, or is no longer.
LEMMA PickKeeps ==
  ASSUME ReleasesInv, PickRelease
  PROVE  ReleasesInv'
<1> DEFINE m == pane.mount
           n == m + 1
<1>1. /\ HelmTypes /\ AskedOK /\ AsksOK /\ RemovalOK /\ HistoryOK /\ PaneOK /\ ReleaseOK
      /\ pane \in Panes /\ m \in Nat /\ helmList \in Listings /\ helmAsks \in Seq(HelmRequests)
      /\ \A j \in DOMAIN helmAsks : helmAsks[j] \in HelmRequests /\ AskOK(helmAsks[j])
  BY ReleaseFacts
<1>2. /\ UNCHANGED <<released, chosen, serving, leaving, helmList, doomed, removing, helmAsks,
                     helmDeeds, helmOdd, helmAsked, helmTurns>>
      /\ helmList.state = "shown"
      /\ \/ picked' = NoHelm /\ pane' = EmptyPane(m)
         \/ /\ picked' = [of |-> helmList.of, rev |-> helmList.rev]
            /\ pane' = EmptyPane(n)
  BY DEF PickRelease
<1>3. n \in Nat /\ m < n
  BY <1>1
<1> HIDE DEF n, m
<1>4. /\ pane' \in Panes /\ pane'.mount \in Nat /\ m <= pane'.mount
      /\ pane'.values.state = "none" /\ pane'.history.state = "none"
      /\ picked' = NoHelm \/ (m < pane'.mount /\ pane' = EmptyPane(n))
      /\ pane' = EmptyPane(pane'.mount)
  <2>1. CASE picked' = NoHelm /\ pane' = EmptyPane(m)
    <3>1. /\ pane' \in Panes /\ pane'.mount = m /\ pane'.values.state = "none"
          /\ pane'.history.state = "none"
      BY <1>1, <2>1, EmptyPaneTells
    <3> QED BY <1>1, <2>1, <3>1
  <2>2. CASE pane' = EmptyPane(n)
    <3>1. /\ pane' \in Panes /\ pane'.mount = n /\ pane'.values.state = "none"
          /\ pane'.history.state = "none"
      BY <1>3, <2>2, EmptyPaneTells
    <3> QED BY <1>1, <1>3, <2>2, <3>1
  <2> QED BY <1>2, <2>1, <2>2
<1>5. AsksOK'
  <2>1. \A p \in HelmRequests : AskOK(p) => AskOK(p)'
    BY <1>2, <1>4, AskGone DEF m
  <2> QED BY <1>1, <1>2, <2>1, AsksStay
<1>6. RemovalOK'
  BY <1>1, <1>2 DEF RemovalOK, Single, NoneOf
<1>7. HistoryOK'
  <2>1. CASE picked' = NoHelm
    BY <2>1 DEF HistoryOK
  <2>2. CASE picked' # NoHelm
    <3>1. \A j \in DOMAIN helmAsks' : helmAsks'[j].n \in Nat /\ helmAsks'[j].n <= pane.mount
      BY <1>1, <1>2 DEF HelmRequests, AskOK
    <3>2. released' \in [HelmContexts -> Nat] /\ chosen' \in HelmContexts
      BY <1>1, <1>2 DEF HelmTypes
    <3> QED BY <1>3, <1>4, <2>2, <3>1, <3>2, HistoryOpens DEF m
  <2> QED BY <2>1, <2>2
<1>8. HelmTypes'
  <2>1. helmList.of \in HelmContexts /\ helmList.rev \in Nat
    BY <1>1, <1>2 DEF HelmTypes, Listings
  <2>2. picked' \in [of: HelmContexts, rev: Nat] \cup {NoHelm}
    BY <1>2, <2>1
  <2> QED BY <1>1, <1>2, <1>4, <2>2 DEF HelmTypes
<1>9. PaneOK' /\ AskedOK'
  BY <1>1, <1>2, <1>4 DEF PaneOK, AskedOK
<1>10. ReleaseOK'
  <2>1. ShownOfContext' /\ DetailOfRow'
    <3>1. picked' # NoHelm =>
            /\ picked' = [of |-> helmList.of, rev |-> helmList.rev]
            /\ picked'.of = helmList.of
      BY <1>2
    <3> QED BY <1>1, <1>2, <1>4, <3>1 DEF ReleaseOK, ShownOfContext, DetailOfRow
  <2> QED BY <1>1, <1>2, <2>1 DEF ReleaseOK, DoneWhereMeant, Misplaced
<1> QED BY <1>5, <1>6, <1>7, <1>8, <1>9, <1>10 DEF ReleasesInv

\* The release of the question is uninstalled, the only one at the time.
LEMMA ConfirmKeeps ==
  ASSUME ReleasesInv, ConfirmUninstall
  PROVE  ReleasesInv'
<1>1. /\ HelmTypes /\ AskedOK /\ AsksOK /\ RemovalOK /\ HistoryOK /\ PaneOK /\ ReleaseOK
      /\ pane.mount \in Nat /\ pane.valuesId \in Nat /\ helmAsks \in Seq(HelmRequests)
      /\ doomed \in HelmContexts \cup {NoHelm}
  BY ReleaseFacts DEF HelmTypes
<1>2. /\ doomed # NoHelm /\ ~removing
      /\ helmAsks' = Append(helmAsks, HelmRequest("uninstall", 0, doomed))
      /\ helmAsked < MaxHelmAsks /\ helmAsked' = helmAsked + 1
      /\ UNCHANGED <<released, chosen, serving, leaving, helmList, picked, pane, doomed,
                     helmDeeds, helmOdd, helmTurns>>
  BY DEF ConfirmUninstall, IdleDialog, HelmAsking
<1>3. PICK q \in HelmRequests :
        /\ helmAsks' = Append(helmAsks, q) /\ q.what = "uninstall" /\ q.n = pane.mount
        /\ q.state = "open" /\ q.meant = doomed /\ q.ctx = chosen
  <2>1. "uninstall" \in RequestKinds
    BY DEF RequestKinds
  <2> QED BY <1>1, <1>2, <2>1, RequestTells
<1>4. AsksOK' /\ helmAsks' \in Seq(HelmRequests)
  <2>1. \A r \in HelmRequests : AskOK(r) => AskOK(r)'
    BY <1>1, <1>2, AskKept
  <2>2. AskOK(q)'
    <3>1. Misplaced' \/ q.meant = q.ctx
      BY <1>1, <1>2, <1>3 DEF ReleaseOK, Misplaced
    <3>2. pane' = pane /\ picked' = picked
      BY <1>2
    <3> QED BY <1>1, <1>3, <3>1, <3>2 DEF AskOK, OfPane
  <2> QED BY <1>1, <1>3, <2>1, <2>2, AsksAppend
<1>5. removing' = TRUE
  BY DEF ConfirmUninstall
<1>6. RemovalOK'
  <2>1. NoneOf(helmAsks, "uninstall", Nat)
    BY <1>1, <1>2 DEF RemovalOK
  <2>2. Single(helmAsks', "uninstall", Nat)
    BY <1>1, <1>3, <2>1, SingleAppend
  <2> QED BY <1>5, <2>2 DEF RemovalOK
<1>7. HistoryOK'
  <2>1. \A w \in {"history", "rollback"} :
          /\ Single(helmAsks, w, {pane.mount}) => Single(helmAsks', w, {pane.mount})
          /\ NoneOf(helmAsks, w, {pane.mount}) => NoneOf(helmAsks', w, {pane.mount})
    BY <1>1, <1>3, SingleAppend
  <2> QED BY <1>2, <2>1, HistoryKept
<1>8. HelmTypes'
  <2>1. removing' \in BOOLEAN
    BY <1>5, Zenon
  <2> QED BY <1>1, <1>2, <1>4, <2>1 DEF HelmTypes
<1>9. AskedOK'
  BY <1>1, <1>2, HelmAssumption DEF AskedOK
<1>10. PaneOK' /\ ReleaseOK'
  BY <1>1, <1>2
     DEF PaneOK, ReleaseOK, ShownOfContext, DoneWhereMeant, DetailOfRow, Misplaced
<1> QED BY <1>4, <1>6, <1>7, <1>8, <1>9, <1>10 DEF ReleasesInv

\* The release is uninstalled, or is not: the question is closed and the releases are
\* asked for, unless the context has changed.
LEMMA UninstalledKeeps ==
  ASSUME ReleasesInv, NEW i \in DOMAIN helmAsks, Uninstalled(i)
  PROVE  ReleasesInv'
<1> DEFINE m == pane.mount
<1>1. /\ HelmTypes /\ AskedOK /\ AsksOK /\ RemovalOK /\ HistoryOK /\ PaneOK /\ ReleaseOK
      /\ pane \in Panes /\ m \in Nat /\ pane.valuesId \in Nat
      /\ helmList \in Listings /\ helmAsks \in Seq(HelmRequests)
      /\ helmAsks[i] \in HelmRequests /\ AskOK(helmAsks[i])
  BY ReleaseFacts
<1>2. /\ helmAsks[i].what = "uninstall" /\ removing' = FALSE
      /\ UNCHANGED <<released, chosen, serving, leaving, helmDeeds, helmOdd, helmTurns>>
      /\ helmAsked' = helmAsked
      /\ \/ /\ helmAsks' = HelmWithout(i) /\ UNCHANGED <<picked, pane>>
            /\ doomed' \in {doomed, NoHelm}
            /\ helmList' \in {helmList, [helmList EXCEPT !.state = "error"]}
         \/ /\ doomed' = NoHelm /\ picked' = NoHelm /\ pane' = EmptyPane(m)
            /\ helmList' = Listing(helmList)
            /\ helmAsks' = Append(HelmWithout(i), HelmRequest("list", helmList.id + 1, NoHelm))
  BY DEF Uninstalled, HelmAnswer
<1> HIDE DEF m
<1>3. removing' \in BOOLEAN
  BY <1>2, Zenon
<1>4. NoneOf(HelmWithout(i), "uninstall", Nat)
  <2>1. helmAsks[i].n \in Nat /\ Single(helmAsks, "uninstall", Nat)
    BY <1>1 DEF HelmRequests, RemovalOK
  <2> QED BY <1>1, <1>2, <2>1, SingleWithout
<1>5. \A s : NoneOf(s, "uninstall", Nat) => Single(s, "uninstall", Nat)
  BY DEF NoneOf, Single
<1>6. CASE /\ helmAsks' = HelmWithout(i) /\ UNCHANGED <<picked, pane>>
           /\ doomed' \in {doomed, NoHelm}
           /\ helmList' \in {helmList, [helmList EXCEPT !.state = "error"]}
  <2>1. AsksOK' /\ helmAsks' \in Seq(HelmRequests)
    BY <1>1, <1>2, <1>6, AskKept, AsksDrop
  <2>2. RemovalOK'
    BY <1>4, <1>5, <1>6 DEF RemovalOK
  <2>3. HistoryOK'
    BY <1>1, <1>2, <1>6, SingleWithout, HistoryKept
  <2>4. /\ helmList' \in Listings /\ helmList'.of = helmList.of /\ helmList'.rev = helmList.rev
        /\ helmList'.state = "shown" => helmList.state = "shown"
    BY <1>1, <1>6 DEF Listings
  <2>5. HelmTypes'
    BY <1>1, <1>2, <1>3, <1>6, <2>1, <2>4 DEF HelmTypes
  <2>6. AskedOK' /\ PaneOK'
    BY <1>1, <1>2, <1>6 DEF AskedOK, PaneOK
  <2>7. ReleaseOK'
    BY <1>1, <1>2, <1>6, <2>4
       DEF ReleaseOK, ShownOfContext, DoneWhereMeant, DetailOfRow, Misplaced
  <2> QED BY <2>1, <2>2, <2>3, <2>5, <2>6, <2>7 DEF ReleasesInv
<1>7. CASE /\ doomed' = NoHelm /\ picked' = NoHelm /\ pane' = EmptyPane(m)
           /\ helmList' = Listing(helmList)
           /\ helmAsks' = Append(HelmWithout(i), HelmRequest("list", helmList.id + 1, NoHelm))
  <2>1. /\ pane' \in Panes /\ pane'.mount = m /\ pane'.values.state = "none"
        /\ pane'.history.state = "none"
    BY <1>1, <1>7, EmptyPaneTells
  <2>2. PICK q \in HelmRequests :
          /\ helmAsks' = Append(HelmWithout(i), q) /\ q.what = "list" /\ q.n = m
          /\ q.state = "open"
    <3>1. helmList.id + 1 \in Nat /\ "list" \in RequestKinds
      BY <1>1, ListingTells DEF RequestKinds
    <3> QED BY <1>1, <1>7, <3>1, RequestTells DEF m
  <2>3. AsksOK' /\ helmAsks' \in Seq(HelmRequests)
    <3>1. \A r \in HelmRequests : AskOK(r) => AskOK(r)'
      BY <1>1, <1>2, <1>7, <2>1, AskGone DEF m
    <3>2. AskOK(q)'
      BY <1>1, <1>7, <2>1, <2>2 DEF AskOK, OfPane
    <3> QED BY <1>1, <2>2, <3>1, <3>2, AsksSwap
  <2>4. RemovalOK'
    <3>1. HelmWithout(i) \in Seq(HelmRequests)
      BY <1>1, WithoutTells
    <3>2. NoneOf(helmAsks', "uninstall", Nat)
      BY <1>4, <2>2, <3>1, SingleAppend
    <3> QED BY <1>5, <3>2 DEF RemovalOK
  <2>5. /\ helmList' \in Listings /\ helmList'.of = helmList.of /\ helmList'.state = helmList.state
    BY <1>1, <1>7, ListingTells
  <2>6. HelmTypes'
    BY <1>1, <1>2, <1>3, <1>7, <2>1, <2>3, <2>5 DEF HelmTypes
  <2>7. AskedOK' /\ PaneOK' /\ HistoryOK'
    BY <1>1, <1>2, <1>7, <2>1 DEF AskedOK, PaneOK, HistoryOK
  <2>8. ReleaseOK'
    BY <1>1, <1>2, <1>7, <2>1, <2>5
       DEF ReleaseOK, ShownOfContext, DoneWhereMeant, DetailOfRow, Misplaced
  <2> QED BY <2>3, <2>4, <2>6, <2>7, <2>8 DEF ReleasesInv
<1> QED BY <1>2, <1>6, <1>7

\* An answer comes to a detail that is gone.
LEMMA LateKeeps ==
  ASSUME ReleasesInv, NEW i \in DOMAIN helmAsks, TooLate(i)
  PROVE  ReleasesInv'
<1>1. /\ HelmTypes /\ AskedOK /\ AsksOK /\ RemovalOK /\ HistoryOK /\ PaneOK /\ ReleaseOK
      /\ pane.valuesId \in Nat /\ helmAsks \in Seq(HelmRequests)
  BY ReleaseFacts
<1>2. /\ helmAsks' = HelmWithout(i)
      /\ UNCHANGED <<released, chosen, serving, leaving, helmList, picked, pane, doomed, removing,
                     helmDeeds, helmOdd, helmAsked, helmTurns>>
  BY DEF TooLate
<1>3. AsksOK' /\ helmAsks' \in Seq(HelmRequests)
  BY <1>1, <1>2, AskKept, AsksDrop
<1>4. RemovalOK' /\ HistoryOK'
  BY <1>1, <1>2, SingleWithout, RemovalKept, HistoryKept
<1>5. HelmTypes' /\ AskedOK' /\ PaneOK'
  BY <1>1, <1>2, <1>3 DEF HelmTypes, AskedOK, PaneOK
<1>6. ReleaseOK'
  BY <1>1, <1>2 DEF ReleaseOK, ShownOfContext, DoneWhereMeant, DetailOfRow, Misplaced
<1> QED BY <1>3, <1>4, <1>5, <1>6 DEF ReleasesInv

----------------------------------------------------------------------------
\* A step of the detail on screen leaves the panel in order when it leaves its own
\* requests, its history and what it shows in order.
LEMMA DetailKeeps ==
  ASSUME ReleasesInv, AsksOK', HistoryOK', helmAsks' \in Seq(HelmRequests), pane' \in Panes,
         UNCHANGED <<released, chosen, serving, leaving, helmList, picked, doomed, removing,
                     helmDeeds, helmTurns>>,
         helmOdd \subseteq helmOdd', picked # NoHelm,
         helmAsked' = helmAsked \/ (helmAsked < MaxHelmAsks /\ helmAsked' = helmAsked + 1),
         /\ Single(helmAsks, "uninstall", Nat) => Single(helmAsks', "uninstall", Nat)
         /\ NoneOf(helmAsks, "uninstall", Nat) => NoneOf(helmAsks', "uninstall", Nat),
         pane'.values.state \in {"shown", "error"} => pane'.wanted,
         \/ ServedElsewhere'
         \/ /\ pane'.history.state = "shown" => pane'.history.of = chosen
            /\ pane'.values.state = "shown" => pane'.values.of = chosen
  PROVE  ReleasesInv'
<1>1. HelmTypes /\ AskedOK /\ ReleaseOK
  BY ReleaseFacts
<1> HIDE DEF ReleasesInv
<1>2. /\ ServedElsewhere => ServedElsewhere'
      /\ Misplaced => Misplaced'
  BY OddGrows
<1>3. RemovalOK'
  BY RemovalKept
<1>4. HelmTypes'
  BY <1>1 DEF HelmTypes
<1>5. AskedOK'
  <2>1. helmAsked \in Nat /\ MaxHelmAsks \in Nat
    BY <1>1, HelmAssumption DEF AskedOK
  <2> QED BY <1>1, <2>1 DEF AskedOK
<1>6. PaneOK'
  BY DEF PaneOK
<1>7. ReleaseOK'
  <2>1. ShownOfContext'
    BY <1>1, <1>2 DEF ReleaseOK, ShownOfContext, ServedElsewhere
  <2>2. DoneWhereMeant'
    BY <1>1, <1>2 DEF ReleaseOK, DoneWhereMeant, Misplaced
  <2>3. DetailOfRow'
    BY <1>1 DEF ReleaseOK, DetailOfRow
  <2> QED BY <1>1, <1>2, <2>1, <2>2, <2>3 DEF ReleaseOK
<1> QED BY <1>3, <1>4, <1>5, <1>6, <1>7 DEF ReleasesInv

\* What the detail shows is of the context.
LEMMA PaneShows ==
  ASSUME ReleasesInv, picked # NoHelm
  PROVE  /\ pane.values.state \in {"shown", "error"} => pane.wanted
         /\ \/ ServedElsewhere
            \/ /\ picked.of = chosen
               /\ pane.history.state = "shown" => pane.history.of = chosen
               /\ pane.values.state = "shown" => pane.values.of = chosen
BY DEF ReleasesInv, PaneOK, ReleaseOK, ShownOfContext, ServedElsewhere

\* The values are asked for, or their dialog is closed.
LEMMA ValuesAskKeeps ==
  ASSUME ReleasesInv, AskValues \/ CloseValues
  PROVE  ReleasesInv'
<1> DEFINE n == pane.valuesId + 1
<1>1. /\ HelmTypes /\ AsksOK /\ HistoryOK
      /\ pane \in Panes /\ pane.mount \in Nat /\ n \in Nat /\ helmAsks \in Seq(HelmRequests)
  BY ReleaseFacts
<1>2. /\ picked # NoHelm
      /\ UNCHANGED <<released, chosen, serving, leaving, helmList, picked, doomed, removing,
                     helmDeeds, helmOdd, helmTurns>>
  BY DEF AskValues, CloseValues, InPane
<1>3. PICK want \in BOOLEAN, state \in {"loading", "none"} :
        pane' = [pane EXCEPT !.valuesId = n, !.wanted = want,
                             !.values = Shown(state, NoHelm, 0)]
  BY <1>1 DEF AskValues, CloseValues, Panes
<1>4. /\ pane' \in Panes /\ pane'.mount = pane.mount /\ pane'.least = pane.least
      /\ pane'.valuesId = n /\ pane'.history = pane.history /\ pane'.rolling = pane.rolling
      /\ pane'.values.state = state
  <2>1. Shown(state, NoHelm, 0) \in Displays({"none", "loading", "shown", "error"})
    BY <1>3 DEF Shown, Displays
  <2> QED BY <1>1, <1>3, <2>1 DEF Panes, Shown
<1>5. n = pane.valuesId + 1
  OBVIOUS
<1>6. \A r \in HelmRequests : AskOK(r) => AskOK(r)'
  BY <1>1, <1>2, <1>4, <1>5, AskKept
<1>7. AsksOK' /\ helmAsks' \in Seq(HelmRequests) /\ HistoryOK'
      /\ (Single(helmAsks, "uninstall", Nat) => Single(helmAsks', "uninstall", Nat))
      /\ (NoneOf(helmAsks, "uninstall", Nat) => NoneOf(helmAsks', "uninstall", Nat))
      /\ (helmAsked' = helmAsked \/ (helmAsked < MaxHelmAsks /\ helmAsked' = helmAsked + 1))
  <2>1. CASE AskValues
    <3>1. /\ helmAsks' = Append(helmAsks, HelmRequest("values", n, NoHelm))
          /\ helmAsked < MaxHelmAsks /\ helmAsked' = helmAsked + 1
          /\ pane' = [pane EXCEPT !.valuesId = @ + 1, !.wanted = TRUE,
                                  !.values = Shown("loading", NoHelm, 0)]
      BY <2>1 DEF AskValues, HelmAsking
    <3>2. pane'.wanted
      BY <1>1, <3>1 DEF Panes
    <3> HIDE DEF n
    <3>3. PICK q \in HelmRequests :
            /\ helmAsks' = Append(helmAsks, q) /\ q.what = "values" /\ q.n = pane.mount
            /\ q.state = "open" /\ q.id = n /\ q.ctx = chosen
      <4>1. "values" \in RequestKinds
        BY DEF RequestKinds
      <4> QED BY <1>1, <3>1, <4>1, RequestTells
    <3>4. AskOK(q)'
      <4>1. q.n <= pane'.mount /\ q.id <= pane'.valuesId
        BY <1>1, <1>4, <3>3
      <4> QED BY <1>2, <3>2, <3>3, <4>1 DEF AskOK, OfPane
    <3>5. AsksOK' /\ helmAsks' \in Seq(HelmRequests)
      BY <1>1, <1>6, <3>3, <3>4, AsksAppend
    <3>6. \A w \in {"uninstall", "history", "rollback"}, N \in {Nat, {pane.mount}} :
            /\ Single(helmAsks, w, N) => Single(helmAsks', w, N)
            /\ NoneOf(helmAsks, w, N) => NoneOf(helmAsks', w, N)
      BY <1>1, <3>3, SingleAppend
    <3>7. HistoryOK'
      BY <1>2, <1>4, <3>6, HistoryKept
    <3> QED BY <3>1, <3>5, <3>6, <3>7
  <2>2. CASE CloseValues
    <3>1. helmAsks' = helmAsks /\ helmAsked' = helmAsked
      BY <2>2 DEF CloseValues
    <3>2. AsksOK' /\ helmAsks' \in Seq(HelmRequests)
      BY <1>1, <1>6, <3>1, AsksStay
    <3>3. HistoryOK'
      BY <1>2, <1>4, <3>1, HistoryKept
    <3> QED BY <3>1, <3>2, <3>3
  <2> QED BY <2>1, <2>2
<1>8. ServedElsewhere' \/ (pane'.history.state = "shown" => pane'.history.of = chosen)
  BY <1>2, <1>4, PaneShows DEF ServedElsewhere
<1>9. pane'.values.state \notin {"shown", "error"}
  BY <1>3, <1>4
<1> HIDE DEF n
<1> QED BY <1>2, <1>4, <1>7, <1>8, <1>9, DetailKeeps

\* The values come, and are shown when their dialog is still the one.
LEMMA ValuesCameKeeps ==
  ASSUME ReleasesInv, NEW i \in DOMAIN helmAsks, ValuesCame(i)
  PROVE  ReleasesInv'
<1> DEFINE r == helmAsks[i]
<1>1. /\ HelmTypes /\ AsksOK
      /\ pane \in Panes /\ pane.valuesId \in Nat /\ helmAsks \in Seq(HelmRequests)
      /\ r \in HelmRequests /\ AskOK(r)
  BY ReleaseFacts
<1>2. /\ helmAsks' = HelmWithout(i) /\ picked # NoHelm /\ OfPane(r) /\ r.what = "values"
      /\ UNCHANGED <<released, chosen, serving, leaving, helmList, picked, doomed, removing,
                     helmDeeds, helmOdd, helmAsked, helmTurns>>
      /\ \/ pane' = pane
         \/ /\ r.id = pane.valuesId
            /\ pane' = [pane EXCEPT !.values = IF r.state = "ok" THEN Shown("shown", r.of, r.rev)
                                               ELSE Shown("error", NoHelm, 0)]
  BY DEF ValuesCame, ToPane, HelmAnswer, OfPane, CurrentValues
<1> HIDE DEF r
<1>3. /\ pane' \in Panes /\ pane'.mount = pane.mount /\ pane'.least = pane.least
      /\ pane'.valuesId = pane.valuesId /\ pane'.history = pane.history
      /\ pane'.rolling = pane.rolling /\ pane'.wanted = pane.wanted
      /\ pane' = pane \/ (r.id = pane.valuesId /\
           (pane'.values.state = "shown" => r.state = "ok" /\ pane'.values.of = r.of))
  <2>1. (IF r.state = "ok" THEN Shown("shown", r.of, r.rev) ELSE Shown("error", NoHelm, 0))
          \in Displays({"none", "loading", "shown", "error"})
    BY <1>1 DEF Shown, Displays, HelmRequests
  <2> QED BY <1>1, <1>2, <2>1 DEF Panes, Shown
<1>4. AsksOK' /\ helmAsks' \in Seq(HelmRequests)
  <2>1. \A p \in HelmRequests : AskOK(p) => AskOK(p)'
    BY <1>1, <1>2, <1>3, AskKept
  <2> QED BY <1>1, <1>2, <2>1, AsksDrop
<1>5. HistoryOK'
  BY <1>1, <1>2, <1>3, SingleWithout, HistoryKept
<1>6. /\ pane'.values.state \in {"shown", "error"} => pane'.wanted
  BY <1>1, <1>2, <1>3, PaneShows DEF AskOK
<1>7. \/ ServedElsewhere'
      \/ /\ pane'.history.state = "shown" => pane'.history.of = chosen
         /\ pane'.values.state = "shown" => pane'.values.of = chosen
  <2>1. r.state = "ok" => ServedElsewhere \/ r.of = chosen
    BY <1>1, <1>2 DEF AskOK
  <2> QED BY <1>2, <1>3, <2>1, PaneShows DEF ServedElsewhere
<1>8. /\ Single(helmAsks, "uninstall", Nat) => Single(helmAsks', "uninstall", Nat)
      /\ NoneOf(helmAsks, "uninstall", Nat) => NoneOf(helmAsks', "uninstall", Nat)
  BY <1>1, <1>2, SingleWithout
<1> QED BY <1>2, <1>3, <1>4, <1>5, <1>6, <1>7, <1>8, DetailKeeps

\* The history is loaded, once at a time.
LEMMA HistoryAskKeeps ==
  ASSUME ReleasesInv, AskHistory
  PROVE  ReleasesInv'
<1>1. /\ HelmTypes /\ AsksOK /\ HistoryOK
      /\ pane \in Panes /\ pane.mount \in Nat /\ pane.valuesId \in Nat
      /\ helmAsks \in Seq(HelmRequests)
  BY ReleaseFacts
<1>2. /\ picked # NoHelm /\ pane.history.state # "loading"
      /\ pane' = [pane EXCEPT !.tab = "history", !.history = Shown("loading", NoHelm, 0)]
      /\ helmAsks' = Append(helmAsks, HelmRequest("history", 0, NoHelm))
      /\ helmAsked < MaxHelmAsks /\ helmAsked' = helmAsked + 1
      /\ helmOdd' = helmOdd \cup (IF pane.rolling THEN {"loads overlap"} ELSE {})
      /\ UNCHANGED <<released, chosen, serving, leaving, helmList, picked, doomed, removing,
                     helmDeeds, helmTurns>>
  BY DEF AskHistory, HelmAsking
<1>3. PICK q \in HelmRequests :
        /\ helmAsks' = Append(helmAsks, q) /\ q.what = "history" /\ q.n = pane.mount
        /\ q.state = "open" /\ q.ctx = chosen
  <2>0. HelmTypes
    BY <1>1
  <2>1. "history" \in RequestKinds /\ 0 \in Nat /\ NoHelm \in HelmContexts \cup {NoHelm}
    BY DEF RequestKinds
  <2>2. \E q \in HelmRequests :
         /\ q = HelmRequest("history", 0, NoHelm) /\ q.what = "history" /\ q.ctx = chosen
         /\ q.n = pane.mount /\ q.state = "open"
    BY <2>0, <2>1, RequestTells
  <2> QED BY <1>2, <2>2
<1>4. /\ pane' \in Panes /\ pane'.mount = pane.mount /\ pane'.least = pane.least
      /\ pane'.valuesId = pane.valuesId /\ pane'.wanted = pane.wanted
      /\ pane'.values = pane.values /\ pane'.rolling = pane.rolling
      /\ pane'.history.state = "loading"
  <2>1. Shown("loading", NoHelm, 0) \in Displays({"none", "loading", "shown"})
    BY DEF Shown, Displays
  <2> QED BY <1>1, <1>2, <2>1 DEF Panes, Shown
<1>5. AsksOK' /\ helmAsks' \in Seq(HelmRequests)
  <2>1. \A r \in HelmRequests : AskOK(r) => AskOK(r)'
    BY <1>1, <1>2, <1>4, AskKept
  <2>2. AskOK(q)'
    <3>1. q.n <= pane'.mount
      BY <1>1, <1>3, <1>4
    <3> QED BY <1>2, <1>3, <3>1 DEF AskOK, OfPane
  <2> QED BY <1>1, <1>3, <2>1, <2>2, AsksAppend
<1>6. HistoryOK'
  <2> SUFFICES ASSUME ~Mixed' PROVE HistoryOK'
    BY DEF HistoryOK
  <2>1. ~Mixed /\ ~pane.rolling
    BY <1>2 DEF Mixed
  <2>2. /\ NoneOf(helmAsks, "history", {pane.mount}) /\ NoneOf(helmAsks, "rollback", {pane.mount})
        /\ Single(helmAsks, "rollback", {pane.mount})
        /\ released[chosen] = 0 \/ pane.least <= released[chosen]
    BY <1>1, <1>2, <2>1 DEF HistoryOK
  <2>3. /\ Single(helmAsks', "history", {pane.mount})
        /\ NoneOf(helmAsks', "rollback", {pane.mount})
        /\ Single(helmAsks', "rollback", {pane.mount})
    BY <1>1, <1>3, <2>2, SingleAppend
  <2> QED BY <1>2, <1>4, <2>1, <2>2, <2>3 DEF HistoryOK
<1>7. /\ Single(helmAsks, "uninstall", Nat) => Single(helmAsks', "uninstall", Nat)
      /\ NoneOf(helmAsks, "uninstall", Nat) => NoneOf(helmAsks', "uninstall", Nat)
  BY <1>1, <1>3, SingleAppend
<1>8. /\ pane'.values.state \in {"shown", "error"} => pane'.wanted
      /\ \/ ServedElsewhere'
         \/ /\ pane'.history.state = "shown" => pane'.history.of = chosen
            /\ pane'.values.state = "shown" => pane'.values.of = chosen
  BY <1>2, <1>4, PaneShows DEF ServedElsewhere
<1> QED BY <1>2, <1>4, <1>5, <1>6, <1>7, <1>8, DetailKeeps

\* The history comes: it is not older than what the detail has rolled back to.
LEMMA HistoryCameKeeps ==
  ASSUME ReleasesInv, NEW i \in DOMAIN helmAsks, HistoryCame(i)
  PROVE  ReleasesInv'
<1> DEFINE r == helmAsks[i]
<1>1. /\ HelmTypes /\ AsksOK /\ HistoryOK
      /\ pane \in Panes /\ pane.mount \in Nat /\ pane.valuesId \in Nat
      /\ helmAsks \in Seq(HelmRequests) /\ r \in HelmRequests /\ AskOK(r)
  BY ReleaseFacts
<1>2. /\ helmAsks' = HelmWithout(i) /\ picked # NoHelm /\ r.n = pane.mount
      /\ r.what = "history"
      /\ UNCHANGED <<released, chosen, serving, leaving, helmList, picked, doomed, removing,
                     helmDeeds, helmOdd, helmAsked, helmTurns>>
      /\ pane' = [pane EXCEPT !.history = IF r.state = "ok" THEN Shown("shown", r.of, r.rev)
                                          ELSE Shown("none", NoHelm, 0)]
  BY DEF HistoryCame, ToPane, HelmAnswer
<1>3. /\ pane' \in Panes /\ pane'.mount = pane.mount /\ pane'.least = pane.least
      /\ pane'.valuesId = pane.valuesId /\ pane'.wanted = pane.wanted
      /\ pane'.values = pane.values /\ pane'.rolling = pane.rolling
      /\ pane'.history.state # "loading"
      /\ pane'.history.state = "shown" =>
           r.state = "ok" /\ pane'.history.of = r.of /\ pane'.history.rev = r.rev
  <2>1. (IF r.state = "ok" THEN Shown("shown", r.of, r.rev) ELSE Shown("none", NoHelm, 0))
          \in Displays({"none", "loading", "shown"})
    BY <1>1 DEF Shown, Displays, HelmRequests
  <2> QED BY <1>1, <1>2, <2>1 DEF Panes, Shown
<1>4. AsksOK' /\ helmAsks' \in Seq(HelmRequests)
  <2>1. \A p \in HelmRequests : AskOK(p) => AskOK(p)'
    BY <1>1, <1>2, <1>3, AskKept
  <2> QED BY <1>1, <1>2, <2>1, AsksDrop
<1>5. HistoryOK'
  <2> SUFFICES ASSUME ~Mixed' PROVE HistoryOK'
    BY DEF HistoryOK
  <2>1. ~Mixed
    BY <1>2 DEF Mixed
  <2>2. /\ Single(helmAsks, "history", {pane.mount})
        /\ pane.history.state # "loading" => NoneOf(helmAsks, "history", {pane.mount})
        /\ Single(helmAsks, "rollback", {pane.mount})
        /\ ~pane.rolling => NoneOf(helmAsks, "rollback", {pane.mount})
        /\ pane.rolling => pane.history.state = "shown"
        /\ released[chosen] = 0 \/ pane.least <= released[chosen]
    BY <1>1, <1>2, <2>1 DEF HistoryOK
  <2>3. ~pane.rolling
    BY <1>2, <2>2 DEF NoneOf
  <2>4. r.state = "ok" => pane.least <= r.rev
    BY <1>1, <1>2, <2>1 DEF AskOK, OfPane
  <2>5. /\ NoneOf(helmAsks', "history", {pane.mount})
        /\ Single(helmAsks', "history", {pane.mount})
        /\ NoneOf(helmAsks', "rollback", {pane.mount})
        /\ Single(helmAsks', "rollback", {pane.mount})
    BY <1>1, <1>2, <2>2, <2>3, SingleWithout
  <2> QED BY <1>2, <1>3, <2>2, <2>3, <2>4, <2>5 DEF HistoryOK
<1>6. /\ Single(helmAsks, "uninstall", Nat) => Single(helmAsks', "uninstall", Nat)
      /\ NoneOf(helmAsks, "uninstall", Nat) => NoneOf(helmAsks', "uninstall", Nat)
  BY <1>1, <1>2, SingleWithout
<1>7. /\ pane'.values.state \in {"shown", "error"} => pane'.wanted
      /\ \/ ServedElsewhere'
         \/ /\ pane'.history.state = "shown" => pane'.history.of = chosen
            /\ pane'.values.state = "shown" => pane'.values.of = chosen
  <2>1. r.state = "ok" => ServedElsewhere \/ r.of = chosen
    BY <1>1, <1>2 DEF AskOK, OfPane
  <2> QED BY <1>2, <1>3, <2>1, PaneShows DEF ServedElsewhere
<1> QED BY <1>2, <1>3, <1>4, <1>5, <1>6, <1>7, DetailKeeps

\* The question of rolling back is opened or closed.
LEMMA QuestionKeeps ==
  ASSUME ReleasesInv, AskRollback
  PROVE  ReleasesInv'
<1>1. /\ HelmTypes /\ AsksOK
      /\ pane \in Panes /\ pane.valuesId \in Nat /\ helmAsks \in Seq(HelmRequests)
  BY ReleaseFacts
<1>2. /\ picked # NoHelm /\ pane' = [pane EXCEPT !.target = ~@]
      /\ UNCHANGED <<released, chosen, serving, leaving, helmList, picked, doomed, removing,
                     helmAsks, helmDeeds, helmOdd, helmAsked, helmTurns>>
  BY DEF AskRollback, InHistory
<1>3. /\ pane' \in Panes /\ pane'.mount = pane.mount /\ pane'.least = pane.least
      /\ pane'.valuesId = pane.valuesId /\ pane'.wanted = pane.wanted
      /\ pane'.values = pane.values /\ pane'.rolling = pane.rolling
      /\ pane'.history = pane.history
  BY <1>1, <1>2 DEF Panes
<1>4. AsksOK' /\ helmAsks' \in Seq(HelmRequests)
  BY <1>1, <1>2, <1>3, AskKept, AsksStay
<1>5. HistoryOK'
  BY <1>2, <1>3, HistoryKept
<1>6. /\ pane'.values.state \in {"shown", "error"} => pane'.wanted
      /\ \/ ServedElsewhere'
         \/ /\ pane'.history.state = "shown" => pane'.history.of = chosen
            /\ pane'.values.state = "shown" => pane'.values.of = chosen
  BY <1>2, <1>3, PaneShows DEF ServedElsewhere
<1> QED BY <1>2, <1>3, <1>4, <1>5, <1>6, DetailKeeps

\* The release is rolled back; another time while it is is out of the ordinary.
LEMMA RollBackKeeps ==
  ASSUME ReleasesInv, RollBack
  PROVE  ReleasesInv'
<1>1. /\ HelmTypes /\ AsksOK /\ HistoryOK
      /\ pane \in Panes /\ pane.mount \in Nat /\ pane.valuesId \in Nat
      /\ helmAsks \in Seq(HelmRequests)
      /\ picked \in [of: HelmContexts, rev: Nat] \cup {NoHelm}
  BY ReleaseFacts DEF HelmTypes
<1>2. /\ picked # NoHelm /\ pane.history.state = "shown"
      /\ pane' = [pane EXCEPT !.rolling = TRUE]
      /\ helmAsks' = Append(helmAsks, HelmRequest("rollback", 0, picked.of))
      /\ helmAsked < MaxHelmAsks /\ helmAsked' = helmAsked + 1
      /\ helmOdd' = helmOdd \cup (IF pane.rolling THEN {"loads overlap"} ELSE {})
      /\ UNCHANGED <<released, chosen, serving, leaving, helmList, picked, doomed, removing,
                     helmDeeds, helmTurns>>
  BY DEF RollBack, InHistory, HelmAsking
<1>3. PICK q \in HelmRequests :
        /\ helmAsks' = Append(helmAsks, q) /\ q.what = "rollback" /\ q.n = pane.mount
        /\ q.state = "open" /\ q.ctx = chosen /\ q.meant = picked.of
  <2>0. HelmTypes
    BY <1>1
  <2>1. "rollback" \in RequestKinds /\ 0 \in Nat /\ picked.of \in HelmContexts \cup {NoHelm}
    BY <1>1, <1>2 DEF RequestKinds
  <2>2. \E q \in HelmRequests :
         /\ q = HelmRequest("rollback", 0, picked.of) /\ q.what = "rollback" /\ q.ctx = chosen
         /\ q.n = pane.mount /\ q.meant = picked.of /\ q.state = "open"
    BY <2>0, <2>1, RequestTells
  <2> QED BY <1>2, <2>2
<1>4. /\ pane' \in Panes /\ pane'.mount = pane.mount /\ pane'.least = pane.least
      /\ pane'.valuesId = pane.valuesId /\ pane'.wanted = pane.wanted
      /\ pane'.values = pane.values /\ pane'.history = pane.history
  BY <1>1, <1>2 DEF Panes
<1>5. AsksOK' /\ helmAsks' \in Seq(HelmRequests)
  <2>1. \A r \in HelmRequests : AskOK(r) => AskOK(r)'
    BY <1>1, <1>2, <1>4, AskKept
  <2>2. Misplaced' \/ q.meant = q.ctx
    BY <1>2, <1>3, PaneShows DEF ServedElsewhere, Misplaced
  <2>3. AskOK(q)'
    <3>1. q.n <= pane'.mount
      BY <1>1, <1>3, <1>4
    <3> QED BY <1>2, <1>3, <2>2, <3>1 DEF AskOK, OfPane
  <2> QED BY <1>1, <1>3, <2>1, <2>3, AsksAppend
<1>6. HistoryOK'
  <2> SUFFICES ASSUME ~Mixed' PROVE HistoryOK'
    BY DEF HistoryOK
  <2>1. ~Mixed /\ ~pane.rolling
    BY <1>2 DEF Mixed
  <2>2. /\ NoneOf(helmAsks, "history", {pane.mount}) /\ NoneOf(helmAsks, "rollback", {pane.mount})
        /\ Single(helmAsks, "history", {pane.mount})
        /\ released[chosen] = 0 \/ pane.least <= released[chosen]
        /\ pane.least <= pane.history.rev
    BY <1>1, <1>2, <2>1 DEF HistoryOK
  <2>3. /\ NoneOf(helmAsks', "history", {pane.mount})
        /\ Single(helmAsks', "history", {pane.mount})
        /\ Single(helmAsks', "rollback", {pane.mount})
    BY <1>1, <1>3, <2>2, SingleAppend
  <2>4. pane'.rolling
    BY <1>1, <1>2 DEF Panes
  <2> QED BY <1>2, <1>4, <2>1, <2>2, <2>3, <2>4 DEF HistoryOK
<1>7. /\ Single(helmAsks, "uninstall", Nat) => Single(helmAsks', "uninstall", Nat)
      /\ NoneOf(helmAsks, "uninstall", Nat) => NoneOf(helmAsks', "uninstall", Nat)
  BY <1>1, <1>3, SingleAppend
<1>8. /\ pane'.values.state \in {"shown", "error"} => pane'.wanted
      /\ \/ ServedElsewhere'
         \/ /\ pane'.history.state = "shown" => pane'.history.of = chosen
            /\ pane'.values.state = "shown" => pane'.values.of = chosen
  BY <1>2, <1>4, PaneShows DEF ServedElsewhere
<1> QED BY <1>2, <1>4, <1>5, <1>6, <1>7, <1>8, DetailKeeps

\* A rollback is answered: the detail remembers the revision, and loads its history.
LEMMA RolledBackKeeps ==
  ASSUME ReleasesInv, NEW i \in DOMAIN helmAsks, RolledBack(i)
  PROVE  ReleasesInv'
<1> DEFINE r == helmAsks[i]
<1>1. /\ HelmTypes /\ AsksOK /\ HistoryOK
      /\ pane \in Panes /\ pane.mount \in Nat /\ pane.valuesId \in Nat
      /\ helmAsks \in Seq(HelmRequests) /\ r \in HelmRequests /\ AskOK(r)
  BY ReleaseFacts
<1>2. /\ picked # NoHelm /\ r.n = pane.mount /\ r.what = "rollback"
      /\ UNCHANGED <<released, chosen, serving, leaving, helmList, picked, doomed, removing,
                     helmDeeds, helmOdd, helmAsked, helmTurns>>
      /\ \/ pane' = [pane EXCEPT !.rolling = FALSE] /\ helmAsks' = HelmWithout(i)
         \/ /\ r.state = "ok"
            /\ pane' = [pane EXCEPT !.target = FALSE, !.rolling = FALSE, !.least = r.rev,
                                    !.history.state = "loading"]
            /\ helmAsks' = Append(HelmWithout(i), HelmRequest("history", 0, NoHelm))
  BY DEF RolledBack, ToPane, HelmAnswer, AfterRollback
<1> HIDE DEF r
<1>3. /\ pane' \in Panes /\ pane'.mount = pane.mount
      /\ pane'.valuesId = pane.valuesId /\ pane'.wanted = pane.wanted
      /\ pane'.values = pane.values /\ pane'.rolling = FALSE
  <2>1. r.rev \in Nat
    BY <1>1 DEF HelmRequests
  <2>2. [pane.history EXCEPT !.state = "loading"] \in Displays({"none", "loading", "shown"})
    BY <1>1 DEF Panes, Displays
  <2> QED BY <1>1, <1>2, <2>1, <2>2 DEF Panes
<1>4. ~Mixed =>
        /\ Single(helmAsks, "history", {pane.mount}) /\ NoneOf(helmAsks, "history", {pane.mount})
        /\ Single(helmAsks, "rollback", {pane.mount})
        /\ released[chosen] = 0 \/ pane.least <= released[chosen]
        /\ pane.history.state = "shown" => pane.least <= pane.history.rev
  <2>1. ASSUME ~Mixed PROVE pane.history.state = "shown"
    BY <1>1, <1>2, <2>1 DEF HistoryOK, NoneOf, r
  <2> QED BY <1>1, <1>2, <2>1 DEF HistoryOK
<1>5. ~Mixed =>
        /\ Single(HelmWithout(i), "history", {pane.mount})
        /\ NoneOf(HelmWithout(i), "history", {pane.mount})
        /\ NoneOf(HelmWithout(i), "rollback", {pane.mount})
        /\ Single(HelmWithout(i), "rollback", {pane.mount})
  BY <1>1, <1>2, <1>4, SingleWithout DEF r
<1>6. /\ Single(helmAsks, "uninstall", Nat) => Single(HelmWithout(i), "uninstall", Nat)
      /\ NoneOf(helmAsks, "uninstall", Nat) => NoneOf(HelmWithout(i), "uninstall", Nat)
  BY <1>1, SingleWithout
<1>7. CASE pane' = [pane EXCEPT !.rolling = FALSE] /\ helmAsks' = HelmWithout(i)
  <2>1. pane'.least = pane.least /\ pane'.history = pane.history
    BY <1>1, <1>7 DEF Panes
  <2>2. AsksOK' /\ helmAsks' \in Seq(HelmRequests)
    <3>1. \A p \in HelmRequests : AskOK(p) => AskOK(p)'
      BY <1>1, <1>2, <1>3, <2>1, AskKept
    <3> QED BY <1>1, <1>7, <3>1, AsksDrop
  <2>3. HistoryOK'
    <3> SUFFICES ASSUME ~Mixed PROVE HistoryOK'
      BY <1>2 DEF HistoryOK, Mixed
    <3> QED BY <1>2, <1>3, <1>4, <1>5, <1>7, <2>1 DEF HistoryOK
  <2>4. /\ pane'.values.state \in {"shown", "error"} => pane'.wanted
        /\ \/ ServedElsewhere'
           \/ /\ pane'.history.state = "shown" => pane'.history.of = chosen
              /\ pane'.values.state = "shown" => pane'.values.of = chosen
    BY <1>2, <1>3, <2>1, PaneShows DEF ServedElsewhere
  <2> QED BY <1>2, <1>3, <1>6, <1>7, <2>2, <2>3, <2>4, DetailKeeps
<1>8. CASE /\ r.state = "ok"
           /\ pane' = [pane EXCEPT !.target = FALSE, !.rolling = FALSE, !.least = r.rev,
                                   !.history.state = "loading"]
           /\ helmAsks' = Append(HelmWithout(i), HelmRequest("history", 0, NoHelm))
  <2>1. pane'.least = r.rev /\ pane'.history.state = "loading"
    BY <1>1, <1>8 DEF Panes, Displays
  <2>2. PICK q \in HelmRequests :
          /\ helmAsks' = Append(HelmWithout(i), q) /\ q.what = "history" /\ q.n = pane.mount
          /\ q.state = "open" /\ q.ctx = chosen
    <3>0. HelmTypes
      BY <1>1
    <3>1. "history" \in RequestKinds /\ 0 \in Nat /\ NoHelm \in HelmContexts \cup {NoHelm}
      BY DEF RequestKinds
    <3>2. \E q \in HelmRequests :
           /\ q = HelmRequest("history", 0, NoHelm) /\ q.what = "history" /\ q.ctx = chosen
           /\ q.n = pane.mount /\ q.state = "open"
      BY <3>0, <3>1, RequestTells
    <3> QED BY <1>8, <3>2
  <2>3. AsksOK' /\ helmAsks' \in Seq(HelmRequests)
    <3>1. ASSUME NEW p \in HelmRequests, AskOK(p), StillAsked(p) PROVE AskOK(p)'
      <4>1. ~Mixed /\ p.n = pane.mount => p.what # "history"
        BY <1>4, <3>1 DEF StillAsked, NoneOf
      <4>2. UNCHANGED <<chosen, released, picked>> /\ (Mixed <=> Mixed')
            /\ (ServedElsewhere <=> ServedElsewhere') /\ (Misplaced <=> Misplaced')
        BY <1>2 DEF Mixed, ServedElsewhere, Misplaced
      <4> QED BY <1>2, <1>3, <3>1, <4>1, <4>2 DEF AskOK, OfPane
    <3>2. AskOK(q)'
      BY <1>1, <1>2, <1>3, <2>2 DEF AskOK, OfPane
    <3> QED BY <1>1, <2>2, <3>1, <3>2, AsksSwap
  <2>4. HelmWithout(i) \in Seq(HelmRequests)
    BY <1>1, WithoutTells
  <2>5. HistoryOK'
    <3> SUFFICES ASSUME ~Mixed PROVE HistoryOK'
      BY <1>2 DEF HistoryOK, Mixed
    <3>1. released[chosen] = 0 \/ r.rev <= released[chosen]
      BY <1>1, <1>2, <1>8 DEF AskOK, OfPane
    <3>2. /\ Single(helmAsks', "history", {pane.mount})
          /\ NoneOf(helmAsks', "rollback", {pane.mount})
          /\ Single(helmAsks', "rollback", {pane.mount})
      BY <1>5, <2>2, <2>4, SingleAppend
    <3> QED BY <1>2, <1>3, <2>1, <3>1, <3>2 DEF HistoryOK
  <2>6. /\ Single(helmAsks, "uninstall", Nat) => Single(helmAsks', "uninstall", Nat)
        /\ NoneOf(helmAsks, "uninstall", Nat) => NoneOf(helmAsks', "uninstall", Nat)
    BY <1>6, <2>2, <2>4, SingleAppend
  <2>7. /\ pane'.values.state \in {"shown", "error"} => pane'.wanted
        /\ \/ ServedElsewhere'
           \/ /\ pane'.history.state = "shown" => pane'.history.of = chosen
              /\ pane'.values.state = "shown" => pane'.values.of = chosen
    BY <1>2, <1>3, <2>1, PaneShows DEF ServedElsewhere
  <2> QED BY <1>2, <1>3, <2>3, <2>5, <2>6, <2>7, DetailKeeps
<1> QED BY <1>2, <1>7, <1>8

----------------------------------------------------------------------------
\* The Helm panel shows, and acts on, the releases of the context selected; its detail
\* is that of the row, with a history not older than what it has rolled back to, the
\* dialog of the values does not come back, and one release is uninstalled at a time.
THEOREM ReleasesHold == HelmSpec => []HelmPanelTrue
<1>1. HelmInit => ReleasesInv
  BY ReleasesStart
<1>2. ReleasesInv /\ [HelmNext]_helmVars => ReleasesInv'
  <2> SUFFICES ASSUME ReleasesInv, [HelmNext]_helmVars PROVE ReleasesInv'
    OBVIOUS
  <2>1. CASE UNCHANGED helmVars
    <3>1. /\ UNCHANGED <<released, chosen, serving, leaving, helmList, picked, pane, doomed,
                         removing, helmAsks, helmDeeds, helmOdd, helmAsked, helmTurns>>
          /\ HelmTypes /\ AskedOK /\ AsksOK /\ RemovalOK /\ HistoryOK /\ PaneOK /\ ReleaseOK
          /\ pane.valuesId \in Nat
      BY <2>1, ReleaseFacts DEF helmVars
    <3>2. AsksOK'
      BY <3>1, AskKept, AsksStay
    <3>3. RemovalOK' /\ HistoryOK'
      BY <3>1, RemovalKept, HistoryKept
    <3>4. HelmTypes' /\ AskedOK' /\ PaneOK'
      BY <3>1 DEF HelmTypes, AskedOK, PaneOK
    <3>5. ReleaseOK'
      BY <3>1 DEF ReleaseOK, ShownOfContext, DoneWhereMeant, DetailOfRow, Misplaced
    <3> QED BY <3>2, <3>3, <3>4, <3>5 DEF ReleasesInv
  <2>2. CASE SwitchedBack \/ \E c \in HelmContexts : ChooseContext(c)
    BY <2>2, SwitchKeeps
  <2>3. CASE SidecarFollows \/ SwitchEnds \/ AskUninstall \/ AbortUninstall
    BY <2>3, QuietKeeps
  <2>4. CASE RefreshReleases \/ PickRelease \/ ConfirmUninstall
    BY <2>4, RefreshKeeps, PickKeeps, ConfirmKeeps
  <2>5. CASE AskHistory \/ AskValues \/ CloseValues \/ AskRollback \/ RollBack
    BY <2>5, HistoryAskKeeps, ValuesAskKeeps, QuestionKeeps, RollBackKeeps
  <2>6. ASSUME NEW i \in DOMAIN helmAsks,
               HelmServed(i) \/ Listed(i) \/ Uninstalled(i) \/ HistoryCame(i) \/ ValuesCame(i)
                 \/ RolledBack(i) \/ TooLate(i)
        PROVE  ReleasesInv'
    BY <2>6, ServesKeeps, ListedKeeps, UninstalledKeeps, HistoryCameKeeps, ValuesCameKeeps,
       RolledBackKeeps, LateKeeps
  <2> QED BY <2>1, <2>2, <2>3, <2>4, <2>5, <2>6, Zenon DEF HelmNext
<1>3. ReleasesInv => HelmPanelTrue
  BY ReleasesInvTells
<1> QED BY <1>1, <1>2, <1>3, PTL DEF HelmSpec

(***************************************************************************)
(* Settings: what is written, shown and kept                               *)
(***************************************************************************)

\* No write has been lost to another, or to the disk.
Sure == ~overlapped /\ ~diskFailed

\* A message to the main process: a writer's read, that a write of its field follows.
Gets == [op: {"get"}, for: {"prod", "url"}, by: Nat, want: BOOLEAN]
\* A write of the whole.
Sets == [op: {"set"}, for: {"form", "prod", "url"}, by: Nat, value: SettingValues, base: Nat]
\* A panel's read.
FormLoads == [op: {"load"}, for: {"form"}, by: Nat]
\* A question which kubeconfig is used, or what its text is.
PathAsks == [op: {"kubeconfig", "path"}, for: {"editor", "path"}, by: Nat]
\* The order to use the default one.
Clears == [op: {"clear"}, for: {"path"}, by: Nat]
\* The text that is to be written, and then has been.
Manifests == [op: {"manifest"}, for: {"manifest"}, by: Nat, text: Texts]
\* What the main process is sent.
MainMessages == Gets \cup Sets \cup FormLoads \cup PathAsks \cup Clears \cup Manifests
\* The answers that carry the settings, as they were at a write:
Copies == {"got", "loaded", "saved"}
\* to a writer that will write,
Gots ==
  [op: {"got"}, for: {"prod", "url"}, by: Nat, want: BOOLEAN, value: SettingValues, base: Nat]
\* to a panel that reads, and to a writer that has written.
Reads ==
  [op: {"loaded", "saved"}, for: {"form", "prod", "url"}, by: Nat, value: SettingValues, base: Nat]
\* Which kubeconfig is used, and its text.
Answers == [op: {"kubeconfig", "path"}, for: {"editor", "path"}, by: Nat, path: Files,
            text: Texts]
\* The news that the path has changed.
Moveds == [op: {"moved"}, for: {"path"}, by: Nat, custom: BOOLEAN]
\* What the window is sent.
WindowMessages == Gots \cup Reads \cup Answers \cup Moveds \cup Manifests

\* What a message is, by what it asks for.
LEMMA MainKinds ==
  \A m \in MainMessages :
    /\ m.op \in {"get", "set", "load", "kubeconfig", "path", "clear", "manifest"}
    /\ m.by \in Nat
    /\ m.op = "get" => m \in Gets
    /\ m.op = "set" => m \in Sets
    /\ m.op = "load" => m \in FormLoads
    /\ m.op \in {"kubeconfig", "path"} => m \in PathAsks
    /\ m.op = "clear" => m \in Clears
    /\ m.op = "manifest" => m \in Manifests
BY DEF MainMessages, Gets, Sets, FormLoads, PathAsks, Clears, Manifests

\* What an answer is, by what it tells.
LEMMA WindowKinds ==
  \A r \in WindowMessages :
    /\ r.op \in {"got", "loaded", "saved", "kubeconfig", "path", "moved", "manifest"}
    /\ r.by \in Nat
    /\ r.op = "got" => r \in Gots
    /\ r.op \in {"loaded", "saved"} => r \in Reads
    /\ r.op \in {"kubeconfig", "path"} => r \in Answers
    /\ r.op = "moved" => r \in Moveds
    /\ r.op = "manifest" => r \in Manifests
BY DEF WindowMessages, Gots, Reads, Answers, Moveds, Manifests

(***************************************************************************)
(* Sequences                                                               *)

\* What a sequence is with one more element.
LEMMA Longer ==
  ASSUME NEW S, NEW s \in Seq(S), NEW x \in S
  PROVE  /\ Append(s, x) \in Seq(S) /\ Len(s) \in Nat /\ Len(Append(s, x)) = Len(s) + 1
         /\ DOMAIN s = 1..Len(s) /\ DOMAIN Append(s, x) = 1..(Len(s) + 1)
         /\ \A i \in 1..Len(s) : Append(s, x)[i] = s[i]
         /\ Append(s, x)[Len(s) + 1] = x
OBVIOUS

\* What is left of a sequence without its first element.
LEMMA Shorter ==
  ASSUME NEW S, NEW s \in Seq(S), s # <<>>
  PROVE  /\ Tail(s) \in Seq(S) /\ Len(s) \in Nat /\ Len(s) >= 1 /\ Len(Tail(s)) = Len(s) - 1
         /\ DOMAIN s = 1..Len(s) /\ DOMAIN Tail(s) = 1..(Len(s) - 1)
         /\ \A i \in 1..(Len(s) - 1) : Tail(s)[i] = s[i + 1]
         /\ Head(s) = s[1] /\ Head(s) \in S
OBVIOUS

\* What two sequences are together.
LEMMA Joined ==
  ASSUME NEW S, NEW s \in Seq(S), NEW t \in Seq(S)
  PROVE  /\ s \o t \in Seq(S) /\ Len(s) \in Nat /\ Len(t) \in Nat
         /\ DOMAIN s = 1..Len(s) /\ DOMAIN t = 1..Len(t)
         /\ DOMAIN (s \o t) = 1..(Len(s) + Len(t))
         /\ \A i \in 1..Len(s) : (s \o t)[i] = s[i]
         /\ \A i \in 1..Len(t) : (s \o t)[Len(s) + i] = t[i]
OBVIOUS

(***************************************************************************)
(* A field of the file                                                     *)

\* What would take a field from the value last asked for (A): a read that the write of
\* another value follows,
StrayGet(f, m, A) == m.op = "get" /\ m.for = f /\ m.want # A[f]
\* a write of another value that is based on the last one (w),
StraySet(f, m, A, w) == m.op = "set" /\ m.base = w /\ m.value[f] # A[f]
\* and the answer to such a read.
StrayGot(f, r, A, w) == r.op = "got" /\ r.base = w /\ r.for = f /\ r.want # A[f]
\* What brings a field to the value last asked for.
Brings(f, m, A) ==
  \/ m.op = "get" /\ m.for = f /\ m.want = A[f]
  \/ m.op = "set" /\ m.for \in {f, "form"} /\ f # "path" /\ m.value[f] = A[f]
  \/ m.op = "clear" /\ f = "path"
\* An answer that does.
BringsBack(f, r, A) == r.op = "got" /\ r.for = f /\ r.want = A[f]

\* No read on its way (M) is followed by another value.
NoStray(f, A, M) == \A i \in DOMAIN M : ~StrayGet(f, M[i], A)
\* The file (F) has the value last asked for, and nothing takes it away.
Settled(f, F, A, w, M, W) ==
  /\ F[f] = A[f] /\ NoStray(f, A, M)
  /\ \A i \in DOMAIN M : ~StraySet(f, M[i], A, w)
  /\ \A i \in DOMAIN W : ~StrayGot(f, W[i], A, w)
\* A message will bring it, and what is read after it takes nothing away.
AskedAgain(f, A, M) ==
  \E j \in DOMAIN M :
    Brings(f, M[j], A) /\ \A i \in DOMAIN M : StrayGet(f, M[i], A) => i < j
\* An answer (in W) will bring it.
AnsweredYet(f, A, w, M, W) ==
  /\ NoStray(f, A, M)
  /\ \E j \in DOMAIN W :
       BringsBack(f, W[j], A) /\ \A i \in DOMAIN W : StrayGot(f, W[i], A, w) => i < j
\* A field has the value last asked for, or will have it.
FieldOK(f, F, A, w, M, W) ==
  Settled(f, F, A, w, M, W) \/ AskedAgain(f, A, M) \/ AnsweredYet(f, A, w, M, W)

\* Further messages that do not take the value away leave the field to itself.
LEMMA FieldGrows ==
  ASSUME NEW f, NEW F, NEW A, NEW w, NEW M \in Seq(MainMessages), NEW W,
         NEW s \in Seq(MainMessages), FieldOK(f, F, A, w, M, W),
         \A i \in DOMAIN s : ~StrayGet(f, s[i], A),
         Settled(f, F, A, w, M, W) => \A i \in DOMAIN s : ~StraySet(f, s[i], A, w)
  PROVE  FieldOK(f, F, A, w, M \o s, W)
<1> DEFINE N == M \o s
<1>1. /\ Len(M) \in Nat /\ Len(s) \in Nat /\ DOMAIN M = 1..Len(M) /\ DOMAIN s = 1..Len(s)
      /\ DOMAIN N = 1..(Len(M) + Len(s))
      /\ \A i \in 1..Len(M) : N[i] = M[i]
      /\ \A i \in 1..Len(s) : N[Len(M) + i] = s[i]
  BY Joined
<1> HIDE DEF N
<1>2. \A i \in DOMAIN N : \/ i \in DOMAIN M /\ N[i] = M[i]
                          \/ \E k \in DOMAIN s : N[i] = s[k]
  <2> TAKE i \in DOMAIN N
  <2>1. CASE i <= Len(M)
    BY <1>1, <2>1
  <2>2. CASE ~(i <= Len(M))
    <3>1. i - Len(M) \in 1..Len(s) /\ Len(M) + (i - Len(M)) = i
      BY <1>1, <2>2
    <3> QED BY <1>1, <3>1
  <2> QED BY <2>1, <2>2
<1>3. \A i \in DOMAIN M : i \in DOMAIN N /\ N[i] = M[i]
  BY <1>1
<1>4. NoStray(f, A, M) => NoStray(f, A, N)
  BY <1>2 DEF NoStray
<1>5. CASE Settled(f, F, A, w, M, W)
  <2>1. \A i \in DOMAIN N : ~StraySet(f, N[i], A, w)
    BY <1>2, <1>5 DEF Settled
  <2>2. Settled(f, F, A, w, N, W)
    BY <1>4, <1>5, <2>1 DEF Settled
  <2> QED BY <2>2 DEF FieldOK, N
<1>6. CASE AskedAgain(f, A, M)
  <2>1. PICK j \in DOMAIN M :
          Brings(f, M[j], A) /\ \A i \in DOMAIN M : StrayGet(f, M[i], A) => i < j
    BY <1>6 DEF AskedAgain
  <2>2. \A i \in DOMAIN N : StrayGet(f, N[i], A) => i < j
    BY <1>2, <2>1
  <2>3. AskedAgain(f, A, N)
    BY <1>3, <2>1, <2>2 DEF AskedAgain
  <2> QED BY <2>3 DEF FieldOK, N
<1>7. CASE AnsweredYet(f, A, w, M, W)
  <2>1. AnsweredYet(f, A, w, N, W)
    BY <1>4, <1>7 DEF AnsweredYet
  <2> QED BY <2>1 DEF FieldOK, N
<1> QED BY <1>5, <1>6, <1>7 DEF FieldOK

\* A message that asks for a value brings it, whatever is on its way.
LEMMA FieldAsked ==
  ASSUME NEW f, NEW F, NEW A, NEW w, NEW M \in Seq(MainMessages), NEW W,
         NEW s \in Seq(MainMessages), s # <<>>, Brings(f, s[1], A),
         \A i \in DOMAIN s : i # 1 => ~StrayGet(f, s[i], A)
  PROVE  FieldOK(f, F, A, w, M \o s, W)
<1> DEFINE N == M \o s
<1>1. /\ Len(M) \in Nat /\ Len(s) \in Nat /\ DOMAIN M = 1..Len(M) /\ DOMAIN s = 1..Len(s)
      /\ DOMAIN N = 1..(Len(M) + Len(s))
      /\ \A i \in 1..Len(M) : N[i] = M[i]
      /\ \A i \in 1..Len(s) : N[Len(M) + i] = s[i]
  BY Joined
<1>2. Len(s) >= 1
  BY <1>1
<1> HIDE DEF N
<1>3. Len(M) + 1 \in DOMAIN N /\ N[Len(M) + 1] = s[1]
  BY <1>1, <1>2
<1>4. ~StrayGet(f, s[1], A)
  BY DEF Brings, StrayGet
<1>5. \A i \in DOMAIN N : StrayGet(f, N[i], A) => i < Len(M) + 1
  <2> SUFFICES ASSUME NEW i \in DOMAIN N, ~(i < Len(M) + 1) PROVE ~StrayGet(f, N[i], A)
    BY <1>1
  <2>1. i - Len(M) \in 1..Len(s) /\ Len(M) + (i - Len(M)) = i
    BY <1>1
  <2>2. N[i] = s[i - Len(M)]
    BY <1>1, <2>1
  <2> QED BY <1>1, <1>4, <2>1, <2>2
<1>6. AskedAgain(f, A, N)
  BY <1>3, <1>5 DEF AskedAgain
<1> QED BY <1>6 DEF FieldOK, N

\* An answer to a message that brings nothing takes no more away than the message.
LEMMA FieldTaken ==
  ASSUME NEW f, NEW F, NEW A, NEW w, NEW M \in Seq(MainMessages), M # <<>>,
         NEW W \in Seq(WindowMessages), NEW r \in WindowMessages,
         FieldOK(f, F, A, w, M, W), ~Brings(f, Head(M), A),
         StrayGot(f, r, A, w) => StrayGet(f, Head(M), A)
  PROVE  FieldOK(f, F, A, w, Tail(M), Append(W, r))
<1> DEFINE N == Tail(M)
           V == Append(W, r)
<1>1. /\ Len(M) \in Nat /\ Len(M) >= 1 /\ DOMAIN M = 1..Len(M) /\ DOMAIN N = 1..(Len(M) - 1)
      /\ \A i \in 1..(Len(M) - 1) : N[i] = M[i + 1]
      /\ Head(M) = M[1]
  BY Shorter
<1>2. /\ Len(W) \in Nat /\ DOMAIN W = 1..Len(W) /\ DOMAIN V = 1..(Len(W) + 1)
      /\ \A i \in 1..Len(W) : V[i] = W[i]
      /\ V[Len(W) + 1] = r
  BY Longer
<1> HIDE DEF N, V
<1>3. /\ 1 \in DOMAIN M
      /\ \A i \in DOMAIN N : i + 1 \in DOMAIN M /\ N[i] = M[i + 1]
      /\ \A i \in DOMAIN M : i # 1 => i - 1 \in DOMAIN N /\ N[i - 1] = M[i]
  BY <1>1
<1>4. /\ \A i \in DOMAIN W : i \in DOMAIN V /\ V[i] = W[i]
      /\ \A i \in DOMAIN V : (i \in DOMAIN W /\ V[i] = W[i]) \/ V[i] = r
  BY <1>2
<1>5. NoStray(f, A, M) => NoStray(f, A, N) /\ ~StrayGot(f, r, A, w)
  BY <1>1, <1>3 DEF NoStray
<1>6. CASE Settled(f, F, A, w, M, W)
  <2>1. /\ \A i \in DOMAIN N : ~StraySet(f, N[i], A, w)
        /\ \A i \in DOMAIN V : ~StrayGot(f, V[i], A, w)
    BY <1>3, <1>4, <1>5, <1>6 DEF Settled
  <2>2. Settled(f, F, A, w, N, V)
    BY <1>5, <1>6, <2>1 DEF Settled
  <2> QED BY <2>2 DEF FieldOK, N, V
<1>7. CASE AskedAgain(f, A, M)
  <2>1. PICK j \in DOMAIN M :
          Brings(f, M[j], A) /\ \A i \in DOMAIN M : StrayGet(f, M[i], A) => i < j
    BY <1>7 DEF AskedAgain
  <2>2. j - 1 \in DOMAIN N /\ N[j - 1] = M[j]
    BY <1>1, <1>3, <2>1
  <2>3. \A i \in DOMAIN N : StrayGet(f, N[i], A) => i + 1 < j
    BY <1>3, <2>1
  <2>4. \A i \in DOMAIN N : StrayGet(f, N[i], A) => i < j - 1
    BY <1>1, <2>3
  <2>5. AskedAgain(f, A, N)
    BY <2>1, <2>2, <2>4 DEF AskedAgain
  <2> QED BY <2>5 DEF FieldOK, N, V
<1>8. CASE AnsweredYet(f, A, w, M, W)
  <2>1. PICK j \in DOMAIN W :
          BringsBack(f, W[j], A) /\ \A i \in DOMAIN W : StrayGot(f, W[i], A, w) => i < j
    BY <1>8 DEF AnsweredYet
  <2>2. \A i \in DOMAIN V : StrayGot(f, V[i], A, w) => i < j
    BY <1>4, <1>5, <1>8, <2>1 DEF AnsweredYet
  <2>3. AnsweredYet(f, A, w, N, V)
    BY <1>4, <1>5, <1>8, <2>1, <2>2 DEF AnsweredYet
  <2> QED BY <2>3 DEF FieldOK, N, V
<1> QED BY <1>6, <1>7, <1>8 DEF FieldOK

\* The answer to a read that brings the value brings it.
LEMMA FieldAnswered ==
  ASSUME NEW f, NEW F, NEW A, NEW w, NEW M \in Seq(MainMessages), M # <<>>,
         NEW W \in Seq(WindowMessages), NEW r \in WindowMessages,
         FieldOK(f, F, A, w, M, W), Head(M).op = "get", BringsBack(f, r, A)
  PROVE  FieldOK(f, F, A, w, Tail(M), Append(W, r))
<1>1. CASE ~Brings(f, Head(M), A)
  <2>1. ~StrayGot(f, r, A, w)
    BY DEF BringsBack, StrayGot
  <2> QED BY <1>1, <2>1, FieldTaken
<1>2. CASE Brings(f, Head(M), A)
  <2> DEFINE N == Tail(M)
             V == Append(W, r)
  <2>1. /\ Len(M) \in Nat /\ Len(M) >= 1 /\ DOMAIN M = 1..Len(M) /\ DOMAIN N = 1..(Len(M) - 1)
        /\ \A i \in 1..(Len(M) - 1) : N[i] = M[i + 1]
        /\ Head(M) = M[1]
    BY Shorter
  <2>2. /\ Len(W) \in Nat /\ DOMAIN W = 1..Len(W) /\ DOMAIN V = 1..(Len(W) + 1)
        /\ \A i \in 1..Len(W) : V[i] = W[i]
        /\ V[Len(W) + 1] = r
    BY Longer
  <2> HIDE DEF N, V
  <2>3. /\ 1 \in DOMAIN M /\ \A i \in DOMAIN N : i + 1 \in DOMAIN M /\ N[i] = M[i + 1]
        /\ \A i \in DOMAIN M : i # 1 => i - 1 \in DOMAIN N /\ N[i - 1] = M[i]
    BY <2>1
  <2>4. /\ Len(W) + 1 \in DOMAIN V
        /\ \A i \in DOMAIN V : i < Len(W) + 1 \/ V[i] = r
    BY <2>2
  <2>5. \A i \in DOMAIN V : StrayGot(f, V[i], A, w) => i < Len(W) + 1
    BY <2>4 DEF BringsBack, StrayGot
  <2>6. NoStray(f, A, N) => AnsweredYet(f, A, w, N, V)
    BY <2>2, <2>4, <2>5 DEF AnsweredYet
  <2>7. CASE NoStray(f, A, M)
    <3>1. NoStray(f, A, N)
      BY <2>3, <2>7 DEF NoStray
    <3> QED BY <2>6, <3>1 DEF FieldOK, N, V
  <2>8. CASE AskedAgain(f, A, M)
    <3>1. PICK j \in DOMAIN M :
            Brings(f, M[j], A) /\ \A i \in DOMAIN M : StrayGet(f, M[i], A) => i < j
      BY <2>8 DEF AskedAgain
    <3>2. CASE j = 1
      <4>1. NoStray(f, A, N)
        BY <2>1, <2>3, <3>1, <3>2 DEF NoStray
      <4> QED BY <2>6, <4>1 DEF FieldOK, N, V
    <3>3. CASE j # 1
      <4>1. j - 1 \in DOMAIN N /\ N[j - 1] = M[j]
        BY <2>3, <3>1, <3>3
      <4>2. \A i \in DOMAIN N : StrayGet(f, N[i], A) => i + 1 < j
        BY <2>3, <3>1
      <4>3. \A i \in DOMAIN N : StrayGet(f, N[i], A) => i < j - 1
        BY <2>1, <4>2
      <4>4. AskedAgain(f, A, N)
        BY <3>1, <4>1, <4>3 DEF AskedAgain
      <4> QED BY <4>4 DEF FieldOK, N, V
    <3> QED BY <3>2, <3>3
  <2> QED BY <2>7, <2>8 DEF FieldOK, Settled, AnsweredYet
<1> QED BY <1>1, <1>2

\* What is sent and answered is based on a write so far (w).
Based(w, M, W) ==
  /\ \A i \in DOMAIN M : M[i].op = "set" => M[i].base \in 0..w
  /\ \A i \in DOMAIN W : W[i].op \in Copies => W[i].base \in 0..w

\* A write makes all that is on its way stale: it no longer takes anything away.
LEMMA FieldStale ==
  ASSUME NEW f, NEW F, NEW G, NEW A, NEW w \in Nat, NEW M \in Seq(MainMessages),
         NEW W \in Seq(WindowMessages), FieldOK(f, F, A, w, M, W), Based(w, M, W), G[f] = F[f]
  PROVE  FieldOK(f, G, A, w + 1, M, W)
<1>2. /\ \A i \in DOMAIN M : ~StraySet(f, M[i], A, w + 1)
      /\ \A i \in DOMAIN W : ~StrayGot(f, W[i], A, w + 1)
  <2>1. w + 1 \notin 0..w
    OBVIOUS
  <2> QED BY <2>1 DEF Based, StraySet, StrayGot, Copies
<1>3. Settled(f, F, A, w, M, W) => Settled(f, G, A, w + 1, M, W)
  BY <1>2 DEF Settled
<1>4. AnsweredYet(f, A, w, M, W) => AnsweredYet(f, A, w + 1, M, W)
  BY <1>2 DEF AnsweredYet
<1> QED BY <1>3, <1>4 DEF FieldOK

\* The message at the head is carried out in a write: a field that it was to bring, or
\* that was settled, has the value asked for.
LEMMA FieldWritten ==
  ASSUME NEW f, NEW F, NEW G, NEW A, NEW w \in Nat, NEW M \in Seq(MainMessages), M # <<>>,
         NEW W \in Seq(WindowMessages), FieldOK(f, F, A, w, M, W), Based(w, M, W),
         Head(M).op # "get",
         Settled(f, F, A, w, M, W) \/ Brings(f, Head(M), A) => G[f] = A[f]
  PROVE  FieldOK(f, G, A, w + 1, Tail(M), W)
<1> DEFINE N == Tail(M)
<1>1. /\ Len(M) \in Nat /\ Len(M) >= 1 /\ DOMAIN M = 1..Len(M) /\ DOMAIN N = 1..(Len(M) - 1)
      /\ \A i \in 1..(Len(M) - 1) : N[i] = M[i + 1]
      /\ Head(M) = M[1]
  BY Shorter
<1> HIDE DEF N
<1>2. /\ 1 \in DOMAIN M /\ \A i \in DOMAIN N : i + 1 \in DOMAIN M /\ N[i] = M[i + 1]
      /\ \A i \in DOMAIN M : i # 1 => i - 1 \in DOMAIN N /\ N[i - 1] = M[i]
  BY <1>1
<1>3. w + 1 \notin 0..w
  OBVIOUS
<1>4. /\ \A i \in DOMAIN N : ~StraySet(f, N[i], A, w + 1)
      /\ \A i \in DOMAIN W : ~StrayGot(f, W[i], A, w + 1)
  BY <1>2, <1>3 DEF Based, StraySet, StrayGot, Copies
<1>5. NoStray(f, A, M) => NoStray(f, A, N)
  BY <1>2 DEF NoStray
<1>6. CASE Settled(f, F, A, w, M, W)
  <2>1. Settled(f, G, A, w + 1, N, W)
    BY <1>4, <1>5, <1>6 DEF Settled
  <2> QED BY <2>1 DEF FieldOK, N
<1>7. CASE AskedAgain(f, A, M)
  <2>1. PICK j \in DOMAIN M :
          Brings(f, M[j], A) /\ \A i \in DOMAIN M : StrayGet(f, M[i], A) => i < j
    BY <1>7 DEF AskedAgain
  <2>2. CASE j = 1
    <3>1. NoStray(f, A, N)
      BY <1>1, <1>2, <2>1, <2>2 DEF NoStray
    <3>2. Settled(f, G, A, w + 1, N, W)
      BY <1>1, <1>4, <2>1, <2>2, <3>1 DEF Settled
    <3> QED BY <3>2 DEF FieldOK, N
  <2>3. CASE j # 1
    <3>1. j - 1 \in DOMAIN N /\ N[j - 1] = M[j]
      BY <1>2, <2>1, <2>3
    <3>2. \A i \in DOMAIN N : StrayGet(f, N[i], A) => i + 1 < j
      BY <1>2, <2>1
    <3>3. \A i \in DOMAIN N : StrayGet(f, N[i], A) => i < j - 1
      BY <1>1, <3>2
    <3>4. AskedAgain(f, A, N)
      BY <2>1, <3>1, <3>3 DEF AskedAgain
    <3> QED BY <3>4 DEF FieldOK, N
  <2> QED BY <2>2, <2>3
<1>8. CASE AnsweredYet(f, A, w, M, W)
  <2>1. AnsweredYet(f, A, w + 1, N, W)
    BY <1>4, <1>5, <1>8 DEF AnsweredYet
  <2> QED BY <2>1 DEF FieldOK, N
<1> QED BY <1>6, <1>7, <1>8 DEF FieldOK

\* Answers that are not to a writer's read have no part in it: when they are sent,
LEMMA FieldTold ==
  ASSUME NEW f, NEW F, NEW A, NEW w, NEW M, NEW W \in Seq(WindowMessages),
         NEW r \in WindowMessages, FieldOK(f, F, A, w, M, W), r.op # "got"
  PROVE  FieldOK(f, F, A, w, M, Append(W, r))
<1> DEFINE V == Append(W, r)
<1>1. /\ Len(W) \in Nat /\ DOMAIN W = 1..Len(W) /\ DOMAIN V = 1..(Len(W) + 1)
      /\ \A i \in 1..Len(W) : V[i] = W[i]
      /\ V[Len(W) + 1] = r
  BY Longer
<1> HIDE DEF V
<1>2. /\ \A i \in DOMAIN W : i \in DOMAIN V /\ V[i] = W[i]
      /\ \A i \in DOMAIN V : (i \in DOMAIN W /\ V[i] = W[i]) \/ V[i] = r
  BY <1>1
<1>3. ~StrayGot(f, r, A, w)
  BY DEF StrayGot
<1>4. Settled(f, F, A, w, M, W) => Settled(f, F, A, w, M, V)
  BY <1>2, <1>3 DEF Settled
<1>5. ASSUME AnsweredYet(f, A, w, M, W) PROVE AnsweredYet(f, A, w, M, V)
  <2>1. PICK j \in DOMAIN W :
          BringsBack(f, W[j], A) /\ \A i \in DOMAIN W : StrayGot(f, W[i], A, w) => i < j
    BY <1>5 DEF AnsweredYet
  <2>2. \A i \in DOMAIN V : StrayGot(f, V[i], A, w) => i < j
    BY <1>2, <1>3, <2>1
  <2> QED BY <1>2, <1>5, <2>1, <2>2 DEF AnsweredYet
<1> QED BY <1>4, <1>5 DEF FieldOK, V

\* and when they are taken.
LEMMA FieldHeard ==
  ASSUME NEW f, NEW F, NEW A, NEW w, NEW M, NEW W \in Seq(WindowMessages), W # <<>>,
         FieldOK(f, F, A, w, M, W), ~BringsBack(f, Head(W), A)
  PROVE  FieldOK(f, F, A, w, M, Tail(W))
<1> DEFINE V == Tail(W)
<1>1. /\ Len(W) \in Nat /\ Len(W) >= 1 /\ DOMAIN W = 1..Len(W) /\ DOMAIN V = 1..(Len(W) - 1)
      /\ \A i \in 1..(Len(W) - 1) : V[i] = W[i + 1]
      /\ Head(W) = W[1]
  BY Shorter
<1> HIDE DEF V
<1>2. /\ \A i \in DOMAIN V : i + 1 \in DOMAIN W /\ V[i] = W[i + 1]
      /\ \A i \in DOMAIN W : i # 1 => i - 1 \in DOMAIN V /\ V[i - 1] = W[i]
  BY <1>1
<1>3. Settled(f, F, A, w, M, W) => Settled(f, F, A, w, M, V)
  BY <1>2 DEF Settled
<1>4. ASSUME AnsweredYet(f, A, w, M, W) PROVE AnsweredYet(f, A, w, M, V)
  <2>1. PICK j \in DOMAIN W :
          BringsBack(f, W[j], A) /\ \A i \in DOMAIN W : StrayGot(f, W[i], A, w) => i < j
    BY <1>4 DEF AnsweredYet
  <2>2. j - 1 \in DOMAIN V /\ V[j - 1] = W[j]
    BY <1>1, <1>2, <2>1
  <2>3. \A i \in DOMAIN V : StrayGot(f, V[i], A, w) => i + 1 < j
    BY <1>2, <2>1
  <2>4. \A i \in DOMAIN V : StrayGot(f, V[i], A, w) => i < j - 1
    BY <1>1, <2>3
  <2> QED BY <1>4, <2>1, <2>2, <2>4 DEF AnsweredYet
<1> QED BY <1>3, <1>4 DEF FieldOK, V

\* A writer that hears the answer to its read (r) sends the whole as it was then, with its
\* field (m): that takes nothing away that the answer did not, and brings what it brings.
LEMMA FieldReturns ==
  ASSUME NEW f, NEW F, NEW A, NEW w, NEW M \in Seq(MainMessages),
         NEW W \in Seq(WindowMessages), W # <<>>, FieldOK(f, F, A, w, M, W),
         Head(W).op = "got", NEW m \in MainMessages, m.op = "set",
         StraySet(f, m, A, w) => StrayGot(f, Head(W), A, w) \/ F[f] # A[f],
         BringsBack(f, Head(W), A) => Brings(f, m, A)
  PROVE  FieldOK(f, F, A, w, M \o <<m>>, Tail(W))
<1>1. /\ <<m>> \in Seq(MainMessages) /\ DOMAIN <<m>> = {1} /\ <<m>>[1] = m /\ <<m>> # <<>>
      /\ ~StrayGet(f, m, A)
  BY DEF StrayGet
<1>2. CASE ~BringsBack(f, Head(W), A)
  <2>1. FieldOK(f, F, A, w, M, Tail(W))
    BY <1>2, FieldHeard
  <2>2. CASE Settled(f, F, A, w, M, W)
    <3>1. ~StraySet(f, m, A, w)
      <4>1. Head(W) = W[1] /\ 1 \in DOMAIN W
        BY Shorter
      <4> QED BY <2>2, <4>1 DEF Settled
    <3> QED BY <1>1, <2>1, <3>1, FieldGrows
  <2>3. CASE ~Settled(f, F, A, w, M, W)
    <3>1. PICK v \in {0, 1} : v # A[f]
      OBVIOUS
    <3> DEFINE G == [x \in {f} |-> v]
    <3>2. G[f] # A[f]
      BY <3>1
    <3> HIDE DEF G
    <3>3. FieldOK(f, G, A, w, M, W)
      BY <2>3 DEF FieldOK
    <3>4. FieldOK(f, G, A, w, M, Tail(W))
      BY <1>2, <3>3, FieldHeard
    <3>5. ~Settled(f, G, A, w, M, Tail(W))
      BY <3>2 DEF Settled
    <3>6. \A i \in DOMAIN <<m>> : ~StrayGet(f, <<m>>[i], A)
      BY <1>1
    <3>7. FieldOK(f, G, A, w, M \o <<m>>, Tail(W))
      BY <1>1, <3>4, <3>5, <3>6, FieldGrows
    <3>8. ~Settled(f, G, A, w, M \o <<m>>, Tail(W))
      BY <3>2 DEF Settled
    <3> QED BY <3>7, <3>8 DEF FieldOK
  <2> QED BY <2>2, <2>3
<1>3. CASE BringsBack(f, Head(W), A)
  <2>1. Brings(f, <<m>>[1], A)
    BY <1>1, <1>3
  <2> QED BY <1>1, <2>1, FieldAsked
<1> QED BY <1>2, <1>3

\* A field looks at its own values only.
LEMMA FieldSame ==
  ASSUME NEW f, NEW F, NEW G, NEW A, NEW B, NEW w, NEW M, NEW W, F[f] = G[f], A[f] = B[f]
  PROVE  /\ FieldOK(f, F, A, w, M, W) => FieldOK(f, G, B, w, M, W)
         /\ Settled(f, G, B, w, M, W) => Settled(f, F, A, w, M, W)
<1>1. Settled(f, G, B, w, M, W) <=> Settled(f, F, A, w, M, W)
  BY DEF Settled, NoStray, StrayGet, StraySet, StrayGot
<1>2. AskedAgain(f, A, M) => AskedAgain(f, B, M)
  BY DEF AskedAgain, Brings, StrayGet
<1>3. AnsweredYet(f, A, w, M, W) => AnsweredYet(f, B, w, M, W)
  BY DEF AnsweredYet, NoStray, BringsBack, StrayGet, StrayGot
<1> QED BY <1>1, <1>2, <1>3 DEF FieldOK

(***************************************************************************)
(* What is shown when all answers are taken                                *)

\* Among the answers (W) those of I put something on display, and those of R the right
\* thing: the last of them does, or what is on display is right (now) and they all do.
LastRight(I, R, now, W) ==
  \/ \E k \in DOMAIN W : W[k] \in I /\ \A i \in DOMAIN W : k <= i /\ W[i] \in I => W[i] \in R
  \/ now /\ \A i \in DOMAIN W : W[i] \in I => W[i] \in R

\* An answer that is sent: it displays nothing or the right thing,
LEMMA LastTold ==
  ASSUME NEW I, NEW R, NEW now, NEW W \in Seq(WindowMessages), NEW r \in WindowMessages,
         LastRight(I, R, now, W), r \in I => r \in R
  PROVE  LastRight(I, R, now, Append(W, r))
<1> DEFINE V == Append(W, r)
<1>1. /\ Len(W) \in Nat /\ DOMAIN W = 1..Len(W) /\ DOMAIN V = 1..(Len(W) + 1)
      /\ \A i \in 1..Len(W) : V[i] = W[i]
      /\ V[Len(W) + 1] = r
  BY Longer
<1> HIDE DEF V
<1>2. /\ \A i \in DOMAIN W : i \in DOMAIN V /\ V[i] = W[i]
      /\ \A i \in DOMAIN V : (i \in DOMAIN W /\ V[i] = W[i]) \/ V[i] = r
  BY <1>1
<1>3. CASE \E k \in DOMAIN W :
             W[k] \in I /\ \A i \in DOMAIN W : k <= i /\ W[i] \in I => W[i] \in R
  BY <1>2, <1>3 DEF LastRight, V
<1>4. CASE now /\ \A i \in DOMAIN W : W[i] \in I => W[i] \in R
  BY <1>2, <1>4 DEF LastRight, V
<1> QED BY <1>3, <1>4 DEF LastRight

\* or the right thing, whatever was displayed before it.
LEMMA LastItem ==
  ASSUME NEW I, NEW R, NEW now, NEW W \in Seq(WindowMessages), NEW r \in WindowMessages,
         r \in I, r \in R
  PROVE  LastRight(I, R, now, Append(W, r))
<1> DEFINE V == Append(W, r)
<1>1. /\ Len(W) \in Nat /\ DOMAIN V = 1..(Len(W) + 1) /\ V[Len(W) + 1] = r
  BY Longer
<1> HIDE DEF V
<1>2. \A i \in DOMAIN V : Len(W) + 1 <= i => i = Len(W) + 1
  BY <1>1
<1>3. Len(W) + 1 \in DOMAIN V
  BY <1>1
<1> QED BY <1>1, <1>2, <1>3 DEF LastRight, V

\* An answer that is taken is displayed, if it is to be.
LEMMA LastTaken ==
  ASSUME NEW I, NEW R, NEW now \in BOOLEAN, NEW then \in BOOLEAN,
         NEW W \in Seq(WindowMessages), W # <<>>, LastRight(I, R, now, W),
         Head(W) \in I /\ Head(W) \in R => then, Head(W) \notin I /\ now => then
  PROVE  LastRight(I, R, then, Tail(W))
<1> DEFINE V == Tail(W)
<1>1. /\ Len(W) \in Nat /\ Len(W) >= 1 /\ DOMAIN W = 1..Len(W) /\ DOMAIN V = 1..(Len(W) - 1)
      /\ \A i \in 1..(Len(W) - 1) : V[i] = W[i + 1]
      /\ Head(W) = W[1]
  BY Shorter
<1> HIDE DEF V
<1>2. /\ 1 \in DOMAIN W /\ \A i \in DOMAIN V : i + 1 \in DOMAIN W /\ V[i] = W[i + 1] /\ 1 <= i + 1
      /\ \A i \in DOMAIN W : i # 1 => i - 1 \in DOMAIN V /\ V[i - 1] = W[i]
  BY <1>1
<1>3. ASSUME NEW k \in DOMAIN W, W[k] \in I,
             \A i \in DOMAIN W : k <= i /\ W[i] \in I => W[i] \in R
      PROVE  LastRight(I, R, then, V)
  <2>1. CASE k = 1
    <3>1. then
      BY <1>1, <1>2, <1>3, <2>1
    <3>2. \A i \in DOMAIN V : V[i] \in I => V[i] \in R
      BY <1>2, <1>3, <2>1
    <3> QED BY <3>1, <3>2 DEF LastRight
  <2>2. CASE k # 1
    <3>1. k - 1 \in DOMAIN V /\ V[k - 1] = W[k]
      BY <1>2, <1>3, <2>2
    <3>2. \A i \in DOMAIN V : k - 1 <= i => k <= i + 1
      BY <1>1
    <3>3. \A i \in DOMAIN V : k - 1 <= i /\ V[i] \in I => V[i] \in R
      BY <1>2, <1>3, <3>2
    <3> QED BY <1>3, <3>1, <3>3 DEF LastRight
  <2> QED BY <2>1, <2>2
<1>4. ASSUME now, \A i \in DOMAIN W : W[i] \in I => W[i] \in R
      PROVE  LastRight(I, R, then, V)
  <2>1. then
    BY <1>1, <1>2, <1>4
  <2>2. \A i \in DOMAIN V : V[i] \in I => V[i] \in R
    BY <1>2, <1>4
  <2> QED BY <2>1, <2>2 DEF LastRight
<1> QED BY <1>3, <1>4 DEF LastRight, V

(***************************************************************************)
(* Copies of the file, and the path that has moved                         *)

\* A copy of the last write is the file (F).
CopiesOK(F, w, W) ==
  \A i \in DOMAIN W : W[i].op \in Copies /\ W[i].base = w => W[i].value = F
\* When the form was read after the last write (fo), or will be from an answer that comes
\* first, the news that the path has moved are those of the file (c).
NewsOK(c, w, fo, W) ==
  \A i \in DOMAIN W :
    /\ W[i].op = "moved"
    /\ \/ fo = w
       \/ \E j \in DOMAIN W : j < i /\ W[j].op \in {"loaded", "saved"} /\ W[j].base = w
    => W[i].custom = c

\* The news are sent as the file is,
LEMMA NewsTold ==
  ASSUME NEW c, NEW w, NEW fo, NEW W \in Seq(WindowMessages), NEW r \in WindowMessages,
         NewsOK(c, w, fo, W), r.op = "moved" => r.custom = c
  PROVE  NewsOK(c, w, fo, Append(W, r))
<1> DEFINE V == Append(W, r)
<1>1. /\ Len(W) \in Nat /\ DOMAIN W = 1..Len(W) /\ DOMAIN V = 1..(Len(W) + 1)
      /\ \A i \in 1..Len(W) : V[i] = W[i]
      /\ V[Len(W) + 1] = r
  BY Longer
<1> HIDE DEF V
<1>2. ASSUME NEW i \in DOMAIN V, V[i].op = "moved",
             \/ fo = w
             \/ \E j \in DOMAIN V : j < i /\ V[j].op \in {"loaded", "saved"} /\ V[j].base = w
      PROVE  V[i].custom = c
  <2>1. CASE i = Len(W) + 1
    BY <1>1, <1>2, <2>1
  <2>2. CASE i # Len(W) + 1
    <3>1. /\ i \in DOMAIN W /\ V[i] = W[i]
          /\ \A j \in DOMAIN V : j < i => j \in DOMAIN W /\ V[j] = W[j]
      BY <1>1, <2>2
    <3> QED BY <1>2, <3>1 DEF NewsOK
  <2> QED BY <2>1, <2>2
<1> QED BY <1>2 DEF NewsOK, V

\* and a form that is read from an answer is read before the news after it.
LEMMA NewsTaken ==
  ASSUME NEW c, NEW w, NEW fo, NEW fn, NEW W \in Seq(WindowMessages), W # <<>>,
         NewsOK(c, w, fo, W),
         fn = w => fo = w \/ (Head(W).op \in {"loaded", "saved"} /\ Head(W).base = w)
  PROVE  NewsOK(c, w, fn, Tail(W))
<1> DEFINE V == Tail(W)
<1>1. /\ Len(W) \in Nat /\ Len(W) >= 1 /\ DOMAIN W = 1..Len(W) /\ DOMAIN V = 1..(Len(W) - 1)
      /\ \A i \in 1..(Len(W) - 1) : V[i] = W[i + 1]
      /\ Head(W) = W[1]
  BY Shorter
<1> HIDE DEF V
<1>2. ASSUME NEW i \in DOMAIN V, V[i].op = "moved",
             \/ fn = w
             \/ \E j \in DOMAIN V : j < i /\ V[j].op \in {"loaded", "saved"} /\ V[j].base = w
      PROVE  V[i].custom = c
  <2>1. /\ i + 1 \in DOMAIN W /\ V[i] = W[i + 1] /\ 1 \in DOMAIN W /\ 1 < i + 1
        /\ \A j \in DOMAIN V : j < i => j + 1 \in DOMAIN W /\ V[j] = W[j + 1] /\ j + 1 < i + 1
    BY <1>1
  <2>2. \/ fo = w
        \/ \E j \in DOMAIN W : j < i + 1 /\ W[j].op \in {"loaded", "saved"} /\ W[j].base = w
    BY <1>1, <1>2, <2>1
  <2> QED BY <1>2, <2>1, <2>2 DEF NewsOK
<1> QED BY <1>2 DEF NewsOK, V

\* A write makes copies and news of those before it.
LEMMA CopiesStale ==
  ASSUME NEW F, NEW c, NEW w \in Nat, NEW fo \in 0..w, NEW M, NEW W, Based(w, M, W)
  PROVE  CopiesOK(F, w + 1, W) /\ NewsOK(c, w + 1, fo, W) /\ Based(w + 1, M, W)
<1>1. w + 1 \notin 0..w /\ fo # w + 1
  OBVIOUS
<1>2. /\ \A i \in DOMAIN W : W[i].op \in Copies => W[i].base # w + 1
      /\ \A i \in DOMAIN W : W[i].op \in {"loaded", "saved"} => W[i].base # w + 1
  BY <1>1 DEF Based, Copies
<1>3. CopiesOK(F, w + 1, W)
  BY <1>2 DEF CopiesOK
<1>4. NewsOK(c, w + 1, fo, W)
  BY <1>1, <1>2 DEF NewsOK
<1>5. \A n \in 0..w : n \in 0..(w + 1)
  OBVIOUS
<1>6. Based(w + 1, M, W)
  BY <1>5 DEF Based
<1> QED BY <1>3, <1>4, <1>6

(***************************************************************************)
(* The invariant                                                           *)

\* The types of the settings and of the panel; a form was read from a write so far.
SettingTypes ==
  /\ file \in SettingValues /\ askedFor \in SettingValues /\ form \in SettingValues
  /\ store \in [{"panels", "prod"} -> BOOLEAN] /\ edited \subseteq {"panels", "url"}
  /\ writes \in Nat \ {0} /\ formOf \in 0..writes
  /\ opens \in Nat /\ front \in 0..opens /\ acts \in 0..MaxActs
  /\ moving \in [step: {"no", "dialog", "askedFor", "selecting", "clearing"}, by: 0..opens]
  /\ text \in [Files -> Texts] /\ editor \in [original: Texts, content: Texts]
  /\ shownPath \in Files
  /\ overlapped \in BOOLEAN /\ diskFailed \in BOOLEAN /\ startFailed \in BOOLEAN
  /\ moved \in BOOLEAN
\* Messages are well formed, and based on a write so far.
MessagesOK ==
  /\ toMain \in Seq(MainMessages) /\ toWindow \in Seq(WindowMessages)
  /\ Based(writes, toMain, toWindow)

\* Every field has the value last asked for, or will have it.
FieldsOK ==
  Sure => \A f \in Fields : FieldOK(f, file, askedFor, writes, toMain, toWindow)
\* What was read of the file after its last write is the file, and what is heard of its
\* path then.
ReadsOK ==
  Sure => /\ CopiesOK(file, writes, toWindow)
          /\ NewsOK(file["path"], writes, formOf, toWindow)
\* A form that was read after the last write is the file, but for what was edited or asked for.
FormOK ==
  Sure /\ front # Closed /\ formOf = writes =>
    \A f \in Fields : \/ form[f] = file[f] \/ f \in edited
                      \/ f \in {"panels", "url"} /\ form[f] = askedFor[f]

\* One message at most clears the path, and how far a change of it is.
MovingOK ==
  /\ \A i \in DOMAIN toMain : toMain[i].op = "clear" => moving.step = "askedFor"
  /\ moving.step = "selecting" => askedFor["path"] = TRUE
  /\ moving.step \in {"askedFor", "clearing"} => askedFor["path"] = FALSE
  /\ \A i \in DOMAIN toMain, j \in DOMAIN toMain :
       toMain[i].op = "clear" /\ toMain[j].op = "clear" => i = j

\* A form that is being saved with a value of "panels".
FormSet(m, p) == m.op = "set" /\ m.for = "form" /\ m.value["panels"] = p
\* The answers that set the store's copy,
StoreItems == {r \in WindowMessages : r.op = "saved" /\ r.for = "form"}
\* and those that set it to a value.
StoreRights(p) == {r \in WindowMessages : r.value["panels"] = p}
\* The store has what was last asked for, or will have it.
StoreOK ==
  /\ store["prod"] = askedFor["prod"]
  /\ Sure => \/ \E i \in DOMAIN toMain : FormSet(toMain[i], askedFor["panels"])
             \/ LastRight(StoreItems, StoreRights(askedFor["panels"]),
                          store["panels"] = askedFor["panels"], toWindow)

\* Unless the path has moved, everything is of the default kubeconfig: here,
ApartHere ==
  /\ file["path"] = FALSE /\ form["path"] = FALSE
  /\ moving.step \in {"no", "dialog", "askedFor"}
  /\ \A f \in Files : text[f].from = f
  /\ editor.original.from = "default" /\ editor.content.from = "default"
\* on its way to the main process,
ApartMain(M) ==
  \A i \in DOMAIN M :
    /\ M[i].op = "set" => M[i].value["path"] = FALSE
    /\ M[i].op = "manifest" => M[i].text.from = "default"
\* on its way to the window,
ApartWindow(W) ==
  \A i \in DOMAIN W :
    /\ W[i].op # "moved"
    /\ W[i].op \in Copies => W[i].value["path"] = FALSE
    /\ W[i].op \in {"kubeconfig", "path", "manifest"} => W[i].text.from = "default"
\* and so all of it.
ApartOK == ~moved => ApartHere /\ ApartMain(toMain) /\ ApartWindow(toWindow)

\* The panel on screen is the one that changed the path last.
Mover == Sure /\ ~startFailed /\ front # Closed /\ front = moving.by /\ moving.step = "no"
\* The answers that set the form's path for a panel (p),
FormItems(p) == {r \in WindowMessages : r.op \in {"loaded", "moved"} /\ r.by = p}
\* and those that set it to a value.
FormRights(v) ==
  {r \in WindowMessages : IF r.op = "loaded" THEN r.value["path"] = v ELSE r.custom = v}
\* Its form names the path that is asked for, or will.
PathFormOK ==
  Mover => LastRight(FormItems(front), FormRights(askedFor["path"]),
                     form["path"] = askedFor["path"], toWindow)
\* The answers that show a panel the path,
PathItems(p) ==
  {r \in WindowMessages :
     r.by = p /\ (r.op \in {"kubeconfig", "path"} \/ (r.op = "moved" /\ r.custom = TRUE))}
\* and those that show a certain one.
PathRights(t) == {r \in WindowMessages : IF r.op = "moved" THEN t = "custom" ELSE r.path = t}
\* A panel has asked which path is used, or will.
AsksPath(p, M, W) ==
  \/ \E i \in DOMAIN M : M[i].op = "path" /\ M[i].by = p
  \/ \E i \in DOMAIN W : W[i].op = "moved" /\ W[i].custom = FALSE /\ W[i].by = p
\* It shows the path that is asked for, or will.
PathNameOK ==
  Mover => \/ AsksPath(front, toMain, toWindow)
           \/ LastRight(PathItems(front), PathRights(PathOf(askedFor)),
                        shownPath = PathOf(askedFor), toWindow)

\* The inductive invariant of the settings.
PrefInv ==
  /\ SettingTypes /\ MessagesOK /\ FieldsOK /\ ReadsOK /\ FormOK /\ MovingOK /\ StoreOK
  /\ ApartOK /\ PathFormOK /\ PathNameOK

\* While no path is being cleared the file's is the one asked for.
LEMMA PathSettled ==
  ASSUME PrefInv, Sure, moving.step # "askedFor"
  PROVE  /\ Settled("path", file, askedFor, writes, toMain, toWindow)
         /\ file["path"] = askedFor["path"] /\ PathOf(file) = PathOf(askedFor)
<1>1. /\ toMain \in Seq(MainMessages) /\ toWindow \in Seq(WindowMessages)
      /\ FieldOK("path", file, askedFor, writes, toMain, toWindow)
      /\ \A i \in DOMAIN toMain : toMain[i].op # "clear"
  BY DEF PrefInv, MessagesOK, FieldsOK, MovingOK, Fields
<1>2. \A i \in DOMAIN toMain : toMain[i] \in MainMessages
  BY <1>1
<1>3. \A i \in DOMAIN toWindow : toWindow[i] \in WindowMessages
  BY <1>1
<1>4. \A i \in DOMAIN toMain : ~Brings("path", toMain[i], askedFor)
  BY <1>1, <1>2, MainKinds DEF Brings, Gets
<1>5. \A i \in DOMAIN toWindow : ~BringsBack("path", toWindow[i], askedFor)
  BY <1>3, WindowKinds DEF BringsBack, Gots
<1>6. Settled("path", file, askedFor, writes, toMain, toWindow)
  BY <1>1, <1>4, <1>5 DEF FieldOK, AskedAgain, AnsweredYet
<1> QED BY <1>6 DEF Settled, PathOf

\* While no form is being saved with the value asked for, the file has it.
LEMMA PanelsSettled ==
  ASSUME PrefInv, Sure, \A i \in DOMAIN toMain : ~FormSet(toMain[i], askedFor["panels"])
  PROVE  Settled("panels", file, askedFor, writes, toMain, toWindow)
<1>1. /\ toMain \in Seq(MainMessages) /\ toWindow \in Seq(WindowMessages)
      /\ FieldOK("panels", file, askedFor, writes, toMain, toWindow)
  BY DEF PrefInv, MessagesOK, FieldsOK, Fields
<1>2. \A i \in DOMAIN toMain : toMain[i] \in MainMessages
  BY <1>1
<1>3. \A i \in DOMAIN toWindow : toWindow[i] \in WindowMessages
  BY <1>1
<1>4. \A i \in DOMAIN toMain : ~Brings("panels", toMain[i], askedFor)
  BY <1>2, MainKinds DEF Brings, Gets, Sets, FormSet
<1>5. \A i \in DOMAIN toWindow : ~BringsBack("panels", toWindow[i], askedFor)
  BY <1>3, WindowKinds DEF BringsBack, Gots
<1> QED BY <1>1, <1>4, <1>5 DEF FieldOK, AskedAgain, AnsweredYet

\* What the invariant says when nothing is on its way.
LEMMA PrefInvTells == PrefInv => PreferencesTrue
<1> SUFFICES ASSUME PrefInv PROVE PreferencesTrue
  OBVIOUS
<1>0. /\ SettingTypes /\ MessagesOK /\ FieldsOK /\ StoreOK /\ ApartOK /\ PathFormOK /\ PathNameOK
  BY DEF PrefInv
<1>1. PrefTypeOK
  <2>1. editor.original \in Texts /\ editor.content \in Texts
    BY <1>0 DEF SettingTypes
  <2>2. {overlapped, diskFailed, startFailed, moved} \subseteq BOOLEAN
    BY <1>0 DEF SettingTypes
  <2>3. writes \in Nat /\ formOf \in Nat
    BY <1>0 DEF SettingTypes
  <2> QED BY <1>0, <2>1, <2>2, <2>3 DEF SettingTypes, PrefTypeOK
<1>2. ASSUME AllSaved, Sure PROVE \A f \in Fields : file[f] = askedFor[f]
  <2>1. DOMAIN toMain = {} /\ DOMAIN toWindow = {}
    BY <1>2 DEF AllSaved
  <2>2. \A f \in Fields : Settled(f, file, askedFor, writes, toMain, toWindow)
    BY <1>0, <1>2, <2>1 DEF FieldsOK, FieldOK, AskedAgain, AnsweredYet
  <2> QED BY <2>2 DEF Settled
<1>3. SettingsKept
  <2>1. file \in [Fields -> BOOLEAN] /\ askedFor \in [Fields -> BOOLEAN]
    BY <1>0 DEF SettingTypes, SettingValues
  <2>2. (\A f \in Fields : file[f] = askedFor[f]) => file = askedFor
    BY <2>1
  <2> QED BY <1>2, <2>2 DEF SettingsKept, Sure
<1>4. StoreAgrees
  <2> SUFFICES ASSUME AllSaved, Sure PROVE \A f \in DOMAIN store : store[f] = file[f]
    BY DEF StoreAgrees, Sure
  <2>1. DOMAIN toMain = {} /\ DOMAIN toWindow = {}
    BY DEF AllSaved
  <2>2. store["panels"] = askedFor["panels"] /\ store["prod"] = askedFor["prod"]
    BY <1>0, <2>1 DEF StoreOK, LastRight
  <2>3. DOMAIN store = {"panels", "prod"} /\ "panels" \in Fields /\ "prod" \in Fields
    BY <1>0 DEF SettingTypes, Fields
  <2> QED BY <1>2, <2>2, <2>3
<1>5. ManifestsApart
  BY <1>0 DEF ManifestsApart, ApartOK, ApartHere
<1>6. PathShown
  <2> SUFFICES ASSUME AllSaved, front # Closed, front = moving.by, Sure, ~startFailed
               PROVE  shownPath = PathOf(file) /\ form["path"] = file["path"]
    BY DEF PathShown, Sure
  <2>1. DOMAIN toMain = {} /\ DOMAIN toWindow = {} /\ Mover /\ moving.step = "no"
    BY DEF AllSaved, Mover
  <2>2. shownPath = PathOf(askedFor) /\ form["path"] = askedFor["path"]
    BY <1>0, <2>1 DEF PathFormOK, PathNameOK, LastRight, AsksPath
  <2>3. file["path"] = askedFor["path"]
    BY <2>1, PathSettled
  <2> QED BY <2>2, <2>3 DEF PathOf
<1> QED BY <1>1, <1>3, <1>4, <1>5, <1>6 DEF PreferencesTrue

\* It holds at first.
LEMMA PrefStarts == PrefInit => PrefInv
<1> SUFFICES ASSUME PrefInit PROVE PrefInv
  OBVIOUS
<1> USE SettingsAssumption
<1>1. /\ file = Defaults /\ writes = 1 /\ askedFor = Defaults
      /\ store = [f \in {"panels", "prod"} |-> Defaults[f]]
      /\ front = 0 /\ opens = 0 /\ form = Defaults /\ formOf = 0 /\ edited = {}
      /\ toMain = <<>> /\ toWindow = <<>> /\ moving = [step |-> "no", by |-> 0]
      /\ text = [f \in Files |-> Fresh(f)]
      /\ editor = [original |-> Fresh("default"), content |-> Fresh("default")]
      /\ shownPath = "default" /\ acts = 0 /\ overlapped = FALSE /\ diskFailed = FALSE
      /\ startFailed = FALSE /\ moved = FALSE
  BY DEF PrefInit, Closed
<1>2. /\ Defaults \in SettingValues /\ Defaults["path"] = FALSE
      /\ \A f \in Files : Fresh(f) \in Texts /\ Fresh(f).from = f
      /\ Files = {"default", "custom"}
      /\ store \in [{"panels", "prod"} -> BOOLEAN] /\ store["prod"] = Defaults["prod"]
      /\ store["panels"] = Defaults["panels"]
  BY <1>1 DEF Defaults, SettingValues, Fields, Fresh, Texts, Files
<1>3. SettingTypes
  <2>1. text \in [Files -> Texts] /\ editor \in [original: Texts, content: Texts]
    BY <1>1, <1>2
  <2>2. moving \in [step: {"no", "dialog", "askedFor", "selecting", "clearing"}, by: 0..opens]
    BY <1>1
  <2>3. /\ writes \in Nat \ {0} /\ formOf \in 0..writes /\ opens \in Nat /\ front \in 0..opens
        /\ acts \in 0..MaxActs
    BY <1>1
  <2> QED BY <1>1, <1>2, <2>1, <2>2, <2>3 DEF SettingTypes
<1>4. DOMAIN toMain = {} /\ DOMAIN toWindow = {} /\ toMain \in Seq(MainMessages)
      /\ toWindow \in Seq(WindowMessages)
  BY <1>1
<1>5. MessagesOK /\ FieldsOK /\ ReadsOK
  BY <1>1, <1>4 DEF MessagesOK, Based, FieldsOK, FieldOK, Settled, NoStray, ReadsOK, CopiesOK,
                    NewsOK
<1>6. FormOK /\ MovingOK
  BY <1>1, <1>4 DEF FormOK, MovingOK, Closed
<1>7. StoreOK
  BY <1>1, <1>2, <1>4 DEF StoreOK, LastRight
<1>8. ApartOK
  <2>1. \A f \in Files : text[f].from = f
    BY <1>1, <1>2
  <2>2. editor.original.from = "default" /\ editor.content.from = "default"
    BY <1>1, <1>2
  <2> QED BY <1>1, <1>2, <1>4, <2>1, <2>2 DEF ApartOK, ApartHere, ApartMain, ApartWindow
<1>9. PathFormOK /\ PathNameOK
  BY <1>1 DEF PathFormOK, PathNameOK, Mover, Closed
<1> QED BY <1>3, <1>5, <1>6, <1>7, <1>8, <1>9 DEF PrefInv

\* An answer that is sent is based on a write so far, and a copy of the last is the file.
LEMMA BasedTold ==
  ASSUME NEW w, NEW M, NEW W \in Seq(WindowMessages), NEW r \in WindowMessages,
         Based(w, M, W), r.op \in Copies => r.base \in 0..w
  PROVE  Based(w, M, Append(W, r))
<1> DEFINE V == Append(W, r)
<1>1. \A i \in DOMAIN V : (i \in DOMAIN W /\ V[i] = W[i]) \/ V[i] = r
  <2>1. /\ Len(W) \in Nat /\ DOMAIN W = 1..Len(W) /\ DOMAIN V = 1..(Len(W) + 1)
        /\ \A i \in 1..Len(W) : V[i] = W[i]
        /\ V[Len(W) + 1] = r
    BY Longer
  <2> HIDE DEF V
  <2> QED BY <2>1
<1> HIDE DEF V
<1>2. Based(w, M, V)
  BY <1>1 DEF Based
<1> QED BY <1>2 DEF V

\* So it is of what was read.
LEMMA CopiesTold ==
  ASSUME NEW F, NEW w, NEW W \in Seq(WindowMessages), NEW r \in WindowMessages,
         CopiesOK(F, w, W), r.op \in Copies /\ r.base = w => r.value = F
  PROVE  CopiesOK(F, w, Append(W, r))
<1> DEFINE V == Append(W, r)
<1>1. \A i \in DOMAIN V : (i \in DOMAIN W /\ V[i] = W[i]) \/ V[i] = r
  <2>1. /\ Len(W) \in Nat /\ DOMAIN W = 1..Len(W) /\ DOMAIN V = 1..(Len(W) + 1)
        /\ \A i \in 1..Len(W) : V[i] = W[i]
        /\ V[Len(W) + 1] = r
    BY Longer
  <2> HIDE DEF V
  <2> QED BY <2>1
<1> HIDE DEF V
<1>2. CopiesOK(F, w, V)
  BY <1>1 DEF CopiesOK
<1> QED BY <1>2 DEF V

(***************************************************************************)
(* Messages that are sent                                                  *)

\* What two sequences have together, element by element.
LEMMA Parts ==
  ASSUME NEW S, NEW s \in Seq(S), NEW t \in Seq(S)
  PROVE  /\ s \o t \in Seq(S)
         /\ \A i \in DOMAIN s : i \in DOMAIN (s \o t) /\ (s \o t)[i] = s[i]
         /\ \A k \in DOMAIN t : \E i \in DOMAIN (s \o t) : (s \o t)[i] = t[k]
         /\ \A i \in DOMAIN (s \o t) : \/ i \in DOMAIN s /\ (s \o t)[i] = s[i]
                                       \/ \E k \in DOMAIN t : (s \o t)[i] = t[k]
<1> DEFINE n == s \o t
<1>1. /\ n \in Seq(S) /\ Len(s) \in Nat /\ Len(t) \in Nat
      /\ DOMAIN s = 1..Len(s) /\ DOMAIN t = 1..Len(t) /\ DOMAIN n = 1..(Len(s) + Len(t))
      /\ \A i \in 1..Len(s) : n[i] = s[i]
      /\ \A i \in 1..Len(t) : n[Len(s) + i] = t[i]
  BY Joined
<1> HIDE DEF n
<1>2. \A i \in DOMAIN s : i \in DOMAIN n /\ n[i] = s[i]
  BY <1>1
<1>3. \A k \in DOMAIN t : \E i \in DOMAIN n : n[i] = t[k]
  <2> TAKE k \in DOMAIN t
  <2>1. Len(s) + k \in DOMAIN n /\ n[Len(s) + k] = t[k]
    BY <1>1
  <2> QED BY <2>1
<1>4. \A i \in DOMAIN n : (i \in DOMAIN s /\ n[i] = s[i]) \/ \E k \in DOMAIN t : n[i] = t[k]
  <2> TAKE i \in DOMAIN n
  <2>1. CASE i <= Len(s)
    BY <1>1, <2>1
  <2>2. CASE ~(i <= Len(s))
    <3>1. i - Len(s) \in 1..Len(t) /\ Len(s) + (i - Len(s)) = i
      BY <1>1, <2>2
    <3> QED BY <1>1, <3>1
  <2> QED BY <2>1, <2>2
<1> QED BY <1>1, <1>2, <1>3, <1>4 DEF n

\* A sequence to which one element is appended, or none.
LEMMA Appended ==
  ASSUME NEW S, NEW s \in Seq(S)
  PROVE  s \o <<>> = s /\ \A x \in S : Append(s, x) = s \o <<x>> /\ <<x>> \in Seq(S)
OBVIOUS

\* What is left of a sequence, element by element.
LEMMA Rest ==
  ASSUME NEW S, NEW s \in Seq(S), s # <<>>
  PROVE  /\ Tail(s) \in Seq(S) /\ 1 \in DOMAIN s /\ Head(s) = s[1] /\ Head(s) \in S
         /\ \A i \in DOMAIN Tail(s) : i \in Nat /\ i + 1 \in DOMAIN s /\ Tail(s)[i] = s[i + 1]
         /\ \A i \in DOMAIN s : i # 1 => i - 1 \in DOMAIN Tail(s) /\ Tail(s)[i - 1] = s[i]
<1> DEFINE t == Tail(s)
<1>1. /\ t \in Seq(S) /\ Len(s) \in Nat /\ Len(s) >= 1
      /\ DOMAIN s = 1..Len(s) /\ DOMAIN t = 1..(Len(s) - 1)
      /\ \A i \in 1..(Len(s) - 1) : t[i] = s[i + 1]
      /\ Head(s) = s[1] /\ Head(s) \in S
  BY Shorter
<1> HIDE DEF t
<1>2. 1 \in DOMAIN s
  BY <1>1
<1>3. \A i \in DOMAIN t : i \in Nat /\ i + 1 \in DOMAIN s /\ t[i] = s[i + 1]
  BY <1>1
<1>4. \A i \in DOMAIN s : i # 1 => i - 1 \in DOMAIN t /\ t[i - 1] = s[i]
  <2> TAKE i \in DOMAIN s
  <2>1. i # 1 => i - 1 \in 1..(Len(s) - 1) /\ (i - 1) + 1 = i
    BY <1>1
  <2> QED BY <1>1, <2>1
<1> QED BY <1>1, <1>2, <1>3, <1>4 DEF t

\* Messages are well formed still when more are sent, and so is what was read of the file.
LEMMA SendsRead ==
  ASSUME PrefInv, NEW s \in Seq(MainMessages), toMain' = toMain \o s,
         \A i \in DOMAIN s : s[i].op = "set" => s[i].base \in 0..writes,
         UNCHANGED <<file, writes, toWindow, overlapped, diskFailed>>,
         formOf' \in {0, formOf}
  PROVE  MessagesOK' /\ ReadsOK'
<1>0. /\ toMain \in Seq(MainMessages) /\ toWindow \in Seq(WindowMessages)
      /\ Based(writes, toMain, toWindow) /\ ReadsOK /\ writes \in Nat \ {0}
  BY DEF PrefInv, MessagesOK, SettingTypes
<1> DEFINE n == toMain \o s
<1>1. /\ n \in Seq(MainMessages)
      /\ \A i \in DOMAIN n : \/ i \in DOMAIN toMain /\ n[i] = toMain[i]
                             \/ \E k \in DOMAIN s : n[i] = s[k]
  BY <1>0, Parts
<1> HIDE DEF n
<1>2. Based(writes, n, toWindow)
  BY <1>0, <1>1 DEF Based
<1>3. MessagesOK'
  BY <1>0, <1>1, <1>2 DEF MessagesOK, n
<1>4. formOf' = writes => formOf = writes
  BY <1>0
<1>5. \A c : NewsOK(c, writes, formOf, toWindow) => NewsOK(c, writes, formOf', toWindow)
  BY <1>4 DEF NewsOK
<1>6. Sure' => Sure
  BY DEF Sure
<1>7. ReadsOK'
  BY <1>0, <1>5, <1>6 DEF ReadsOK
<1> QED BY <1>3, <1>7

\* Where the change of the path is does not depend on them, unless one clears it.
LEMMA SendsMove ==
  ASSUME PrefInv, NEW s \in Seq(MainMessages), toMain' = toMain \o s,
         \A i \in DOMAIN s : s[i].op # "clear",
         moving'.step = moving.step, askedFor'["path"] = askedFor["path"]
  PROVE  MovingOK'
<1>0. toMain \in Seq(MainMessages) /\ MovingOK
  BY DEF PrefInv, MessagesOK
<1> DEFINE n == toMain \o s
<1>1. \A i \in DOMAIN n : \/ i \in DOMAIN toMain /\ n[i] = toMain[i]
                          \/ \E k \in DOMAIN s : n[i] = s[k]
  BY <1>0, Parts
<1> HIDE DEF n
<1>2. \A i \in DOMAIN n : n[i].op = "clear" => i \in DOMAIN toMain /\ n[i] = toMain[i]
  BY <1>1
<1> QED BY <1>0, <1>2 DEF MovingOK, n

\* Nor does what the panel shows of it,
LEMMA SendsShow ==
  ASSUME PrefInv, NEW s \in Seq(MainMessages), toMain' = toMain \o s, toWindow' = toWindow,
         Mover' => /\ Mover /\ front' = front
                   /\ form'["path"] = form["path"] /\ shownPath' = shownPath,
         askedFor'["path"] = askedFor["path"]
  PROVE  PathFormOK' /\ PathNameOK'
<1>0. toMain \in Seq(MainMessages) /\ PathFormOK /\ PathNameOK
  BY DEF PrefInv, MessagesOK
<1>1. PathOf(askedFor') = PathOf(askedFor)
  BY DEF PathOf
<1>2. PathFormOK'
  BY <1>0 DEF PathFormOK
<1> DEFINE n == toMain \o s
<1>3. \A i \in DOMAIN toMain : i \in DOMAIN n /\ n[i] = toMain[i]
  BY <1>0, Parts
<1> HIDE DEF n
<1>4. AsksPath(front, toMain, toWindow) => AsksPath(front, n, toWindow)
  BY <1>3 DEF AsksPath
<1>5. PathNameOK'
  BY <1>0, <1>1, <1>4 DEF PathNameOK, n
<1> QED BY <1>2, <1>5

\* nor the store.
LEMMA SendsStore ==
  ASSUME PrefInv, NEW s \in Seq(MainMessages), toMain' = toMain \o s, toWindow' = toWindow,
         UNCHANGED <<overlapped, diskFailed>>, store'["panels"] = store["panels"],
         store'["prod"] = askedFor'["prod"],
         \/ askedFor'["panels"] = askedFor["panels"]
         \/ \E k \in DOMAIN s : FormSet(s[k], askedFor'["panels"])
  PROVE  StoreOK'
<1>0. toMain \in Seq(MainMessages) /\ StoreOK
  BY DEF PrefInv, MessagesOK
<1> DEFINE n == toMain \o s
<1>1. /\ \A i \in DOMAIN toMain : i \in DOMAIN n /\ n[i] = toMain[i]
      /\ \A k \in DOMAIN s : \E i \in DOMAIN n : n[i] = s[k]
  BY <1>0, Parts
<1> HIDE DEF n
<1>2. Sure' => Sure
  BY DEF Sure
<1>3. CASE \E k \in DOMAIN s : FormSet(s[k], askedFor'["panels"])
  <2>1. \E i \in DOMAIN n : FormSet(n[i], askedFor'["panels"])
    BY <1>1, <1>3
  <2> QED BY <2>1 DEF StoreOK, n
<1>4. CASE askedFor'["panels"] = askedFor["panels"]
  <2>1. Sure /\ (\E i \in DOMAIN toMain : FormSet(toMain[i], askedFor["panels"]))
          => \E i \in DOMAIN n : FormSet(n[i], askedFor["panels"])
    BY <1>1
  <2> QED BY <1>0, <1>2, <1>4, <2>1 DEF StoreOK, n
<1> QED BY <1>3, <1>4

\* Everything is of the default kubeconfig still when what is sent is.
LEMMA SendsApart ==
  ASSUME PrefInv, NEW s \in Seq(MainMessages), toMain' = toMain \o s, toWindow' = toWindow,
         moved' = moved, ~moved => ApartHere' /\ ApartMain(s)
  PROVE  ApartOK'
<1>0. toMain \in Seq(MainMessages) /\ ApartOK
  BY DEF PrefInv, MessagesOK
<1> DEFINE n == toMain \o s
<1>1. \A i \in DOMAIN n : \/ i \in DOMAIN toMain /\ n[i] = toMain[i]
                          \/ \E k \in DOMAIN s : n[i] = s[k]
  BY <1>0, Parts
<1> HIDE DEF n
<1>2. ~moved => ApartMain(n)
  <2> SUFFICES ASSUME ~moved, NEW i \in DOMAIN n
               PROVE  /\ n[i].op = "set" => n[i].value["path"] = FALSE
                      /\ n[i].op = "manifest" => n[i].text.from = "default"
    BY DEF ApartMain
  <2>1. ApartMain(toMain) /\ ApartMain(s)
    BY <1>0 DEF ApartOK
  <2> QED BY <1>1, <2>1 DEF ApartMain
<1> QED BY <1>0, <1>2 DEF ApartOK, n

\* Messages that neither read for a writer nor write leave the fields to themselves.
LEMMA SendsQuiet ==
  ASSUME PrefInv, NEW s \in Seq(MainMessages), toMain' = toMain \o s,
         \A i \in DOMAIN s : s[i].op \notin {"get", "set"},
         UNCHANGED <<file, writes, askedFor, toWindow, overlapped, diskFailed>>
  PROVE  FieldsOK'
<1>0. toMain \in Seq(MainMessages) /\ FieldsOK
  BY DEF PrefInv, MessagesOK
<1>1. \A f : \A i \in DOMAIN s : /\ ~StrayGet(f, s[i], askedFor)
                               /\ ~StraySet(f, s[i], askedFor, writes)
  BY DEF StrayGet, StraySet
<1>2. Sure' => Sure
  BY DEF Sure
<1>3. ASSUME Sure, NEW f \in Fields
      PROVE  FieldOK(f, file, askedFor, writes, toMain \o s, toWindow)
  <2>1. FieldOK(f, file, askedFor, writes, toMain, toWindow)
    BY <1>0, <1>3 DEF FieldsOK
  <2> QED BY <1>0, <1>1, <2>1, FieldGrows
<1> QED BY <1>2, <1>3 DEF FieldsOK

\* A setting that is asked for will have the value asked for, and the others are as before.
LEMMA SendsAsk ==
  ASSUME PrefInv, NEW s \in Seq(MainMessages), s # <<>>, toMain' = toMain \o s,
         NEW g \in Fields, \A f \in Fields : f # g => askedFor'[f] = askedFor[f],
         Brings(g, s[1], askedFor'), s[1].op = "get" => s[1].for = g, s[1].op # "set",
         \A i \in DOMAIN s : i # 1 => s[i].op \notin {"get", "set"},
         UNCHANGED <<file, writes, toWindow, overlapped, diskFailed>>
  PROVE  FieldsOK'
<1>0. toMain \in Seq(MainMessages) /\ FieldsOK
  BY DEF PrefInv, MessagesOK
<1>2. Sure' => Sure
  BY DEF Sure
<1>3. FieldOK(g, file, askedFor', writes, toMain \o s, toWindow)
  <2>1. \A i \in DOMAIN s : i # 1 => ~StrayGet(g, s[i], askedFor')
    BY DEF StrayGet
  <2> QED BY <1>0, <2>1, FieldAsked
<1>4. ASSUME Sure, NEW f \in Fields, f # g
      PROVE  FieldOK(f, file, askedFor', writes, toMain \o s, toWindow)
  <2>1. FieldOK(f, file, askedFor, writes, toMain, toWindow)
    BY <1>0, <1>4 DEF FieldsOK
  <2>2. \A i \in DOMAIN s : ~StrayGet(f, s[i], askedFor) /\ ~StraySet(f, s[i], askedFor, writes)
    <3> TAKE i \in DOMAIN s
    <3>1. CASE i = 1
      BY <1>4, <3>1 DEF StrayGet, StraySet
    <3>2. CASE i # 1
      BY <3>2 DEF StrayGet, StraySet
    <3> QED BY <3>1, <3>2
  <2>3. FieldOK(f, file, askedFor, writes, toMain \o s, toWindow)
    BY <1>0, <2>1, <2>2, FieldGrows
  <2> QED BY <1>4, <2>3, FieldSame
<1> QED BY <1>2, <1>3, <1>4 DEF FieldsOK

(***************************************************************************)
(* What the user does                                                      *)

\* A panel that opens reads all.
LEMMA OpenPanelKeeps == PrefInv /\ OpenPanel => PrefInv'
<1> SUFFICES ASSUME PrefInv, OpenPanel PROVE PrefInv'
  OBVIOUS
<1>0. SettingTypes /\ ApartOK /\ StoreOK /\ MovingOK
  BY DEF PrefInv
<1>1. /\ opens' = opens + 1 /\ front' = opens + 1 /\ acts < MaxActs /\ acts' = acts + 1
      /\ form' = Defaults /\ formOf' = 0 /\ edited' = {}
      /\ editor' = [original |-> Fresh("default"), content |-> Fresh("default")]
      /\ shownPath' = "default" /\ toMain' = toMain \o ReadAll(opens + 1)
      /\ UNCHANGED <<file, writes, text, store, toWindow, moving, askedFor, overlapped, diskFailed,
                     startFailed, moved>>
  BY DEF OpenPanel, Act, fileVars, pastVars
<1>2. opens \in Nat /\ opens + 1 \in Nat /\ writes \in Nat \ {0} /\ MaxActs \in Nat
  BY <1>0, SettingsAssumption DEF SettingTypes
<1> DEFINE s == ReadAll(opens + 1)
<1>3. /\ s \in Seq(MainMessages)
      /\ \A i \in DOMAIN s : s[i].op \in {"load", "kubeconfig"}
  <2>1. [op |-> "load", for |-> "form", by |-> opens + 1] \in MainMessages
    BY <1>2 DEF MainMessages, FormLoads
  <2>2. [op |-> "kubeconfig", for |-> "editor", by |-> opens + 1] \in MainMessages
    BY <1>2 DEF MainMessages, PathAsks
  <2> QED BY <2>1, <2>2 DEF ReadAll
<1>4. toMain' = toMain \o s
  BY <1>1
<1> HIDE DEF s
<1>5. /\ Defaults \in SettingValues /\ Defaults["path"] = FALSE
      /\ Fresh("default") \in Texts /\ Fresh("default").from = "default" /\ "default" \in Files
  BY DEF Defaults, SettingValues, Fields, Fresh, Texts, Files
<1>6. SettingTypes'
  <2>1. editor' \in [original: Texts, content: Texts]
    BY <1>1, <1>5
  <2>2. moving' \in [step: {"no", "dialog", "askedFor", "selecting", "clearing"}, by: 0..opens']
    <3>1. moving.by \in 0..opens /\ 0..opens \subseteq 0..(opens + 1)
      BY <1>0, <1>2 DEF SettingTypes
    <3> QED BY <1>0, <1>1, <3>1 DEF SettingTypes
  <2>3. /\ formOf' \in 0..writes' /\ front' \in 0..opens' /\ acts' \in 0..MaxActs
        /\ opens' \in Nat
    BY <1>0, <1>1, <1>2 DEF SettingTypes
  <2>4. form' \in SettingValues /\ edited' \subseteq {"panels", "url"} /\ shownPath' \in Files
    BY <1>1, <1>5
  <2> QED BY <1>0, <1>1, <2>1, <2>2, <2>3, <2>4 DEF SettingTypes
<1>7. MessagesOK' /\ ReadsOK'
  BY <1>1, <1>3, <1>4, SendsRead
<1>8. FieldsOK'
  BY <1>1, <1>3, <1>4, SendsQuiet
<1>9. FormOK'
  BY <1>1, <1>2 DEF FormOK
<1>10. MovingOK'
  BY <1>1, <1>3, <1>4, SendsMove
<1>11. StoreOK'
  <2>1. store'["prod"] = askedFor'["prod"]
    BY <1>0, <1>1 DEF StoreOK
  <2> QED BY <1>1, <1>3, <1>4, <2>1, SendsStore
<1>12. ApartOK'
  <2>1. ~moved => ApartHere'
    BY <1>0, <1>1, <1>5 DEF ApartOK, ApartHere
  <2>2. ApartMain(s)
    BY <1>3 DEF ApartMain
  <2> QED BY <1>1, <1>3, <1>4, <2>1, <2>2, SendsApart
<1>13. ~Mover'
  <2>1. moving.by \in 0..opens
    BY <1>0 DEF SettingTypes
  <2>2. front' # moving.by
    BY <1>1, <1>2, <2>1
  <2> QED BY <1>1, <2>2 DEF Mover
<1>14. PathFormOK' /\ PathNameOK'
  BY <1>13 DEF PathFormOK, PathNameOK
<1> QED BY <1>6, <1>7, <1>8, <1>9, <1>10, <1>11, <1>12, <1>14 DEF PrefInv

\* What changes only what is on screen, or where the change of the path is.
LEMMA HereKeeps ==
  ASSUME PrefInv, SettingTypes', FormOK',
         UNCHANGED <<file, writes, text, store, toMain, toWindow, askedFor, formOf, overlapped,
                     diskFailed, startFailed, moved>>,
         moving'.step = moving.step \/ {moving.step, moving'.step} = {"no", "dialog"},
         ~moved => ApartHere',
         Mover' => Mover /\ front' = front /\ form'["path"] = form["path"] /\ shownPath' = shownPath
  PROVE  PrefInv'
<1>0. /\ SettingTypes /\ MessagesOK /\ FieldsOK /\ ReadsOK /\ MovingOK /\ StoreOK /\ ApartOK
  BY DEF PrefInv
<1> DEFINE s == <<>>
<1>1. /\ s \in Seq(MainMessages) /\ DOMAIN s = {} /\ toMain' = toMain \o s
  BY <1>0, Appended DEF MessagesOK
<1> HIDE DEF s
<1>2. MessagesOK' /\ ReadsOK'
  BY <1>1, SendsRead
<1>3. FieldsOK'
  BY <1>1, SendsQuiet
<1>4. MovingOK'
  BY <1>0 DEF MovingOK
<1>5. StoreOK'
  <2>1. store'["prod"] = askedFor'["prod"]
    BY <1>0 DEF StoreOK
  <2> QED BY <1>1, <2>1, SendsStore
<1>6. ApartOK'
  <2>1. ApartMain(s)
    BY <1>1 DEF ApartMain
  <2> QED BY <1>1, <2>1, SendsApart
<1>7. PathFormOK' /\ PathNameOK'
  BY <1>1, SendsShow
<1> QED BY <1>2, <1>3, <1>4, <1>5, <1>6, <1>7 DEF PrefInv

\* The panel is left.
LEMMA LeaveKeeps == PrefInv /\ LeavePanel => PrefInv'
<1> SUFFICES ASSUME PrefInv, LeavePanel PROVE PrefInv'
  OBVIOUS
<1>0. SettingTypes /\ ApartOK
  BY DEF PrefInv
<1>1. /\ front' = 0
      /\ UNCHANGED <<file, writes, text, store, opens, form, formOf, edited, editor, shownPath,
                     toMain, toWindow, moving, acts, askedFor, overlapped, diskFailed, startFailed,
                     moved>>
  BY DEF LeavePanel, Closed, fileVars, pastVars
<1>2. SettingTypes'
  BY <1>0, <1>1 DEF SettingTypes
<1>3. FormOK' /\ ~Mover'
  BY <1>1 DEF FormOK, Mover, Closed
<1>4. ~moved => ApartHere'
  BY <1>0, <1>1 DEF ApartOK, ApartHere
<1> QED BY <1>1, <1>2, <1>3, <1>4, HereKeeps

\* A field of the form is edited.
LEMMA EditKeeps == ASSUME PrefInv, NEW f, EditForm(f) PROVE PrefInv'
<1>0. SettingTypes /\ ApartOK /\ FormOK
  BY DEF PrefInv
<1>1. /\ f \in {"panels", "url"} /\ f \notin edited
      /\ form' = [form EXCEPT ![f] = ~form[f]] /\ edited' = edited \cup {f}
      /\ UNCHANGED <<file, writes, text, store, front, opens, formOf, editor, shownPath,
                     toMain, toWindow, moving, acts, askedFor, overlapped, diskFailed, startFailed,
                     moved>>
  BY DEF EditForm, fileVars, pastVars
<1>2. /\ form' \in SettingValues /\ form'["path"] = form["path"]
      /\ \A g \in Fields : g # f => form'[g] = form[g]
  BY <1>0, <1>1 DEF SettingTypes, SettingValues, Fields
<1>3. edited' \subseteq {"panels", "url"}
  BY <1>0, <1>1 DEF SettingTypes
<1>4. SettingTypes'
  BY <1>0, <1>1, <1>2, <1>3 DEF SettingTypes
<1>5. FormOK'
  <2> SUFFICES ASSUME Sure', front' # Closed, formOf' = writes', NEW g \in Fields
               PROVE  \/ form'[g] = file'[g] \/ g \in edited'
                      \/ g \in {"panels", "url"} /\ form'[g] = askedFor'[g]
    BY DEF FormOK
  <2>1. Sure /\ front # Closed /\ formOf = writes
    BY <1>1 DEF Sure
  <2>2. \/ form[g] = file[g] \/ g \in edited
        \/ g \in {"panels", "url"} /\ form[g] = askedFor[g]
    BY <1>0, <2>1 DEF FormOK
  <2>3. CASE g = f
    BY <1>1, <2>3
  <2>4. CASE g # f
    BY <1>1, <1>2, <2>2, <2>4
  <2> QED BY <2>3, <2>4
<1>6. ~moved => ApartHere'
  BY <1>0, <1>1, <1>2 DEF ApartOK, ApartHere
<1>7. Mover' => Mover /\ front' = front /\ form'["path"] = form["path"] /\ shownPath' = shownPath
  BY <1>1, <1>2 DEF Mover, Sure
<1> QED BY <1>1, <1>4, <1>5, <1>6, <1>7, HereKeeps

\* A change of the path begins with a dialog, which may be cancelled.
LEMMA DialogKeeps == PrefInv /\ (ChangePath \/ DialogCancelled) => PrefInv'
<1> SUFFICES ASSUME PrefInv, ChangePath \/ DialogCancelled PROVE PrefInv'
  OBVIOUS
<1>0. SettingTypes /\ ApartOK /\ FormOK
  BY DEF PrefInv
<1>1. /\ UNCHANGED <<file, writes, text, store, front, opens, form, formOf, edited, editor,
                     shownPath, toMain, toWindow, askedFor, overlapped, diskFailed, startFailed,
                     moved>>
      /\ \/ /\ moving' = [step |-> "dialog", by |-> front] /\ moving.step = "no"
            /\ acts < MaxActs /\ acts' = acts + 1
         \/ /\ moving' = [step |-> "no", by |-> Closed] /\ moving.step = "dialog" /\ acts' = acts
  BY DEF ChangePath, DialogCancelled, Act, fileVars, formVars, pastVars
<1>2. SettingTypes'
  <2>1. acts' \in 0..MaxActs
    BY <1>0, <1>1, SettingsAssumption DEF SettingTypes
  <2>2. 0 \in 0..opens /\ front \in 0..opens
    BY <1>0 DEF SettingTypes
  <2>3. moving' \in [step: {"no", "dialog", "askedFor", "selecting", "clearing"}, by: 0..opens']
    BY <1>1, <2>2 DEF Closed
  <2> QED BY <1>0, <1>1, <2>1, <2>3 DEF SettingTypes
<1>3. FormOK'
  BY <1>0, <1>1 DEF FormOK, Sure
<1>4. moving'.step \in {"no", "dialog"} /\ {moving.step, moving'.step} = {"no", "dialog"}
  BY <1>1
<1>5. ~moved => ApartHere'
  BY <1>0, <1>1, <1>4 DEF ApartOK, ApartHere
<1>6. ~Mover'
  BY <1>1 DEF Mover
<1> QED BY <1>1, <1>2, <1>3, <1>4, <1>5, <1>6, HereKeeps

\* The text of the kubeconfig is edited, or what was edited is discarded.
LEMMA ManifestKeeps == PrefInv /\ (EditManifest \/ Discard) => PrefInv'
<1> SUFFICES ASSUME PrefInv, EditManifest \/ Discard PROVE PrefInv'
  OBVIOUS
<1>0. SettingTypes /\ ApartOK /\ FormOK
  BY DEF PrefInv
<1>1. UNCHANGED <<file, writes, text, store, front, opens, form, formOf, edited, shownPath,
                  toMain, toWindow, moving, acts, askedFor, overlapped, diskFailed, startFailed,
                  moved>>
  BY DEF EditManifest, Discard, fileVars, pastVars
<1>2. \/ editor' = [editor EXCEPT !.content.edited = TRUE]
      \/ editor' = [editor EXCEPT !.content = editor.original]
  BY DEF EditManifest, Discard
<1>3. editor \in [original: Texts, content: Texts]
  BY <1>0 DEF SettingTypes
<1>4. /\ editor' \in [original: Texts, content: Texts] /\ editor'.original = editor.original
      /\ editor'.content.from \in {editor.original.from, editor.content.from}
  <2>1. CASE editor' = [editor EXCEPT !.content = editor.original]
    BY <1>3, <2>1
  <2>2. CASE editor' = [editor EXCEPT !.content.edited = TRUE]
    <3>1. PICK o \in Texts, c \in Texts : editor = [original |-> o, content |-> c]
      BY <1>3
    <3>2. editor' = [original |-> o, content |-> [c EXCEPT !.edited = TRUE]]
      BY <2>2, <3>1
    <3>3. [c EXCEPT !.edited = TRUE] \in Texts /\ [c EXCEPT !.edited = TRUE].from = c.from
      BY DEF Texts
    <3> QED BY <3>1, <3>2, <3>3
  <2> QED BY <1>2, <2>1, <2>2
<1>5. SettingTypes'
  BY <1>0, <1>1, <1>4 DEF SettingTypes
<1>6. FormOK'
  BY <1>0, <1>1 DEF FormOK, Sure
<1>7. ~moved => ApartHere'
  BY <1>0, <1>1, <1>4 DEF ApartOK, ApartHere
<1>8. Mover' => Mover /\ front' = front /\ form'["path"] = form["path"] /\ shownPath' = shownPath
  BY <1>1 DEF Mover, Sure
<1> QED BY <1>1, <1>5, <1>6, <1>7, <1>8, HereKeeps

\* The form is saved.
LEMMA ApplyKeeps == PrefInv /\ ApplyChanges => PrefInv'
<1> SUFFICES ASSUME PrefInv, ApplyChanges PROVE PrefInv'
  OBVIOUS
<1>0. SettingTypes /\ MessagesOK /\ FieldsOK /\ ApartOK /\ FormOK /\ StoreOK
  BY DEF PrefInv
<1> DEFINE m == Set("form", front, form, formOf)
           s == <<m>>
<1>1. /\ front # Closed /\ acts < MaxActs /\ acts' = acts + 1
      /\ toMain' = Append(toMain, m)
      /\ askedFor' = [f \in Fields |-> IF f \in edited THEN form[f] ELSE askedFor[f]]
      /\ edited' = {}
      /\ UNCHANGED <<file, writes, text, store, front, opens, form, formOf, editor, shownPath,
                     toWindow, moving, overlapped, diskFailed, startFailed, moved>>
  BY DEF ApplyChanges, Act, fileVars
<1>2. /\ m.op = "set" /\ m.for = "form" /\ m.by = front /\ m.value = form /\ m.base = formOf
      /\ m \in MainMessages
  <2>1. front \in Nat /\ form \in SettingValues /\ formOf \in Nat
    BY <1>0 DEF SettingTypes
  <2> QED BY <2>1 DEF Set, MainMessages, Sets
<1> HIDE DEF m
<1>3. s \in Seq(MainMessages) /\ toMain' = toMain \o s /\ DOMAIN s = {1} /\ s[1] = m /\ s # <<>>
  BY <1>0, <1>1, <1>2, Appended DEF MessagesOK
<1> HIDE DEF s
<1>4. /\ edited \subseteq {"panels", "url"}
      /\ \A f \in Fields : /\ f \in edited => askedFor'[f] = form[f]
                           /\ f \notin edited => askedFor'[f] = askedFor[f]
  BY <1>0, <1>1 DEF SettingTypes
<1>5. askedFor'["path"] = askedFor["path"] /\ askedFor'["prod"] = askedFor["prod"]
  BY <1>4 DEF Fields
<1>6. SettingTypes'
  <2>1. form \in [Fields -> BOOLEAN] /\ askedFor \in [Fields -> BOOLEAN]
    BY <1>0 DEF SettingTypes, SettingValues
  <2>2. askedFor' \in SettingValues
    BY <1>1, <2>1 DEF SettingValues
  <2>3. acts' \in 0..MaxActs
    BY <1>0, <1>1, SettingsAssumption DEF SettingTypes
  <2>4. edited' \subseteq {"panels", "url"}
    BY <1>1
  <2> QED BY <1>0, <1>1, <2>2, <2>3, <2>4 DEF SettingTypes
<1>7. MessagesOK' /\ ReadsOK'
  <2>1. formOf \in 0..writes
    BY <1>0 DEF SettingTypes
  <2> QED BY <1>1, <1>2, <1>3, <2>1, SendsRead
<1>8. FieldsOK'
  <2> SUFFICES ASSUME Sure', NEW f \in Fields
               PROVE  FieldOK(f, file, askedFor', writes, toMain \o s, toWindow)
    BY <1>1, <1>3 DEF FieldsOK
  <2>1. Sure
    BY <1>1 DEF Sure
  <2>2. FieldOK(f, file, askedFor, writes, toMain, toWindow) /\ toMain \in Seq(MainMessages)
    BY <1>0, <2>1 DEF FieldsOK, MessagesOK
  <2>3. CASE f \in edited
    <3>1. Brings(f, s[1], askedFor')
      BY <1>2, <1>3, <1>4, <2>3 DEF Brings
    <3>2. \A i \in DOMAIN s : i # 1 => ~StrayGet(f, s[i], askedFor')
      BY <1>3
    <3> QED BY <1>3, <2>2, <3>1, <3>2, FieldAsked
  <2>4. CASE f \notin edited
    <3>1. \A i \in DOMAIN s : ~StrayGet(f, s[i], askedFor)
      BY <1>2, <1>3 DEF StrayGet
    <3>2. ASSUME Settled(f, file, askedFor, writes, toMain, toWindow)
          PROVE  \A i \in DOMAIN s : ~StraySet(f, s[i], askedFor, writes)
      <4>1. file[f] = askedFor[f]
        BY <3>2 DEF Settled
      <4>2. formOf = writes => form[f] = askedFor[f]
        BY <1>0, <1>1, <2>1, <2>4, <4>1 DEF FormOK
      <4>3. ~StraySet(f, m, askedFor, writes)
        BY <1>2, <4>2 DEF StraySet
      <4> QED BY <1>3, <4>3
    <3>3. FieldOK(f, file, askedFor, writes, toMain \o s, toWindow)
      BY <1>3, <2>2, <3>1, <3>2, FieldGrows
    <3>4. askedFor[f] = askedFor'[f]
      BY <1>4, <2>4
    <3> QED BY <3>3, <3>4, FieldSame
  <2> QED BY <2>3, <2>4
<1>9. FormOK'
  <2> SUFFICES ASSUME Sure', front' # Closed, formOf' = writes', NEW f \in Fields
               PROVE  \/ form[f] = file[f]
                      \/ f \in {"panels", "url"} /\ form[f] = askedFor'[f]
    BY <1>1 DEF FormOK
  <2>1. Sure /\ formOf = writes
    BY <1>1 DEF Sure
  <2>2. \/ form[f] = file[f] \/ f \in edited
        \/ f \in {"panels", "url"} /\ form[f] = askedFor[f]
    BY <1>0, <1>1, <2>1 DEF FormOK
  <2> QED BY <1>4, <2>2
<1>10. MovingOK'
  BY <1>1, <1>2, <1>3, <1>5, SendsMove
<1>11. StoreOK'
  <2>1. store'["prod"] = askedFor'["prod"]
    BY <1>0, <1>1, <1>5 DEF StoreOK
  <2>2. CASE "panels" \in edited
    <3>1. FormSet(s[1], askedFor'["panels"])
      BY <1>2, <1>3, <1>4, <2>2 DEF FormSet, Fields
    <3> QED BY <1>1, <1>3, <2>1, <3>1, SendsStore
  <2>3. CASE "panels" \notin edited
    <3>1. askedFor'["panels"] = askedFor["panels"]
      BY <1>4, <2>3 DEF Fields
    <3> QED BY <1>1, <1>3, <2>1, <3>1, SendsStore
  <2> QED BY <2>2, <2>3
<1>12. ApartOK'
  <2>1. ~moved => ApartHere' /\ ApartMain(s)
    BY <1>0, <1>1, <1>2, <1>3 DEF ApartOK, ApartHere, ApartMain
  <2> QED BY <1>1, <1>3, <2>1, SendsApart
<1>13. PathFormOK' /\ PathNameOK'
  <2>1. Mover' => Mover
    BY <1>1 DEF Mover, Sure
  <2> QED BY <1>1, <1>3, <1>5, <2>1, SendsShow
<1> QED BY <1>6, <1>7, <1>8, <1>9, <1>10, <1>11, <1>12, <1>13 DEF PrefInv

\* One setting is asked for (g), by a read that a write follows or by a clear.
LEMMA AskKeeps ==
  ASSUME PrefInv, SettingTypes', FormOK', NEW s \in Seq(MainMessages), s # <<>>,
         toMain' = toMain \o s, NEW g \in {"prod", "url"},
         \A f \in Fields : f # g => askedFor'[f] = askedFor[f],
         s[1].op = "get", s[1].for = g, s[1].want = askedFor'[g],
         \A i \in DOMAIN s : i # 1 => s[i].op \in {"load", "kubeconfig"},
         UNCHANGED <<file, writes, text, front, form, formOf, editor, shownPath, toWindow, moving,
                     overlapped, diskFailed, startFailed, moved>>,
         store'["panels"] = store["panels"], store'["prod"] = askedFor'["prod"]
  PROVE  PrefInv'
<1>0. ApartOK
  BY DEF PrefInv
<1>1. /\ g \in Fields /\ askedFor'["path"] = askedFor["path"]
      /\ askedFor'["panels"] = askedFor["panels"]
  BY DEF Fields
<1>2. \A i \in DOMAIN s : s[i].op \in {"get", "load", "kubeconfig"}
  <2> TAKE i \in DOMAIN s
  <2>1. CASE i = 1
    BY <2>1
  <2>2. CASE i # 1
    BY <2>2
  <2> QED BY <2>1, <2>2
<1>3. MessagesOK' /\ ReadsOK'
  BY <1>2, SendsRead
<1>4. FieldsOK'
  <2>1. Brings(g, s[1], askedFor')
    BY DEF Brings
  <2> QED BY <1>1, <2>1, SendsAsk
<1>5. MovingOK'
  BY <1>1, <1>2, SendsMove
<1>6. StoreOK'
  BY <1>1, SendsStore
<1>7. ApartOK'
  <2>1. ApartMain(s)
    BY <1>2 DEF ApartMain
  <2>2. ~moved => ApartHere'
    BY <1>0 DEF ApartOK, ApartHere
  <2> QED BY <2>1, <2>2, SendsApart
<1>8. PathFormOK' /\ PathNameOK'
  <2>1. Mover' => Mover
    BY DEF Mover, Sure
  <2> QED BY <1>1, <2>1, SendsShow
<1> QED BY <1>3, <1>4, <1>5, <1>6, <1>7, <1>8 DEF PrefInv

\* The context is made a production one, or is no more.
LEMMA ToggleProdKeeps == PrefInv /\ ToggleProd => PrefInv'
<1> SUFFICES ASSUME PrefInv, ToggleProd PROVE PrefInv'
  OBVIOUS
<1>0. SettingTypes /\ MessagesOK /\ FormOK
  BY DEF PrefInv
<1> DEFINE m == Get("prod", Saved)
           q == IF front = Closed THEN <<>> ELSE ReadAll(front)
<1>1. /\ acts < MaxActs /\ acts' = acts + 1
      /\ store' = [store EXCEPT !["prod"] = ~store["prod"]]
      /\ askedFor' = [askedFor EXCEPT !["prod"] = store'["prod"]]
      /\ toMain' = Append(toMain, m) \o q
      /\ UNCHANGED <<file, writes, text, front, opens, form, formOf, edited, editor, shownPath,
                     toWindow, moving, overlapped, diskFailed, startFailed, moved>>
  BY DEF ToggleProd, Act, fileVars, formVars
<1>2. /\ store' \in [{"panels", "prod"} -> BOOLEAN] /\ store'["panels"] = store["panels"]
      /\ store'["prod"] \in BOOLEAN
  BY <1>0, <1>1 DEF SettingTypes
<1>3. /\ askedFor' \in SettingValues /\ askedFor'["prod"] = store'["prod"]
      /\ \A f \in Fields : f # "prod" => askedFor'[f] = askedFor[f]
  BY <1>0, <1>1, <1>2 DEF SettingTypes, SettingValues, Fields
<1>4. /\ m.op = "get" /\ m.for = "prod" /\ m.want = store'["prod"]
      /\ m \in MainMessages
  <2>1. front \in Nat
    BY <1>0 DEF SettingTypes
  <2> QED BY <1>2, <2>1 DEF Get, Saved, MainMessages, Gets
<1> HIDE DEF m
<1>5. q \in Seq(MainMessages) /\ \A i \in DOMAIN q : q[i].op \in {"load", "kubeconfig"}
  <2>1. front \in Nat
    BY <1>0 DEF SettingTypes
  <2>2. [op |-> "load", for |-> "form", by |-> front] \in MainMessages
    BY <2>1 DEF MainMessages, FormLoads
  <2>3. [op |-> "kubeconfig", for |-> "editor", by |-> front] \in MainMessages
    BY <2>1 DEF MainMessages, PathAsks
  <2>4. /\ ReadAll(front) \in Seq(MainMessages)
        /\ \A i \in DOMAIN ReadAll(front) : ReadAll(front)[i].op \in {"load", "kubeconfig"}
    BY <2>2, <2>3 DEF ReadAll
  <2> QED BY <2>4
<1> HIDE DEF q
<1> DEFINE s == <<m>> \o q
<1>6. /\ s \in Seq(MainMessages) /\ s # <<>> /\ s[1] = m
      /\ \A i \in DOMAIN s : i # 1 => s[i].op \in {"load", "kubeconfig"}
  <2> DEFINE u == <<m>>
  <2>1. u \in Seq(MainMessages) /\ Len(u) = 1 /\ u[1] = m
    BY <1>4
  <2> HIDE DEF u
  <2>2. /\ u \o q \in Seq(MainMessages) /\ Len(q) \in Nat /\ DOMAIN q = 1..Len(q)
        /\ DOMAIN (u \o q) = 1..(1 + Len(q))
        /\ (u \o q)[1] = m
        /\ \A i \in 1..Len(q) : (u \o q)[1 + i] = q[i]
    <3>0. u \in Seq(MainMessages) /\ q \in Seq(MainMessages)
      BY <1>5, <2>1
    <3>1. /\ u \o q \in Seq(MainMessages) /\ Len(q) \in Nat /\ DOMAIN q = 1..Len(q)
          /\ DOMAIN (u \o q) = 1..(Len(u) + Len(q))
          /\ \A i \in 1..Len(u) : (u \o q)[i] = u[i]
          /\ \A i \in 1..Len(q) : (u \o q)[Len(u) + i] = q[i]
      BY <3>0, Joined
    <3>2. 1 \in 1..Len(u)
      BY <2>1
    <3> QED BY <2>1, <3>1, <3>2
  <2>3. ASSUME NEW i \in 1..(1 + Len(q)), i # 1 PROVE i - 1 \in 1..Len(q) /\ 1 + (i - 1) = i
    BY <2>2, <2>3
  <2>4. \A i \in DOMAIN (u \o q) : i # 1 => (u \o q)[i].op \in {"load", "kubeconfig"}
    BY <1>5, <2>2, <2>3
  <2>5. 1 \in DOMAIN (u \o q)
    BY <2>2
  <2>6. u \o q # <<>>
    BY <2>5
  <2> QED BY <2>2, <2>4, <2>6 DEF u
<1>7. toMain' = toMain \o s
  <2>1. toMain \in Seq(MainMessages)
    BY <1>0 DEF MessagesOK
  <2>2. Append(toMain, m) = toMain \o <<m>> /\ <<m>> \in Seq(MainMessages)
    BY <1>4, <2>1, Appended
  <2>3. (toMain \o <<m>>) \o q = toMain \o (<<m>> \o q)
    BY <1>5, <2>1, <2>2, ConcatAssociative
  <2> QED BY <1>1, <2>2, <2>3
<1> HIDE DEF s
<1>8. SettingTypes'
  <2>1. acts' \in 0..MaxActs
    BY <1>0, <1>1, SettingsAssumption DEF SettingTypes
  <2> QED BY <1>0, <1>1, <1>2, <1>3, <2>1 DEF SettingTypes
<1>9. FormOK'
  <2>1. "panels" \in Fields /\ "url" \in Fields
    BY DEF Fields
  <2> QED BY <1>0, <1>1, <1>3, <2>1 DEF FormOK, Sure
<1> QED BY <1>1, <1>2, <1>3, <1>4, <1>6, <1>7, <1>8, <1>9, AskKeeps

\* The URL of the form is saved, or the one that is saved is deleted.
LEMMA UrlKeeps == PrefInv /\ (DetectNow \/ DisconnectPrometheus) => PrefInv'
<1> SUFFICES ASSUME PrefInv, DetectNow \/ DisconnectPrometheus PROVE PrefInv'
  OBVIOUS
<1>0. SettingTypes /\ MessagesOK /\ FormOK /\ StoreOK
  BY DEF PrefInv
<1>1. PICK v \in BOOLEAN :
        /\ acts < MaxActs /\ acts' = acts + 1
        /\ askedFor' = [askedFor EXCEPT !["url"] = v]
        /\ toMain' = Append(toMain, Get("url", v))
        /\ \/ edited' = edited \ {"url"} /\ v = form["url"]
           \/ edited' = edited /\ front = Closed
        /\ UNCHANGED <<file, writes, text, store, front, opens, form, formOf, editor, shownPath,
                       toWindow, moving, overlapped, diskFailed, startFailed, moved>>
  <2>1. CASE DetectNow
    <3>1. form["url"] \in BOOLEAN
      BY <1>0 DEF SettingTypes, SettingValues, Fields
    <3> QED BY <2>1, <3>1 DEF DetectNow, Act, fileVars
  <2>2. CASE DisconnectPrometheus
    BY <2>2 DEF DisconnectPrometheus, Act, fileVars, formVars
  <2> QED BY <2>1, <2>2
<1> DEFINE m == Get("url", v)
           s == <<m>>
<1>2. m.op = "get" /\ m.for = "url" /\ m.want = v /\ m \in MainMessages
  <2>1. front \in Nat
    BY <1>0 DEF SettingTypes
  <2> QED BY <2>1 DEF Get, MainMessages, Gets
<1>3. toMain' = Append(toMain, m)
  BY <1>1
<1> HIDE DEF m
<1>4. s \in Seq(MainMessages) /\ toMain' = toMain \o s /\ DOMAIN s = {1} /\ s[1] = m /\ s # <<>>
  BY <1>0, <1>2, <1>3, Appended DEF MessagesOK
<1> HIDE DEF s
<1>5. /\ askedFor' \in SettingValues /\ askedFor'["url"] = v
      /\ \A f \in Fields : f # "url" => askedFor'[f] = askedFor[f]
  BY <1>0, <1>1 DEF SettingTypes, SettingValues, Fields
<1>6. SettingTypes'
  <2>1. acts' \in 0..MaxActs
    BY <1>0, <1>1, SettingsAssumption DEF SettingTypes
  <2>2. edited' \subseteq {"panels", "url"}
    BY <1>0, <1>1 DEF SettingTypes
  <2> QED BY <1>0, <1>1, <1>5, <2>1, <2>2 DEF SettingTypes
<1>7. FormOK'
  <2> SUFFICES ASSUME Sure', front' # Closed, formOf' = writes', NEW f \in Fields
               PROVE  \/ form'[f] = file'[f] \/ f \in edited'
                      \/ f \in {"panels", "url"} /\ form'[f] = askedFor'[f]
    BY DEF FormOK
  <2>1. Sure /\ front # Closed /\ formOf = writes /\ v = form["url"] /\ edited' = edited \ {"url"}
    BY <1>1 DEF Sure
  <2>2. \/ form[f] = file[f] \/ f \in edited
        \/ f \in {"panels", "url"} /\ form[f] = askedFor[f]
    BY <1>0, <2>1 DEF FormOK
  <2>3. CASE f = "url"
    BY <1>1, <1>5, <2>1, <2>3
  <2>4. CASE f # "url"
    BY <1>1, <1>5, <2>1, <2>2, <2>4
  <2> QED BY <2>3, <2>4
<1>8. store'["prod"] = askedFor'["prod"] /\ store'["panels"] = store["panels"]
  BY <1>0, <1>1, <1>5 DEF StoreOK, Fields
<1> QED BY <1>1, <1>2, <1>4, <1>5, <1>6, <1>7, <1>8, AskKeeps

\* The kubeconfig's path is to be cleared.
LEMMA ResetKeeps == PrefInv /\ ResetPath => PrefInv'
<1> SUFFICES ASSUME PrefInv, ResetPath PROVE PrefInv'
  OBVIOUS
<1>0. SettingTypes /\ MessagesOK /\ FormOK /\ StoreOK /\ MovingOK /\ ApartOK
  BY DEF PrefInv
<1> DEFINE m == [op |-> "clear", for |-> "path", by |-> front]
           s == <<m>>
<1>1. /\ moving.step = "no" /\ acts < MaxActs /\ acts' = acts + 1
      /\ moving' = [step |-> "askedFor", by |-> front]
      /\ toMain' = Append(toMain, m)
      /\ askedFor' = [askedFor EXCEPT !["path"] = FALSE]
      /\ UNCHANGED <<file, writes, text, store, front, opens, form, formOf, edited, editor,
                     shownPath, toWindow, overlapped, diskFailed, startFailed, moved>>
  BY DEF ResetPath, Act, fileVars, formVars
<1>2. m.op = "clear" /\ m \in MainMessages
  <2>1. front \in Nat
    BY <1>0 DEF SettingTypes
  <2> QED BY <2>1 DEF MainMessages, Clears
<1> HIDE DEF m
<1>3. s \in Seq(MainMessages) /\ toMain' = toMain \o s /\ DOMAIN s = {1} /\ s[1] = m /\ s # <<>>
  BY <1>0, <1>1, <1>2, Appended DEF MessagesOK
<1>4. /\ askedFor' \in SettingValues /\ askedFor'["path"] = FALSE
      /\ \A f \in Fields : f # "path" => askedFor'[f] = askedFor[f]
  BY <1>0, <1>1 DEF SettingTypes, SettingValues, Fields
<1>5. SettingTypes'
  <2>1. acts' \in 0..MaxActs
    BY <1>0, <1>1, SettingsAssumption DEF SettingTypes
  <2>2. moving' \in [step: {"no", "dialog", "askedFor", "selecting", "clearing"}, by: 0..opens']
    BY <1>0, <1>1 DEF SettingTypes
  <2> QED BY <1>0, <1>1, <1>4, <2>1, <2>2 DEF SettingTypes
<1>6. MessagesOK' /\ ReadsOK'
  <2> HIDE DEF s
  <2> QED BY <1>1, <1>2, <1>3, SendsRead
<1>7. FieldsOK'
  <2> HIDE DEF s
  <2>1. Brings("path", s[1], askedFor') /\ "path" \in Fields
    BY <1>2, <1>3 DEF Brings, Fields
  <2> QED BY <1>1, <1>2, <1>3, <1>4, <2>1, SendsAsk
<1>8. FormOK'
  <2>1. "panels" \in Fields /\ "url" \in Fields
    BY DEF Fields
  <2> QED BY <1>0, <1>1, <1>4, <2>1 DEF FormOK, Sure
<1>9. MovingOK'
  <2> DEFINE n == toMain'
  <2>1. /\ toMain \in Seq(MainMessages) /\ Len(toMain) \in Nat
        /\ DOMAIN toMain = 1..Len(toMain) /\ DOMAIN n = 1..(Len(toMain) + 1)
        /\ \A i \in 1..Len(toMain) : n[i] = toMain[i]
    BY <1>0, <1>1, <1>2, Longer DEF MessagesOK
  <2>2. \A i \in DOMAIN toMain : toMain[i].op # "clear"
    BY <1>0, <1>1 DEF MovingOK
  <2> HIDE DEF n
  <2>3. \A i \in DOMAIN n : n[i].op = "clear" => i = Len(toMain) + 1
    BY <2>1, <2>2
  <2> QED BY <1>1, <1>4, <2>3 DEF MovingOK, n
<1>10. StoreOK'
  <2> HIDE DEF s
  <2>1. store'["prod"] = askedFor'["prod"] /\ askedFor'["panels"] = askedFor["panels"]
    BY <1>0, <1>1, <1>4 DEF StoreOK, Fields
  <2> QED BY <1>1, <1>3, <2>1, SendsStore
<1>11. ApartOK'
  <2> HIDE DEF s
  <2>1. ApartMain(s)
    BY <1>2, <1>3 DEF ApartMain
  <2>2. ~moved => ApartHere'
    BY <1>0, <1>1 DEF ApartOK, ApartHere
  <2> QED BY <1>1, <1>3, <2>1, <2>2, SendsApart
<1>12. PathFormOK' /\ PathNameOK'
  BY <1>1 DEF PathFormOK, PathNameOK, Mover
<1> QED BY <1>5, <1>6, <1>7, <1>8, <1>9, <1>10, <1>11, <1>12 DEF PrefInv

\* The text of the editor is sent.
LEMMA UpdateManifestKeeps == PrefInv /\ UpdateManifest => PrefInv'
<1> SUFFICES ASSUME PrefInv, UpdateManifest PROVE PrefInv'
  OBVIOUS
<1>0. SettingTypes /\ MessagesOK /\ FormOK /\ StoreOK /\ ApartOK
  BY DEF PrefInv
<1> DEFINE m == [op |-> "manifest", for |-> "manifest", by |-> front, text |-> editor.content]
           s == <<m>>
<1>1. /\ acts < MaxActs /\ acts' = acts + 1
      /\ toMain' = Append(toMain, m)
      /\ UNCHANGED <<file, writes, text, store, front, opens, form, formOf, edited, editor,
                     shownPath, toWindow, moving, askedFor, overlapped, diskFailed, startFailed,
                     moved>>
  BY DEF UpdateManifest, Act, fileVars, formVars, pastVars
<1>2. m.op = "manifest" /\ m.text = editor.content /\ m \in MainMessages
  <2>1. front \in Nat /\ editor.content \in Texts
    BY <1>0 DEF SettingTypes
  <2> QED BY <2>1 DEF MainMessages, Manifests
<1> HIDE DEF m
<1>3. s \in Seq(MainMessages) /\ toMain' = toMain \o s /\ DOMAIN s = {1} /\ s[1] = m
  BY <1>0, <1>1, <1>2, Appended DEF MessagesOK
<1> HIDE DEF s
<1>4. SettingTypes'
  <2>1. acts' \in 0..MaxActs
    BY <1>0, <1>1, SettingsAssumption DEF SettingTypes
  <2> QED BY <1>0, <1>1, <2>1 DEF SettingTypes
<1>5. MessagesOK' /\ ReadsOK'
  BY <1>1, <1>2, <1>3, SendsRead
<1>6. FieldsOK'
  BY <1>1, <1>2, <1>3, SendsQuiet
<1>7. FormOK'
  BY <1>0, <1>1 DEF FormOK, Sure
<1>8. MovingOK'
  BY <1>1, <1>2, <1>3, SendsMove
<1>9. StoreOK'
  <2>1. store'["prod"] = askedFor'["prod"]
    BY <1>0, <1>1 DEF StoreOK
  <2> QED BY <1>1, <1>3, <2>1, SendsStore
<1>10. ApartOK'
  <2>1. ~moved => ApartHere' /\ ApartMain(s)
    BY <1>0, <1>1, <1>2, <1>3 DEF ApartOK, ApartHere, ApartMain
  <2> QED BY <1>1, <1>3, <2>1, SendsApart
<1>11. PathFormOK' /\ PathNameOK'
  <2>1. Mover' => Mover
    BY <1>1 DEF Mover, Sure
  <2> QED BY <1>1, <1>3, <2>1, SendsShow
<1> QED BY <1>4, <1>5, <1>6, <1>7, <1>8, <1>9, <1>10, <1>11 DEF PrefInv

(***************************************************************************)
(* The path is chosen, and the sidecar started again                       *)

\* The path that was chosen is written, or the disk fails.
LEMMA ChosenKeeps == PrefInv /\ PathChosen => PrefInv'
<1> SUFFICES ASSUME PrefInv, PathChosen PROVE PrefInv'
  OBVIOUS
<1>0. /\ SettingTypes /\ MessagesOK /\ FieldsOK /\ ReadsOK /\ FormOK /\ MovingOK /\ StoreOK
  BY DEF PrefInv
<1>1. /\ moving.step = "dialog" /\ moved' = TRUE
      /\ askedFor' = [askedFor EXCEPT !["path"] = TRUE]
      /\ moving' = [moving EXCEPT !.step = "selecting"]
      /\ \/ /\ file' = [file EXCEPT !["path"] = TRUE] /\ writes' = writes + 1
            /\ diskFailed' = diskFailed
         \/ diskFailed' = TRUE /\ file' = file /\ writes' = writes
      /\ UNCHANGED <<text, store, front, opens, form, formOf, edited, editor, shownPath, toMain,
                     toWindow, acts, overlapped, startFailed>>
  BY DEF PathChosen, WritePath, formVars
<1>2. /\ askedFor' \in SettingValues /\ askedFor'["path"] = TRUE
      /\ \A f \in Fields : f # "path" => askedFor'[f] = askedFor[f]
  BY <1>0, <1>1 DEF SettingTypes, SettingValues, Fields
<1>3. /\ file' \in SettingValues
      /\ \A f \in Fields : f # "path" => file'[f] = file[f]
      /\ Sure' => file'["path"] = TRUE
  BY <1>0, <1>1, ZenonT(40) DEF SettingTypes, SettingValues, Fields, Sure
<1>4. moving'.step = "selecting" /\ moving'.by = moving.by
  BY <1>0, <1>1 DEF SettingTypes
<1>5. writes \in Nat \ {0} /\ formOf \in 0..writes /\ writes' \in {writes, writes + 1}
  BY <1>0, <1>1 DEF SettingTypes
<1>6. SettingTypes'
  <2>1. writes' \in Nat \ {0} /\ formOf' \in 0..writes'
    BY <1>1, <1>5
  <2>2. moving' \in [step: {"no", "dialog", "askedFor", "selecting", "clearing"}, by: 0..opens']
    BY <1>0, <1>1 DEF SettingTypes
  <2>3. diskFailed' \in BOOLEAN
    BY <1>0, <1>1 DEF SettingTypes
  <2> QED BY <1>0, <1>1, <1>2, <1>3, <2>1, <2>2, <2>3 DEF SettingTypes
<1>7. Based(writes, toMain, toWindow) /\ Based(writes + 1, toMain, toWindow)
  BY <1>0, <1>5, CopiesStale DEF MessagesOK
<1>8. MessagesOK'
  BY <1>0, <1>1, <1>5, <1>7 DEF MessagesOK
<1>9. Sure' => Sure /\ writes' = writes + 1
  BY <1>1 DEF Sure
<1>10. FieldsOK'
  <2> SUFFICES ASSUME Sure', NEW f \in Fields
               PROVE  FieldOK(f, file', askedFor', writes', toMain, toWindow)
    BY <1>1 DEF FieldsOK
  <2>1. Sure /\ writes' = writes + 1
    BY <1>9
  <2>2. CASE f # "path"
    <3>1. FieldOK(f, file, askedFor, writes, toMain, toWindow)
      BY <1>0, <2>1 DEF FieldsOK
    <3>2. FieldOK(f, file', askedFor, writes + 1, toMain, toWindow)
      BY <1>0, <1>3, <1>5, <1>7, <2>2, <3>1, FieldStale DEF MessagesOK
    <3>3. askedFor[f] = askedFor'[f]
      BY <1>2, <2>2
    <3> QED BY <2>1, <3>2, <3>3, FieldSame
  <2>3. CASE f = "path"
    <3>1. toMain \in Seq(MainMessages) /\ toWindow \in Seq(WindowMessages)
      BY <1>0 DEF MessagesOK
    <3>2. \A i \in DOMAIN toMain : toMain[i] \in MainMessages
      BY <3>1
    <3>3. \A i \in DOMAIN toWindow : toWindow[i] \in WindowMessages
      BY <3>1
    <3>4. NoStray("path", askedFor', toMain)
      BY <3>2, MainKinds DEF NoStray, StrayGet, Gets
    <3>5. \A i \in DOMAIN toWindow : ~StrayGot("path", toWindow[i], askedFor', writes')
      BY <3>3, WindowKinds DEF StrayGot, Gots
    <3>6. writes + 1 \notin 0..writes
      BY <1>5
    <3>7. \A i \in DOMAIN toMain : ~StraySet("path", toMain[i], askedFor', writes')
      BY <1>7, <2>1, <3>6 DEF StraySet, Based
    <3>8. file'["path"] = askedFor'["path"]
      BY <1>2, <1>3
    <3> QED BY <2>3, <3>4, <3>5, <3>7, <3>8 DEF FieldOK, Settled
  <2> QED BY <2>2, <2>3
<1>11. ReadsOK'
  <2>1. /\ CopiesOK(file', writes + 1, toWindow)
        /\ NewsOK(file'["path"], writes + 1, formOf, toWindow)
    BY <1>5, <1>7, CopiesStale
  <2> QED BY <1>1, <1>9, <2>1 DEF ReadsOK
<1>12. FormOK'
  <2>1. formOf # writes + 1
    BY <1>5
  <2> QED BY <1>1, <1>9, <2>1 DEF FormOK
<1>13. MovingOK'
  <2>1. \A i \in DOMAIN toMain : toMain[i].op # "clear"
    BY <1>0, <1>1 DEF MovingOK
  <2> QED BY <1>1, <1>2, <1>4, <2>1 DEF MovingOK
<1>14. StoreOK'
  <2>1. askedFor'["panels"] = askedFor["panels"] /\ askedFor'["prod"] = askedFor["prod"]
    BY <1>2 DEF Fields
  <2> QED BY <1>0, <1>1, <1>9, <2>1 DEF StoreOK
<1>15. ApartOK' /\ PathFormOK' /\ PathNameOK'
  BY <1>1, <1>4 DEF ApartOK, PathFormOK, PathNameOK, Mover
<1> QED BY <1>6, <1>8, <1>10, <1>11, <1>12, <1>13, <1>14, <1>15 DEF PrefInv

\* The sidecar has been started again, and the panel is told, or the start fails.
LEMMA RestartKeeps == PrefInv /\ RestartEnds => PrefInv'
<1> SUFFICES ASSUME PrefInv, RestartEnds PROVE PrefInv'
  OBVIOUS
<1>0. /\ SettingTypes /\ MessagesOK /\ FieldsOK /\ ReadsOK /\ FormOK /\ MovingOK /\ StoreOK
      /\ ApartOK
  BY DEF PrefInv
<1> DEFINE r == [op |-> "moved", for |-> "path", by |-> moving.by,
                 custom |-> moving.step = "selecting"]
<1>1. /\ moving.step \in {"selecting", "clearing"} /\ moving' = [moving EXCEPT !.step = "no"]
      /\ \/ startFailed' = TRUE /\ toWindow' = toWindow
         \/ startFailed' = startFailed /\ toWindow' = Append(toWindow, r)
      /\ UNCHANGED <<file, writes, text, store, front, opens, form, formOf, edited, editor,
                     shownPath, toMain, acts, askedFor, overlapped, diskFailed, moved>>
  BY DEF RestartEnds, fileVars, formVars
<1>2. moving.by \in Nat /\ moving'.step = "no" /\ moving'.by = moving.by
  BY <1>0, <1>1 DEF SettingTypes
<1>3. /\ r.op = "moved" /\ r.by = moving.by /\ r.custom \in BOOLEAN /\ r \in WindowMessages
      /\ r.custom <=> moving.step = "selecting"
  BY <1>2 DEF WindowMessages, Moveds
<1> HIDE DEF r
<1>4. r.custom = askedFor["path"]
  <2>1. askedFor["path"] \in BOOLEAN
    BY <1>0 DEF SettingTypes, SettingValues, Fields
  <2> QED BY <1>0, <1>1, <1>3, <2>1 DEF MovingOK
<1>5. moved
  <2>1. moving.step \notin {"no", "dialog", "askedFor"}
    BY <1>1
  <2> QED BY <1>0, <2>1 DEF ApartOK, ApartHere
<1>6. SettingTypes'
  <2>1. moving' \in [step: {"no", "dialog", "askedFor", "selecting", "clearing"}, by: 0..opens']
    BY <1>0, <1>1 DEF SettingTypes
  <2>2. startFailed' \in BOOLEAN
    BY <1>0, <1>1 DEF SettingTypes
  <2> QED BY <1>0, <1>1, <2>1, <2>2 DEF SettingTypes
<1>7. FormOK' /\ ApartOK'
  BY <1>0, <1>1, <1>5 DEF FormOK, Sure, ApartOK
<1>8. MovingOK'
  <2>1. \A i \in DOMAIN toMain : toMain[i].op # "clear"
    BY <1>0, <1>1 DEF MovingOK
  <2> QED BY <1>1, <1>2, <2>1 DEF MovingOK
<1>9. CASE startFailed' = TRUE /\ toWindow' = toWindow
  <2>1. MessagesOK' /\ FieldsOK' /\ ReadsOK' /\ StoreOK'
    BY <1>0, <1>1, <1>9 DEF MessagesOK, FieldsOK, ReadsOK, StoreOK, Sure
  <2>2. PathFormOK' /\ PathNameOK'
    BY <1>9 DEF PathFormOK, PathNameOK, Mover
  <2> QED BY <1>6, <1>7, <1>8, <2>1, <2>2 DEF PrefInv
<1>10. CASE startFailed' = startFailed /\ toWindow' = Append(toWindow, r)
  <2>0. /\ toMain \in Seq(MainMessages) /\ toWindow \in Seq(WindowMessages)
        /\ Based(writes, toMain, toWindow)
    BY <1>0 DEF MessagesOK
  <2>1. Sure' => Sure
    BY <1>1 DEF Sure
  <2>2. toWindow' \in Seq(WindowMessages)
    BY <1>3, <1>10, <2>0
  <2>3. MessagesOK'
    <3>1. Based(writes, toMain, Append(toWindow, r))
      <4>1. r.op \notin Copies
        BY <1>3 DEF Copies
      <4> QED BY <1>3, <2>0, <4>1, BasedTold
    <3> QED BY <1>1, <1>10, <2>0, <2>2, <3>1 DEF MessagesOK
  <2>4. FieldsOK'
    <3>1. ASSUME Sure, NEW f \in Fields
          PROVE  FieldOK(f, file, askedFor, writes, toMain, Append(toWindow, r))
      <4>1. FieldOK(f, file, askedFor, writes, toMain, toWindow)
        BY <1>0, <3>1 DEF FieldsOK
      <4>2. r.op # "got"
        BY <1>3
      <4> QED BY <1>3, <2>0, <4>1, <4>2, FieldTold
    <3> QED BY <1>1, <1>10, <2>1, <3>1 DEF FieldsOK
  <2>5. Sure => file["path"] = askedFor["path"]
    <3>1. moving.step # "askedFor"
      BY <1>1
    <3> QED BY <3>1, PathSettled
  <2>6. ReadsOK'
    <3> SUFFICES ASSUME Sure
                 PROVE  /\ CopiesOK(file, writes, Append(toWindow, r))
                        /\ NewsOK(file["path"], writes, formOf, Append(toWindow, r))
      BY <1>1, <1>10, <2>1 DEF ReadsOK
    <3>1. NewsOK(file["path"], writes, formOf, Append(toWindow, r))
      <4>1. NewsOK(file["path"], writes, formOf, toWindow)
        BY <1>0 DEF ReadsOK
      <4>2. r.custom = file["path"]
        BY <1>4, <2>5
      <4> QED BY <1>3, <2>0, <4>1, <4>2, NewsTold
    <3>2. CopiesOK(file, writes, Append(toWindow, r))
      <4>1. r.op \notin Copies
        BY <1>3 DEF Copies
      <4> QED BY <1>0, <1>3, <2>0, <4>1, CopiesTold DEF ReadsOK
    <3> QED BY <3>1, <3>2
  <2>7. StoreOK'
    <3>1. r \notin StoreItems
      BY <1>3 DEF StoreItems
    <3>2. ASSUME Sure,
                 LastRight(StoreItems, StoreRights(askedFor["panels"]),
                           store["panels"] = askedFor["panels"], toWindow)
          PROVE  LastRight(StoreItems, StoreRights(askedFor["panels"]),
                           store["panels"] = askedFor["panels"], Append(toWindow, r))
      BY <1>3, <2>0, <3>1, <3>2, LastTold
    <3> QED BY <1>0, <1>1, <1>10, <2>1, <3>2 DEF StoreOK
  <2>8. PathFormOK'
    <3> SUFFICES ASSUME Mover'
                 PROVE  LastRight(FormItems(front), FormRights(askedFor["path"]),
                                  form["path"] = askedFor["path"], Append(toWindow, r))
      BY <1>1, <1>10 DEF PathFormOK
    <3>1. front = moving.by
      BY <1>1, <1>2 DEF Mover
    <3>2. r \in FormItems(front) /\ r \in FormRights(askedFor["path"])
      BY <1>3, <1>4, <3>1 DEF FormItems, FormRights
    <3> QED BY <1>3, <2>0, <3>2, LastItem
  <2>9. PathNameOK'
    <3> SUFFICES ASSUME Mover'
                 PROVE  \/ AsksPath(front, toMain, Append(toWindow, r))
                        \/ LastRight(PathItems(front), PathRights(PathOf(askedFor)),
                                     shownPath = PathOf(askedFor), Append(toWindow, r))
      BY <1>1, <1>10 DEF PathNameOK
    <3>1. front = moving.by
      BY <1>1, <1>2 DEF Mover
    <3>2. CASE r.custom = TRUE
      <4>1. PathOf(askedFor) = "custom"
        BY <1>4, <3>2 DEF PathOf
      <4>2. r \in PathItems(front) /\ r \in PathRights(PathOf(askedFor))
        BY <1>3, <3>1, <3>2, <4>1 DEF PathItems, PathRights
      <4> QED BY <1>3, <2>0, <4>2, LastItem
    <3>3. CASE r.custom = FALSE
      <4> DEFINE V == Append(toWindow, r)
      <4>1. Len(toWindow) + 1 \in DOMAIN V /\ V[Len(toWindow) + 1] = r
        BY <1>3, <2>0, Longer
      <4> HIDE DEF V
      <4>2. AsksPath(front, toMain, V)
        BY <1>3, <3>1, <3>3, <4>1 DEF AsksPath
      <4> QED BY <4>2 DEF V
    <3> QED BY <1>3, <3>2, <3>3
  <2> QED BY <1>6, <1>7, <1>8, <2>3, <2>4, <2>6, <2>7, <2>8, <2>9 DEF PrefInv
<1> QED BY <1>1, <1>9, <1>10

(***************************************************************************)
(* What the main process answers                                           *)

\* What is left of the messages is well formed.
LEMMA BasedLess ==
  ASSUME NEW w, NEW M \in Seq(MainMessages), NEW W, M # <<>>, Based(w, M, W)
  PROVE  Based(w, Tail(M), W)
<1> DEFINE N == Tail(M)
<1>1. \A i \in DOMAIN N : i + 1 \in DOMAIN M /\ N[i] = M[i + 1]
  BY Rest
<1> HIDE DEF N
<1>2. Based(w, N, W)
  BY <1>1 DEF Based
<1> QED BY <1>2 DEF N

\* The change of the path is where it was when a message is taken that does not clear it.
LEMMA MovingLess ==
  ASSUME PrefInv, toMain # <<>>, toMain' = Tail(toMain), UNCHANGED <<moving, askedFor>>
  PROVE  MovingOK'
<1>0. toMain \in Seq(MainMessages) /\ MovingOK
  BY DEF PrefInv, MessagesOK
<1> DEFINE n == Tail(toMain)
<1>1. \A i \in DOMAIN n : i \in Nat /\ i + 1 \in DOMAIN toMain /\ n[i] = toMain[i + 1]
  BY <1>0, Rest
<1> HIDE DEF n
<1>2. \A i \in DOMAIN n : n[i].op = "clear" => moving.step = "askedFor"
  BY <1>0, <1>1 DEF MovingOK
<1>3. ASSUME NEW i \in DOMAIN n, NEW j \in DOMAIN n, n[i].op = "clear", n[j].op = "clear"
      PROVE  i = j
  <2>1. i + 1 = j + 1
    BY <1>0, <1>1, <1>3 DEF MovingOK
  <2> QED BY <1>1, <1>3, <2>1
<1>4. n = toMain'
  BY DEF n
<1> QED BY <1>0, <1>2, <1>3, <1>4 DEF MovingOK

\* The panel is told of the path as before, or better.
LEMMA ShownLess ==
  ASSUME PrefInv, toMain # <<>>, toMain' = Tail(toMain), NEW r \in WindowMessages,
         toWindow' = Append(toWindow, r), Mover' => Mover,
         UNCHANGED <<front, form, shownPath, askedFor>>,
         Mover /\ r \in FormItems(front) => r \in FormRights(askedFor["path"]),
         Mover /\ r \in PathItems(front) => r \in PathRights(PathOf(askedFor)),
         Head(toMain).op = "path" => r \in PathItems(Head(toMain).by)
  PROVE  PathFormOK' /\ PathNameOK'
<1>0. /\ toMain \in Seq(MainMessages) /\ toWindow \in Seq(WindowMessages)
      /\ PathFormOK /\ PathNameOK
  BY DEF PrefInv, MessagesOK
<1>1. PathFormOK'
  <2> SUFFICES ASSUME Mover
               PROVE  LastRight(FormItems(front), FormRights(askedFor["path"]),
                                form["path"] = askedFor["path"], Append(toWindow, r))
    BY DEF PathFormOK
  <2>1. LastRight(FormItems(front), FormRights(askedFor["path"]),
                  form["path"] = askedFor["path"], toWindow)
    BY <1>0 DEF PathFormOK
  <2> QED BY <1>0, <2>1, LastTold
<1>2. PathNameOK'
  <2> DEFINE n == Tail(toMain)
             V == Append(toWindow, r)
  <2> SUFFICES ASSUME Mover
               PROVE  \/ AsksPath(front, n, V)
                      \/ LastRight(PathItems(front), PathRights(PathOf(askedFor)),
                                   shownPath = PathOf(askedFor), V)
    BY DEF PathNameOK
  <2>1. /\ 1 \in DOMAIN toMain /\ Head(toMain) = toMain[1]
        /\ \A i \in DOMAIN toMain : i # 1 => i - 1 \in DOMAIN n /\ n[i - 1] = toMain[i]
    BY <1>0, Rest
  <2>2. \A i \in DOMAIN toWindow : i \in DOMAIN V /\ V[i] = toWindow[i]
    <3>1. /\ Len(toWindow) \in Nat
          /\ DOMAIN toWindow = 1..Len(toWindow) /\ DOMAIN V = 1..(Len(toWindow) + 1)
          /\ \A i \in 1..Len(toWindow) : V[i] = toWindow[i]
      BY <1>0, Longer
    <3> HIDE DEF V
    <3> QED BY <3>1
  <2> HIDE DEF n
  <2>3. CASE r \in PathItems(front)
    BY <1>0, <2>3, LastItem DEF V
  <2>4. CASE r \notin PathItems(front)
    <3>1. CASE AsksPath(front, toMain, toWindow)
      <4> HIDE DEF V
      <4>1. AsksPath(front, n, V)
        BY <2>1, <2>2, <2>4, <3>1 DEF AsksPath
      <4> QED BY <4>1
    <3>2. CASE LastRight(PathItems(front), PathRights(PathOf(askedFor)),
                         shownPath = PathOf(askedFor), toWindow)
      BY <1>0, <2>4, <3>2, LastTold DEF V
    <3> QED BY <1>0, <3>1, <3>2 DEF PathNameOK
  <2> QED BY <2>3, <2>4
<1> QED BY <1>1, <1>2

\* What is on its way to the window is of the default kubeconfig when the answer is.
LEMMA ApartLess ==
  ASSUME PrefInv, toMain # <<>>, toMain' = Tail(toMain), NEW r \in WindowMessages,
         toWindow' = Append(toWindow, r), moved' = moved,
         ~moved => /\ ApartHere' /\ r.op # "moved"
                   /\ r.op \in Copies => r.value["path"] = FALSE
                   /\ r.op \in {"kubeconfig", "path", "manifest"} => r.text.from = "default"
  PROVE  ApartOK'
<1>0. toMain \in Seq(MainMessages) /\ toWindow \in Seq(WindowMessages) /\ ApartOK
  BY DEF PrefInv, MessagesOK
<1> DEFINE n == Tail(toMain)
           V == Append(toWindow, r)
<1>1. \A i \in DOMAIN n : i + 1 \in DOMAIN toMain /\ n[i] = toMain[i + 1]
  BY <1>0, Rest
<1>2. \A i \in DOMAIN V : (i \in DOMAIN toWindow /\ V[i] = toWindow[i]) \/ V[i] = r
  <2>1. /\ Len(toWindow) \in Nat
        /\ DOMAIN toWindow = 1..Len(toWindow) /\ DOMAIN V = 1..(Len(toWindow) + 1)
        /\ \A i \in 1..Len(toWindow) : V[i] = toWindow[i] /\ V[Len(toWindow) + 1] = r
    BY <1>0, Longer
  <2> HIDE DEF V
  <2>2. V[Len(toWindow) + 1] = r
    BY <1>0, Longer DEF V
  <2> QED BY <2>1, <2>2
<1>3. n = toMain' /\ V = toWindow'
  OBVIOUS
<1> HIDE DEF n, V
<1>4. ~moved => ApartMain(n)
  BY <1>0, <1>1 DEF ApartOK, ApartMain
<1>5. ~moved => ApartWindow(V)
  BY <1>0, <1>2 DEF ApartOK, ApartWindow
<1> QED BY <1>3, <1>4, <1>5 DEF ApartOK

\* A message is answered, and the settings are not written.
LEMMA AnswerKeeps ==
  ASSUME PrefInv, SettingTypes', FieldsOK', toMain # <<>>, toMain' = Tail(toMain),
         NEW r \in WindowMessages, toWindow' = Append(toWindow, r),
         UNCHANGED <<file, writes, store, front, opens, form, formOf, edited, editor, shownPath,
                     askedFor, moving, overlapped, diskFailed, startFailed, moved>>,
         r.op \in Copies => r.base = writes /\ r.value = file,
         r.op # "moved", r.op # "saved", Head(toMain).op # "set",
         Mover /\ r \in FormItems(front) => r \in FormRights(askedFor["path"]),
         Mover /\ r \in PathItems(front) => r \in PathRights(PathOf(askedFor)),
         Head(toMain).op = "path" => r \in PathItems(Head(toMain).by),
         ~moved => /\ \A f \in Files : text'[f].from = f
                   /\ r.op \in {"kubeconfig", "path", "manifest"} => r.text.from = "default"
  PROVE  PrefInv'
<1>0. /\ SettingTypes /\ MessagesOK /\ ReadsOK /\ FormOK /\ StoreOK /\ ApartOK
      /\ toMain \in Seq(MainMessages) /\ toWindow \in Seq(WindowMessages)
      /\ Based(writes, toMain, toWindow) /\ writes \in 0..writes
  BY DEF PrefInv, MessagesOK, SettingTypes
<1>1. Sure' <=> Sure
  BY DEF Sure
<1>2. MessagesOK'
  <2>1. Tail(toMain) \in Seq(MainMessages)
    BY <1>0, Rest
  <2>2. Append(toWindow, r) \in Seq(WindowMessages)
    BY <1>0, Longer
  <2>3. Based(writes, Tail(toMain), toWindow)
    BY <1>0, BasedLess
  <2>4. r.op \in Copies => r.base \in 0..writes
    BY <1>0
  <2>5. Based(writes, Tail(toMain), Append(toWindow, r))
    BY <1>0, <2>3, <2>4, BasedTold
  <2> QED BY <2>1, <2>2, <2>5 DEF MessagesOK
<1>3. ReadsOK'
  <2> SUFFICES ASSUME Sure
               PROVE  /\ CopiesOK(file, writes, Append(toWindow, r))
                      /\ NewsOK(file["path"], writes, formOf, Append(toWindow, r))
    BY <1>1 DEF ReadsOK
  <2>1. CopiesOK(file, writes, toWindow) /\ NewsOK(file["path"], writes, formOf, toWindow)
    BY <1>0 DEF ReadsOK
  <2>2. CopiesOK(file, writes, Append(toWindow, r))
    BY <1>0, <2>1, CopiesTold
  <2>3. NewsOK(file["path"], writes, formOf, Append(toWindow, r))
    BY <1>0, <2>1, NewsTold
  <2> QED BY <2>2, <2>3
<1>4. FormOK'
  BY <1>0, <1>1 DEF FormOK
<1>5. MovingOK'
  BY MovingLess
<1>6. StoreOK'
  <2> DEFINE n == Tail(toMain)
  <2> SUFFICES ASSUME Sure
               PROVE  \/ \E i \in DOMAIN n : FormSet(n[i], askedFor["panels"])
                      \/ LastRight(StoreItems, StoreRights(askedFor["panels"]),
                                   store["panels"] = askedFor["panels"], Append(toWindow, r))
    BY <1>0, <1>1 DEF StoreOK
  <2>1. /\ 1 \in DOMAIN toMain /\ Head(toMain) = toMain[1]
        /\ \A i \in DOMAIN toMain : i # 1 => i - 1 \in DOMAIN n /\ n[i - 1] = toMain[i]
    BY <1>0, Rest
  <2>2. r \notin StoreItems
    BY DEF StoreItems
  <2> HIDE DEF n
  <2>3. CASE \E i \in DOMAIN toMain : FormSet(toMain[i], askedFor["panels"])
    <3>1. PICK i \in DOMAIN toMain : FormSet(toMain[i], askedFor["panels"])
      BY <2>3
    <3>2. i # 1
      BY <2>1, <3>1 DEF FormSet
    <3> QED BY <2>1, <3>1, <3>2
  <2>4. CASE LastRight(StoreItems, StoreRights(askedFor["panels"]),
                       store["panels"] = askedFor["panels"], toWindow)
    BY <1>0, <2>2, <2>4, LastTold
  <2> QED BY <1>0, <2>3, <2>4 DEF StoreOK
<1>7. ApartOK'
  <2>1. ~moved => ApartHere'
    BY <1>0 DEF ApartOK, ApartHere
  <2>2. ~moved /\ r.op \in Copies => r.value["path"] = FALSE
    BY <1>0 DEF ApartOK, ApartHere
  <2> QED BY <2>1, <2>2, ApartLess
<1>8. PathFormOK' /\ PathNameOK'
  <2>1. Mover' => Mover
    BY DEF Mover, Sure
  <2> QED BY <2>1, ShownLess
<1> QED BY <1>2, <1>3, <1>4, <1>5, <1>6, <1>7, <1>8 DEF PrefInv

\* A message that is neither a writer's read nor a write takes nothing away.
LEMMA AnswerQuiet ==
  ASSUME PrefInv, toMain # <<>>, toMain' = Tail(toMain),
         NEW r \in WindowMessages, toWindow' = Append(toWindow, r), r.op # "got",
         Head(toMain).op \notin {"get", "set", "clear"},
         UNCHANGED <<file, writes, askedFor, overlapped, diskFailed>>
  PROVE  FieldsOK'
<1>0. toMain \in Seq(MainMessages) /\ toWindow \in Seq(WindowMessages) /\ FieldsOK
  BY DEF PrefInv, MessagesOK
<1>1. ASSUME Sure, NEW f \in Fields
      PROVE  FieldOK(f, file, askedFor, writes, Tail(toMain), Append(toWindow, r))
  <2>1. FieldOK(f, file, askedFor, writes, toMain, toWindow)
    BY <1>0, <1>1 DEF FieldsOK
  <2>2. ~Brings(f, Head(toMain), askedFor) /\ ~StrayGot(f, r, askedFor, writes)
    BY DEF Brings, StrayGot
  <2> QED BY <1>0, <2>1, <2>2, FieldTaken
<1> QED BY <1>1 DEF FieldsOK, Sure

\* What the main process does with a message it takes.
Carried(m) ==
  /\ toMain # <<>> /\ m = Head(toMain) /\ m \in MainMessages /\ toMain' = Tail(toMain)
  /\ UNCHANGED <<store, front, opens, form, formOf, edited, editor, shownPath, acts, askedFor,
                 startFailed>>

\* A writer's read is answered with the settings.
LEMMA GetKeeps ==
  ASSUME PrefInv, NEW m, Carried(m), m.op = "get",
         Tell([op |-> "got", for |-> m.for, by |-> m.by, want |-> m.want, value |-> file,
               base |-> writes]),
         UNCHANGED <<file, writes, text, moving, overlapped, diskFailed, moved>>
  PROVE  PrefInv'
<1>0. /\ SettingTypes /\ FieldsOK /\ ApartOK
      /\ toMain \in Seq(MainMessages) /\ toWindow \in Seq(WindowMessages)
  BY DEF PrefInv, MessagesOK
<1> DEFINE r == [op |-> "got", for |-> m.for, by |-> m.by, want |-> m.want, value |-> file,
                 base |-> writes]
<1>1. m \in Gets
  BY MainKinds DEF Carried
<1>2. /\ r.op = "got" /\ r.for = m.for /\ r.want = m.want /\ r.value = file /\ r.base = writes
      /\ r \in WindowMessages /\ toWindow' = Append(toWindow, r)
  BY <1>0, <1>1 DEF WindowMessages, Gots, Gets, SettingTypes, Tell
<1> HIDE DEF r
<1>3. SettingTypes'
  BY <1>0 DEF SettingTypes, Carried
<1>4. FieldsOK'
  <2>1. ASSUME Sure, NEW f \in Fields
        PROVE  FieldOK(f, file, askedFor, writes, Tail(toMain), Append(toWindow, r))
    <3>1. FieldOK(f, file, askedFor, writes, toMain, toWindow) /\ toMain # <<>> /\ m = Head(toMain)
      BY <1>0, <2>1 DEF FieldsOK, Carried
    <3>2. CASE m.for = f /\ m.want = askedFor[f]
      <4>1. BringsBack(f, r, askedFor)
        BY <1>2, <3>2 DEF BringsBack
      <4> QED BY <1>0, <1>2, <3>1, <4>1, FieldAnswered
    <3>3. CASE ~(m.for = f /\ m.want = askedFor[f])
      <4>1. ~Brings(f, m, askedFor)
        BY <3>3 DEF Brings
      <4>2. StrayGot(f, r, askedFor, writes) => StrayGet(f, m, askedFor)
        BY <1>2 DEF StrayGot, StrayGet
      <4> QED BY <1>0, <1>2, <3>1, <4>1, <4>2, FieldTaken
    <3> QED BY <3>2, <3>3
  <2> QED BY <1>2, <2>1 DEF FieldsOK, Sure, Carried
<1>5. r \notin FormItems(front) /\ r \notin PathItems(front)
  BY <1>2 DEF FormItems, PathItems
<1>6. ~moved => \A f \in Files : text'[f].from = f
  BY <1>0 DEF ApartOK, ApartHere
<1> QED BY <1>2, <1>3, <1>4, <1>5, <1>6, AnswerKeeps DEF Carried

\* A panel is answered with the settings.
LEMMA LoadKeeps ==
  ASSUME PrefInv, NEW m, Carried(m), m.op = "load",
         Tell([op |-> "loaded", for |-> m.for, by |-> m.by, value |-> file, base |-> writes]),
         UNCHANGED <<file, writes, text, moving, overlapped, diskFailed, moved>>
  PROVE  PrefInv'
<1>0. SettingTypes /\ ApartOK
  BY DEF PrefInv
<1> DEFINE r == [op |-> "loaded", for |-> m.for, by |-> m.by, value |-> file, base |-> writes]
<1>1. m \in FormLoads
  BY MainKinds DEF Carried
<1>2. /\ r.op = "loaded" /\ r.value = file /\ r.base = writes
      /\ r \in WindowMessages /\ toWindow' = Append(toWindow, r)
  BY <1>0, <1>1 DEF WindowMessages, Reads, FormLoads, SettingTypes, Tell
<1> HIDE DEF r
<1>3. SettingTypes'
  BY <1>0 DEF SettingTypes, Carried
<1>4. FieldsOK'
  BY <1>2, AnswerQuiet DEF Carried
<1>5. r \notin PathItems(front)
  BY <1>2 DEF PathItems
<1>6. Mover => r \in FormRights(askedFor["path"])
  <2>1. Mover => file["path"] = askedFor["path"]
    BY PathSettled DEF Mover
  <2> QED BY <1>2, <2>1 DEF FormRights
<1>7. ~moved => \A f \in Files : text'[f].from = f
  BY <1>0 DEF ApartOK, ApartHere
<1> QED BY <1>2, <1>3, <1>4, <1>5, <1>6, <1>7, AnswerKeeps DEF Carried

\* It is told of the path, and of the text.
LEMMA AsksKeeps ==
  ASSUME PrefInv, NEW m, Carried(m), m.op \in {"kubeconfig", "path"},
         Tell([op |-> m.op, for |-> m.for, by |-> m.by, path |-> PathOf(file),
               text |-> text[PathOf(file)]]),
         UNCHANGED <<file, writes, text, moving, overlapped, diskFailed, moved>>
  PROVE  PrefInv'
<1>0. SettingTypes /\ ApartOK
  BY DEF PrefInv
<1> DEFINE r == [op |-> m.op, for |-> m.for, by |-> m.by, path |-> PathOf(file),
                 text |-> text[PathOf(file)]]
<1>1. m \in PathAsks
  BY MainKinds DEF Carried
<1>2. PathOf(file) \in Files /\ text[PathOf(file)] \in Texts
  BY <1>0 DEF SettingTypes, PathOf, Files
<1>3. /\ r.op = m.op /\ r.by = m.by /\ r.path = PathOf(file) /\ r.text = text[PathOf(file)]
      /\ r \in WindowMessages /\ toWindow' = Append(toWindow, r)
  BY <1>1, <1>2 DEF WindowMessages, Answers, PathAsks, Tell
<1> HIDE DEF r
<1>4. SettingTypes'
  BY <1>0 DEF SettingTypes, Carried
<1>5. FieldsOK'
  BY <1>3, AnswerQuiet DEF Carried
<1>6. r \notin FormItems(front)
  BY <1>3 DEF FormItems
<1>7. Mover => r \in PathRights(PathOf(askedFor))
  <2>1. Mover => PathOf(file) = PathOf(askedFor)
    BY PathSettled DEF Mover
  <2> QED BY <1>3, <2>1 DEF PathRights
<1>8. m.op = "path" => r \in PathItems(m.by)
  BY <1>3 DEF PathItems
<1>9. ~moved => (\A f \in Files : text'[f].from = f) /\ r.text.from = "default"
  BY <1>0, <1>2, <1>3 DEF ApartOK, ApartHere, PathOf
<1>10. r.op \notin Copies
  BY <1>3 DEF Copies
<1> QED BY <1>3, <1>4, <1>5, <1>6, <1>7, <1>8, <1>9, <1>10, AnswerKeeps DEF Carried

\* The text is written to the kubeconfig that is used.
LEMMA TextKeeps ==
  ASSUME PrefInv, NEW m, Carried(m), m.op = "manifest",
         text' = [text EXCEPT ![PathOf(file)] = m.text], Tell(m),
         UNCHANGED <<file, writes, moving, overlapped, diskFailed, moved>>
  PROVE  PrefInv'
<1>0. SettingTypes /\ ApartOK /\ toMain \in Seq(MainMessages)
  BY DEF PrefInv, MessagesOK
<1>1. m \in Manifests /\ m \in WindowMessages /\ m.text \in Texts /\ toWindow' = Append(toWindow, m)
  BY MainKinds DEF Carried, WindowMessages, Manifests, Tell
<1>2. PathOf(file) \in Files
  BY <1>0 DEF SettingTypes, PathOf, Files
<1>3. text' \in [Files -> Texts]
  BY <1>0, <1>1, <1>2 DEF SettingTypes
<1>4. SettingTypes'
  BY <1>0, <1>3 DEF SettingTypes, Carried
<1>5. FieldsOK'
  BY <1>1, AnswerQuiet DEF Carried
<1>6. m \notin FormItems(front) /\ m \notin PathItems(front) /\ m.op \notin Copies
  BY DEF FormItems, PathItems, Copies
<1>7. ~moved => m.text.from = "default"
  <2>1. 1 \in DOMAIN toMain /\ m = toMain[1]
    BY <1>0, Rest DEF Carried
  <2> QED BY <1>0, <2>1 DEF ApartOK, ApartMain
<1>8. ~moved => \A f \in Files : text'[f].from = f
  <2>1. ~moved => PathOf(file) = "default"
    BY <1>0 DEF ApartOK, ApartHere, PathOf
  <2>2. text \in [Files -> Texts]
    BY <1>0 DEF SettingTypes
  <2> QED BY <1>0, <1>2, <1>7, <2>1, <2>2 DEF ApartOK, ApartHere
<1> QED BY <1>1, <1>4, <1>5, <1>6, <1>7, <1>8, AnswerKeeps DEF Carried

\* The settings are written as they were sent: what was settled stays, unless the write
\* undoes another.
LEMMA WriteKeeps ==
  ASSUME PrefInv, NEW m, Carried(m), m.op = "set", file' = m.value, writes' = writes + 1,
         overlapped' = (overlapped \/ (m.base # writes /\ Undoes(m))),
         NEW r \in WindowMessages, toWindow' = Append(toWindow, r),
         r.op = "saved", r.for = m.for, r.value = m.value, r.base = writes',
         UNCHANGED <<text, moving, diskFailed, moved>>
  PROVE  PrefInv'
<1>0. /\ SettingTypes /\ MessagesOK /\ FieldsOK /\ ApartOK /\ StoreOK
      /\ toMain \in Seq(MainMessages) /\ toWindow \in Seq(WindowMessages)
      /\ Based(writes, toMain, toWindow)
      /\ writes \in Nat /\ writes \in Nat \ {0} /\ formOf \in 0..writes
  BY DEF PrefInv, MessagesOK, SettingTypes
<1>1. /\ toMain # <<>> /\ m = Head(toMain) /\ toMain' = Tail(toMain)
      /\ UNCHANGED <<store, front, opens, form, formOf, edited, editor, shownPath, acts,
                     askedFor, startFailed>>
  BY DEF Carried
<1>2. m \in Sets /\ m.value \in SettingValues
  BY MainKinds DEF Carried, Sets
<1>3. 1 \in DOMAIN toMain /\ m = toMain[1]
  BY <1>0, <1>1, Rest
<1>4. overlapped' \in BOOLEAN
  OBVIOUS
<1>5. Sure' => Sure /\ (m.base # writes => ~Undoes(m))
  <2>1. ~overlapped' => ~overlapped /\ ~(m.base # writes /\ Undoes(m))
    OBVIOUS
  <2>2. diskFailed' = diskFailed
    OBVIOUS
  <2> QED BY <2>1, <2>2 DEF Sure
<1>6. ASSUME Sure', NEW f \in Fields, Settled(f, file, askedFor, writes, toMain, toWindow)
      PROVE  m.value[f] = askedFor[f]
  <2>1. file[f] = askedFor[f] /\ ~StraySet(f, m, askedFor, writes)
    BY <1>3, <1>6 DEF Settled
  <2>2. CASE m.base = writes
    BY <2>1, <2>2 DEF StraySet
  <2>3. CASE m.base # writes
    BY <1>5, <1>6, <2>1, <2>3 DEF Undoes
  <2> QED BY <2>2, <2>3
<1>7. formOf \in 0..(writes + 1) /\ writes + 1 \in Nat \ {0} /\ formOf # writes + 1
      /\ writes + 1 \in 0..(writes + 1)
  BY <1>0
<1>8. SettingTypes'
  <2>1. writes' \in Nat \ {0} /\ formOf' \in 0..writes'
    BY <1>1, <1>7
  <2> QED BY <1>0, <1>1, <1>2, <1>4, <2>1 DEF SettingTypes
<1>9. MessagesOK'
  <2>1. Tail(toMain) \in Seq(MainMessages)
    BY <1>0, <1>1, Rest
  <2>2. Append(toWindow, r) \in Seq(WindowMessages)
    BY <1>0, Longer
  <2>3. Based(writes + 1, toMain, toWindow)
    BY <1>0, CopiesStale
  <2>4. Based(writes + 1, Tail(toMain), toWindow)
    BY <1>0, <1>1, <2>3, BasedLess
  <2>5. r.op \in Copies => r.base \in 0..(writes + 1)
    BY <1>7
  <2>6. Based(writes + 1, Tail(toMain), Append(toWindow, r))
    BY <1>0, <2>4, <2>5, BasedTold
  <2> QED BY <1>1, <2>1, <2>2, <2>6 DEF MessagesOK
<1>10. FieldsOK'
  <2>1. ASSUME Sure', NEW f \in Fields
        PROVE  FieldOK(f, m.value, askedFor, writes + 1, Tail(toMain), Append(toWindow, r))
    <3>1. FieldOK(f, file, askedFor, writes, toMain, toWindow)
      BY <1>0, <1>5, <2>1 DEF FieldsOK
    <3>2. Brings(f, m, askedFor) => m.value[f] = askedFor[f]
      BY DEF Brings
    <3>3. Settled(f, file, askedFor, writes, toMain, toWindow) \/ Brings(f, Head(toMain), askedFor)
            => m.value[f] = askedFor[f]
      BY <1>1, <1>6, <2>1, <3>2
    <3>4. Head(toMain).op # "get" /\ r.op # "got"
      BY <1>1
    <3>5. FieldOK(f, m.value, askedFor, writes + 1, Tail(toMain), toWindow)
      BY <1>0, <1>1, <3>1, <3>3, <3>4, FieldWritten
    <3> QED BY <1>0, <3>4, <3>5, FieldTold
  <2> QED BY <1>1, <2>1 DEF FieldsOK
<1>11. ReadsOK'
  <2>1. CopiesOK(m.value, writes + 1, toWindow)
        /\ NewsOK(m.value["path"], writes + 1, formOf, toWindow)
    BY <1>0, CopiesStale
  <2>2. CopiesOK(m.value, writes + 1, Append(toWindow, r))
    BY <1>0, <2>1, CopiesTold
  <2>3. r.op # "moved"
    OBVIOUS
  <2>4. NewsOK(m.value["path"], writes + 1, formOf, Append(toWindow, r))
    BY <1>0, <2>1, <2>3, NewsTold
  <2> QED BY <1>1, <2>2, <2>4 DEF ReadsOK
<1>12. FormOK'
  BY <1>1, <1>7 DEF FormOK
<1>13. MovingOK'
  BY <1>1, MovingLess
<1>14. StoreOK'
  <2> DEFINE n == Tail(toMain)
  <2> SUFFICES ASSUME Sure'
               PROVE  \/ \E i \in DOMAIN n : FormSet(n[i], askedFor["panels"])
                      \/ LastRight(StoreItems, StoreRights(askedFor["panels"]),
                                   store["panels"] = askedFor["panels"], Append(toWindow, r))
    BY <1>0, <1>1 DEF StoreOK
  <2>1. \A i \in DOMAIN toMain : i # 1 => i - 1 \in DOMAIN n /\ n[i - 1] = toMain[i]
    BY <1>0, <1>1, Rest
  <2>2. Sure
    BY <1>5
  <2> HIDE DEF n
  <2>3. CASE m.for = "form" /\ m.value["panels"] = askedFor["panels"]
    <3>1. r \in StoreItems /\ r \in StoreRights(askedFor["panels"])
      BY <2>3 DEF StoreItems, StoreRights
    <3> QED BY <1>0, <3>1, LastItem
  <2>4. CASE \E i \in DOMAIN toMain : i # 1 /\ FormSet(toMain[i], askedFor["panels"])
    BY <2>1, <2>4
  <2>5. CASE /\ ~(m.for = "form" /\ m.value["panels"] = askedFor["panels"])
             /\ ~\E i \in DOMAIN toMain : i # 1 /\ FormSet(toMain[i], askedFor["panels"])
    <3>1. ~\E i \in DOMAIN toMain : FormSet(toMain[i], askedFor["panels"])
      BY <1>3, <2>5 DEF FormSet
    <3>2. m.value["panels"] = askedFor["panels"]
      <4>1. Settled("panels", file, askedFor, writes, toMain, toWindow)
        BY <2>2, <3>1, PanelsSettled
      <4> QED BY <1>6, <4>1 DEF Fields
    <3>3. r \notin StoreItems
      BY <2>5, <3>2 DEF StoreItems
    <3> QED BY <1>0, <2>2, <3>1, <3>3, LastTold DEF StoreOK
  <2> QED BY <2>3, <2>4, <2>5
<1>15. ApartOK'
  <2>1. ~moved => m.value["path"] = FALSE
    BY <1>0, <1>3 DEF ApartOK, ApartMain
  <2>2. ~moved => ApartHere'
    BY <1>0, <1>1, <2>1 DEF ApartOK, ApartHere
  <2> QED BY <1>1, <2>1, <2>2, ApartLess
<1>16. PathFormOK' /\ PathNameOK'
  <2>1. Mover' => Mover
    BY <1>1, <1>5 DEF Mover
  <2>2. r \notin FormItems(front) /\ r \notin PathItems(front) /\ Head(toMain).op # "path"
    BY <1>1 DEF FormItems, PathItems
  <2> QED BY <1>1, <2>1, <2>2, ShownLess
<1> QED BY <1>8, <1>9, <1>10, <1>11, <1>12, <1>13, <1>14, <1>15, <1>16 DEF PrefInv

\* The disk fails when they are to be written.
LEMMA WriteFailsKeeps ==
  ASSUME PrefInv, NEW m, Carried(m), m.op = "set", diskFailed' = TRUE,
         NEW r \in WindowMessages, toWindow' = Append(toWindow, r),
         r.op = "saved", r.value = m.value, r.base = writes,
         UNCHANGED <<file, writes, overlapped, text, moving, moved>>
  PROVE  PrefInv'
<1>0. /\ SettingTypes /\ MessagesOK /\ ApartOK /\ StoreOK
      /\ toMain \in Seq(MainMessages) /\ toWindow \in Seq(WindowMessages)
      /\ Based(writes, toMain, toWindow) /\ writes \in 0..writes
  BY DEF PrefInv, MessagesOK, SettingTypes
<1>1. /\ toMain # <<>> /\ m = Head(toMain) /\ toMain' = Tail(toMain) /\ ~Sure'
      /\ UNCHANGED <<store, front, opens, form, formOf, edited, editor, shownPath, acts,
                     askedFor, startFailed>>
  BY DEF Carried, Sure
<1>2. 1 \in DOMAIN toMain /\ m = toMain[1]
  BY <1>0, <1>1, Rest
<1>3. SettingTypes'
  BY <1>0, <1>1 DEF SettingTypes
<1>4. MessagesOK'
  <2>1. Tail(toMain) \in Seq(MainMessages)
    BY <1>0, <1>1, Rest
  <2>2. Append(toWindow, r) \in Seq(WindowMessages)
    BY <1>0, Longer
  <2>3. Based(writes, Tail(toMain), toWindow)
    BY <1>0, <1>1, BasedLess
  <2>4. r.op \in Copies => r.base \in 0..writes
    BY <1>0
  <2>5. Based(writes, Tail(toMain), Append(toWindow, r))
    BY <1>0, <2>3, <2>4, BasedTold
  <2> QED BY <1>1, <2>1, <2>2, <2>5 DEF MessagesOK
<1>5. MovingOK'
  BY <1>1, MovingLess
<1>6. FieldsOK' /\ ReadsOK' /\ FormOK' /\ StoreOK' /\ PathFormOK' /\ PathNameOK'
  BY <1>0, <1>1 DEF FieldsOK, ReadsOK, FormOK, StoreOK, PathFormOK, PathNameOK, Mover
<1>7. ApartOK'
  <2>1. ~moved => m.value["path"] = FALSE
    BY <1>0, <1>2 DEF ApartOK, ApartMain
  <2>2. ~moved => ApartHere'
    BY <1>0, <1>1, <2>1 DEF ApartOK, ApartHere
  <2> QED BY <1>1, <2>1, <2>2, ApartLess
<1> QED BY <1>3, <1>4, <1>5, <1>6, <1>7 DEF PrefInv

\* The settings are to be written as they were sent.
LEMMA SetKeeps ==
  ASSUME PrefInv, NEW m, Carried(m), m.op = "set", saveSettings(m),
         Tell([op |-> "saved", for |-> m.for, by |-> m.by, value |-> m.value, base |-> writes']),
         UNCHANGED <<text, moving, moved>>
  PROVE  PrefInv'
<1> DEFINE r == [op |-> "saved", for |-> m.for, by |-> m.by, value |-> m.value, base |-> writes']
<1>0. writes \in Nat
  BY DEF PrefInv, SettingTypes
<1>1. m \in Sets
  BY MainKinds DEF Carried
<1>2. writes' \in Nat
  BY <1>0 DEF saveSettings
<1>3. /\ r.op = "saved" /\ r.for = m.for /\ r.value = m.value /\ r.base = writes'
      /\ r \in WindowMessages /\ toWindow' = Append(toWindow, r)
  BY <1>1, <1>2 DEF WindowMessages, Reads, Sets, Tell
<1> HIDE DEF r
<1>4. CASE /\ file' = m.value /\ writes' = writes + 1 /\ UNCHANGED diskFailed
           /\ overlapped' = (overlapped \/ (m.base # writes /\ Undoes(m)))
  BY <1>3, <1>4, WriteKeeps
<1>5. CASE diskFailed' = TRUE /\ UNCHANGED <<file, writes, overlapped>>
  BY <1>3, <1>5, WriteFailsKeeps
<1> QED BY <1>4, <1>5 DEF saveSettings

\* The path is cleared, or the disk fails.
LEMMA ClearKeeps ==
  ASSUME PrefInv, NEW m, Carried(m), m.op = "clear", WritePath(FALSE),
         moving' = [moving EXCEPT !.step = "clearing"], UNCHANGED <<text, toWindow, overlapped>>
  PROVE  PrefInv'
<1>0. /\ SettingTypes /\ FieldsOK /\ MovingOK /\ StoreOK
      /\ toMain \in Seq(MainMessages) /\ toWindow \in Seq(WindowMessages)
      /\ Based(writes, toMain, toWindow)
      /\ writes \in Nat /\ writes \in Nat \ {0} /\ formOf \in 0..writes
  BY DEF PrefInv, MessagesOK, SettingTypes
<1>1. /\ toMain # <<>> /\ m = Head(toMain) /\ toMain' = Tail(toMain) /\ moved' = TRUE
      /\ \/ file' = [file EXCEPT !["path"] = FALSE] /\ writes' = writes + 1
            /\ diskFailed' = diskFailed
         \/ diskFailed' = TRUE /\ file' = file /\ writes' = writes
      /\ UNCHANGED <<store, front, opens, form, formOf, edited, editor, shownPath, acts,
                     askedFor, startFailed>>
  BY DEF Carried, WritePath
<1>2. /\ 1 \in DOMAIN toMain /\ m = toMain[1] /\ Tail(toMain) \in Seq(MainMessages)
      /\ \A i \in DOMAIN Tail(toMain) :
           i \in Nat /\ i + 1 \in DOMAIN toMain /\ Tail(toMain)[i] = toMain[i + 1]
      /\ \A i \in DOMAIN toMain :
           i # 1 => i - 1 \in DOMAIN Tail(toMain) /\ Tail(toMain)[i - 1] = toMain[i]
  BY <1>0, <1>1, Rest
<1>3. /\ file' \in SettingValues
      /\ \A f \in Fields : f # "path" => file'[f] = file[f]
      /\ Sure' => file'["path"] = FALSE
  <2>1. file \in [Fields -> BOOLEAN] /\ "path" \in Fields
    BY <1>0 DEF SettingTypes, SettingValues, Fields
  <2>2. CASE file' = [file EXCEPT !["path"] = FALSE]
    BY <2>1, <2>2 DEF SettingValues
  <2>3. CASE diskFailed' = TRUE /\ file' = file
    BY <2>1, <2>3 DEF SettingValues, Sure
  <2> QED BY <1>1, <2>2, <2>3
<1>4. Sure' => Sure /\ writes' = writes + 1
  BY <1>1 DEF Sure
<1>5. moving'.step = "clearing" /\ askedFor["path"] = FALSE
  <2>1. moving.step = "askedFor"
    BY <1>0, <1>2 DEF MovingOK
  <2> QED BY <1>0, <2>1 DEF MovingOK, SettingTypes
<1>6. SettingTypes'
  <2>1. writes' \in Nat \ {0} /\ formOf' \in 0..writes'
    BY <1>0, <1>1
  <2>2. moving' \in [step: {"no", "dialog", "askedFor", "selecting", "clearing"}, by: 0..opens']
    BY <1>0, <1>1 DEF SettingTypes
  <2>3. diskFailed' \in BOOLEAN
    BY <1>0, <1>1 DEF SettingTypes
  <2> QED BY <1>0, <1>1, <1>3, <2>1, <2>2, <2>3 DEF SettingTypes
<1>7. MessagesOK'
  <2>1. Based(writes, toMain, toWindow) /\ Based(writes + 1, toMain, toWindow)
    BY <1>0, CopiesStale
  <2>2. Based(writes, Tail(toMain), toWindow) /\ Based(writes + 1, Tail(toMain), toWindow)
    BY <1>0, <1>1, <2>1, BasedLess
  <2> QED BY <1>0, <1>1, <1>2, <2>2 DEF MessagesOK
<1>8. FieldsOK'
  <2>1. ASSUME Sure', NEW f \in Fields
        PROVE  FieldOK(f, file', askedFor, writes + 1, Tail(toMain), toWindow)
    <3>1. FieldOK(f, file, askedFor, writes, toMain, toWindow)
      BY <1>0, <1>4, <2>1 DEF FieldsOK
    <3>2. Settled(f, file, askedFor, writes, toMain, toWindow) \/ Brings(f, Head(toMain), askedFor)
            => file'[f] = askedFor[f]
      <4>1. CASE f = "path"
        BY <1>3, <1>5, <2>1, <4>1
      <4>2. CASE f # "path"
        BY <1>1, <1>3, <4>2 DEF Brings, Settled
      <4> QED BY <4>1, <4>2
    <3>3. Head(toMain).op # "get"
      BY <1>1
    <3> QED BY <1>0, <1>1, <3>1, <3>2, <3>3, FieldWritten
  <2> QED BY <1>1, <1>4, <2>1 DEF FieldsOK
<1>9. ReadsOK'
  <2>1. /\ CopiesOK(file', writes + 1, toWindow)
        /\ NewsOK(file'["path"], writes + 1, formOf, toWindow)
    BY <1>0, CopiesStale
  <2> QED BY <1>1, <1>4, <2>1 DEF ReadsOK
<1>10. FormOK'
  <2>1. formOf # writes + 1
    BY <1>0
  <2> QED BY <1>1, <1>4, <2>1 DEF FormOK
<1>11. MovingOK'
  <2>1. ASSUME NEW i \in DOMAIN Tail(toMain) PROVE Tail(toMain)[i].op # "clear"
    <3>1. i + 1 # 1
      BY <1>2
    <3>2. i + 1 \in DOMAIN toMain /\ Tail(toMain)[i] = toMain[i + 1]
      BY <1>2
    <3> QED BY <1>0, <1>2, <3>1, <3>2 DEF MovingOK
  <2> QED BY <1>1, <1>5, <2>1 DEF MovingOK
<1>12. StoreOK'
  <2>1. ASSUME \E i \in DOMAIN toMain : FormSet(toMain[i], askedFor["panels"])
        PROVE  \E i \in DOMAIN Tail(toMain) : FormSet(Tail(toMain)[i], askedFor["panels"])
    <3>1. PICK i \in DOMAIN toMain : FormSet(toMain[i], askedFor["panels"])
      BY <2>1
    <3>2. i # 1
      BY <1>2, <3>1 DEF FormSet
    <3> QED BY <1>2, <3>1, <3>2
  <2> QED BY <1>0, <1>1, <1>4, <2>1 DEF StoreOK
<1>13. ApartOK' /\ PathFormOK' /\ PathNameOK'
  BY <1>1, <1>5 DEF ApartOK, PathFormOK, PathNameOK, Mover
<1> QED BY <1>6, <1>7, <1>8, <1>9, <1>10, <1>11, <1>12, <1>13 DEF PrefInv

\* The main process takes a message.
LEMMA MainKeeps == PrefInv /\ MainTakes => PrefInv'
<1> SUFFICES ASSUME PrefInv, MainTakes PROVE PrefInv'
  OBVIOUS
<1> DEFINE m == Head(toMain)
<1>1. /\ toMain # <<>> /\ toMain' = Tail(toMain)
      /\ UNCHANGED <<store, front, opens, form, formOf, edited, editor, shownPath, acts, askedFor,
                     startFailed>>
  BY DEF MainTakes, formVars
<1>2. m \in MainMessages
  <2>1. toMain \in Seq(MainMessages)
    BY DEF PrefInv, MessagesOK
  <2> QED BY <1>1, <2>1, Rest
<1>3. Carried(m)
  BY <1>1, <1>2 DEF Carried
<1>4. m.op \in {"get", "set", "load", "kubeconfig", "path", "clear", "manifest"}
  BY <1>2, MainKinds
<1>5. CASE m.op = "get"
  <2>1. /\ Tell([op |-> "got", for |-> m.for, by |-> m.by, want |-> m.want, value |-> file,
                 base |-> writes])
        /\ UNCHANGED <<file, writes, text, moving, overlapped, diskFailed, moved>>
    BY <1>5 DEF MainTakes, fileVars
  <2> HIDE DEF m
  <2> QED BY <1>3, <1>5, <2>1, GetKeeps
<1>6. CASE m.op = "load"
  <2>1. /\ Tell([op |-> "loaded", for |-> m.for, by |-> m.by, value |-> file, base |-> writes])
        /\ UNCHANGED <<file, writes, text, moving, overlapped, diskFailed, moved>>
    BY <1>6 DEF MainTakes, fileVars
  <2> HIDE DEF m
  <2> QED BY <1>3, <1>6, <2>1, LoadKeeps
<1>7. CASE m.op \in {"kubeconfig", "path"}
  <2>1. /\ Tell([op |-> m.op, for |-> m.for, by |-> m.by, path |-> PathOf(file),
                 text |-> text[PathOf(file)]])
        /\ UNCHANGED <<file, writes, text, moving, overlapped, diskFailed, moved>>
    BY <1>7 DEF MainTakes, fileVars
  <2> HIDE DEF m
  <2> QED BY <1>3, <1>7, <2>1, AsksKeeps
<1>8. CASE m.op = "set"
  <2>1. /\ saveSettings(m)
        /\ Tell([op |-> "saved", for |-> m.for, by |-> m.by, value |-> m.value, base |-> writes'])
        /\ UNCHANGED <<text, moving, moved>>
    BY <1>8 DEF MainTakes
  <2> HIDE DEF m
  <2> QED BY <1>3, <1>8, <2>1, SetKeeps
<1>9. CASE m.op = "manifest"
  <2>1. /\ text' = [text EXCEPT ![PathOf(file)] = m.text]
        /\ Tell(m)
        /\ UNCHANGED <<file, writes, moving, overlapped, diskFailed, moved>>
    BY <1>9 DEF MainTakes
  <2> HIDE DEF m
  <2> QED BY <1>3, <1>9, <2>1, TextKeeps
<1>10. CASE m.op = "clear"
  <2>1. /\ WritePath(FALSE)
        /\ moving' = [moving EXCEPT !.step = "clearing"]
        /\ UNCHANGED <<text, toWindow, overlapped>>
    BY <1>10 DEF MainTakes
  <2> HIDE DEF m
  <2> QED BY <1>3, <1>10, <2>1, ClearKeeps
<1> QED BY <1>4, <1>5, <1>6, <1>7, <1>8, <1>9, <1>10

(***************************************************************************)
(* What the window takes                                                   *)

\* An answer is taken, and messages may be sent.
LEMMA TakenKeeps ==
  ASSUME PrefInv, SettingTypes', FormOK', FieldsOK', toWindow # <<>>, toWindow' = Tail(toWindow),
         NEW s \in Seq(MainMessages), toMain' = toMain \o s,
         \A i \in DOMAIN s : s[i].op = "set" => s[i].base \in 0..writes,
         \A i \in DOMAIN s : s[i].op # "clear",
         NEW r \in WindowMessages, r = Head(toWindow),
         UNCHANGED <<file, writes, text, front, opens, moving, acts, askedFor, overlapped,
                     diskFailed, startFailed, moved>>,
         formOf' = writes => formOf = writes \/ (r.op \in {"loaded", "saved"} /\ r.base = writes),
         store'["prod"] = store["prod"],
         r \in StoreItems => store'["panels"] = r.value["panels"],
         r \notin StoreItems => store'["panels"] = store["panels"],
         r \in FormItems(front) /\ r \in FormRights(askedFor["path"]) =>
           form'["path"] = askedFor["path"],
         r \notin FormItems(front) => form'["path"] = form["path"],
         r \in PathItems(front) /\ r \in PathRights(PathOf(askedFor)) =>
           shownPath' = PathOf(askedFor),
         r \notin PathItems(front) => shownPath' = shownPath,
         r.op = "moved" /\ r.custom = FALSE /\ r.by = front =>
           \E k \in DOMAIN s : s[k].op = "path" /\ s[k].by = front,
         ~moved => ApartHere' /\ ApartMain(s)
  PROVE  PrefInv'
<1>0. /\ MessagesOK /\ ReadsOK /\ StoreOK /\ ApartOK /\ PathFormOK /\ PathNameOK
      /\ toMain \in Seq(MainMessages) /\ toWindow \in Seq(WindowMessages)
      /\ Based(writes, toMain, toWindow)
  BY DEF PrefInv, MessagesOK
<1> DEFINE n == toMain \o s
           V == Tail(toWindow)
<1>1. /\ V \in Seq(WindowMessages) /\ 1 \in DOMAIN toWindow /\ r = toWindow[1]
      /\ \A i \in DOMAIN V : i \in Nat /\ i + 1 \in DOMAIN toWindow /\ V[i] = toWindow[i + 1]
      /\ \A i \in DOMAIN toWindow : i # 1 => i - 1 \in DOMAIN V /\ V[i - 1] = toWindow[i]
  BY <1>0, Rest
<1>2. /\ n \in Seq(MainMessages)
      /\ \A i \in DOMAIN toMain : i \in DOMAIN n /\ n[i] = toMain[i]
      /\ \A k \in DOMAIN s : \E i \in DOMAIN n : n[i] = s[k]
      /\ \A i \in DOMAIN n : \/ i \in DOMAIN toMain /\ n[i] = toMain[i]
                             \/ \E k \in DOMAIN s : n[i] = s[k]
  BY <1>0, Parts, SMTT(30)
<1>3. n = toMain' /\ V = toWindow' /\ V = Tail(toWindow)
  OBVIOUS
<1>4. Sure' => Sure
  BY DEF Sure
<1> HIDE DEF n, V
<1>5. MessagesOK'
  <2>1. \A i \in DOMAIN n : n[i].op = "set" => n[i].base \in 0..writes
    BY <1>0, <1>2 DEF Based
  <2>2. \A i \in DOMAIN V : V[i].op \in Copies => V[i].base \in 0..writes
    BY <1>0, <1>1 DEF Based
  <2> QED BY <1>1, <1>2, <1>3, <2>1, <2>2 DEF MessagesOK, Based
<1>6. ReadsOK'
  <2> SUFFICES ASSUME Sure
               PROVE  CopiesOK(file, writes, V) /\ NewsOK(file["path"], writes, formOf', V)
    BY <1>3, <1>4 DEF ReadsOK
  <2>1. CopiesOK(file, writes, toWindow) /\ NewsOK(file["path"], writes, formOf, toWindow)
    BY <1>0 DEF ReadsOK
  <2>2. CopiesOK(file, writes, V)
    BY <1>1, <2>1 DEF CopiesOK
  <2>3. NewsOK(file["path"], writes, formOf', V)
    BY <1>0, <1>3, <2>1, NewsTaken
  <2> QED BY <2>2, <2>3
<1>7. MovingOK'
  BY SendsMove
<1>8. StoreOK'
  <2>1. store'["prod"] = askedFor["prod"]
    BY <1>0 DEF StoreOK
  <2> SUFFICES ASSUME Sure
               PROVE  \/ \E i \in DOMAIN n : FormSet(n[i], askedFor["panels"])
                      \/ LastRight(StoreItems, StoreRights(askedFor["panels"]),
                                   store'["panels"] = askedFor["panels"], V)
    BY <1>3, <1>4, <2>1 DEF StoreOK
  <2>2. CASE \E i \in DOMAIN toMain : FormSet(toMain[i], askedFor["panels"])
    BY <1>2, <2>2
  <2>3. CASE LastRight(StoreItems, StoreRights(askedFor["panels"]),
                       store["panels"] = askedFor["panels"], toWindow)
    <3>1. /\ (store["panels"] = askedFor["panels"]) \in BOOLEAN
          /\ (store'["panels"] = askedFor["panels"]) \in BOOLEAN
      OBVIOUS
    <3>2. r \in StoreItems /\ r \in StoreRights(askedFor["panels"]) =>
            store'["panels"] = askedFor["panels"]
      BY DEF StoreRights
    <3> QED BY <1>0, <1>3, <2>3, <3>1, <3>2, LastTaken, ZenonT(40)
  <2> QED BY <1>0, <2>2, <2>3 DEF StoreOK
<1>9. ApartOK'
  <2>1. ~moved => ApartMain(n)
    BY <1>0, <1>2, SMTT(30) DEF ApartOK, ApartMain
  <2>2. ~moved => ApartWindow(V)
    BY <1>0, <1>1 DEF ApartOK, ApartWindow
  <2> QED BY <1>3, <2>1, <2>2 DEF ApartOK
<1>10. Mover' => Mover
  BY DEF Mover, Sure
<1>11. PathFormOK'
  <2> SUFFICES ASSUME Mover
               PROVE  LastRight(FormItems(front), FormRights(askedFor["path"]),
                                form'["path"] = askedFor["path"], V)
    BY <1>3, <1>10 DEF PathFormOK
  <2>1. LastRight(FormItems(front), FormRights(askedFor["path"]),
                  form["path"] = askedFor["path"], toWindow)
    BY <1>0 DEF PathFormOK
  <2>2. /\ (form["path"] = askedFor["path"]) \in BOOLEAN
        /\ (form'["path"] = askedFor["path"]) \in BOOLEAN
    OBVIOUS
  <2> QED BY <1>0, <1>3, <2>1, <2>2, LastTaken, ZenonT(40)
<1>12. PathNameOK'
  <2> SUFFICES ASSUME Mover
               PROVE  \/ AsksPath(front, n, V)
                      \/ LastRight(PathItems(front), PathRights(PathOf(askedFor)),
                                   shownPath' = PathOf(askedFor), V)
    BY <1>3, <1>10 DEF PathNameOK
  <2>1. CASE AsksPath(front, toMain, toWindow)
    <3>1. CASE \E i \in DOMAIN toMain : toMain[i].op = "path" /\ toMain[i].by = front
      BY <1>2, <3>1 DEF AsksPath
    <3>2. CASE \E i \in DOMAIN toWindow : /\ toWindow[i].op = "moved"
                                          /\ toWindow[i].custom = FALSE /\ toWindow[i].by = front
      <4>1. PICK i \in DOMAIN toWindow : /\ toWindow[i].op = "moved"
                                         /\ toWindow[i].custom = FALSE /\ toWindow[i].by = front
        BY <3>2
      <4>2. CASE i = 1
        BY <1>1, <1>2, <4>1, <4>2 DEF AsksPath
      <4>3. CASE i # 1
        BY <1>1, <4>1, <4>3 DEF AsksPath
      <4> QED BY <4>2, <4>3
    <3> QED BY <2>1, <3>1, <3>2 DEF AsksPath
  <2>2. CASE LastRight(PathItems(front), PathRights(PathOf(askedFor)),
                       shownPath = PathOf(askedFor), toWindow)
    <3>1. /\ (shownPath = PathOf(askedFor)) \in BOOLEAN
          /\ (shownPath' = PathOf(askedFor)) \in BOOLEAN
      OBVIOUS
    <3> QED BY <1>0, <1>3, <2>2, <3>1, LastTaken, ZenonT(40)
  <2> QED BY <1>0, <2>1, <2>2 DEF PathNameOK
<1> QED BY <1>5, <1>6, <1>7, <1>8, <1>9, <1>11, <1>12 DEF PrefInv

\* An answer that is not to a writer's read leaves the fields to themselves.
LEMMA TakenQuiet ==
  ASSUME PrefInv, toWindow # <<>>, toWindow' = Tail(toWindow),
         NEW s \in Seq(MainMessages), toMain' = toMain \o s,
         \A i \in DOMAIN s : s[i].op \notin {"get", "set"}, Head(toWindow).op # "got",
         UNCHANGED <<file, writes, askedFor, overlapped, diskFailed>>
  PROVE  FieldsOK'
<1>0. toMain \in Seq(MainMessages) /\ toWindow \in Seq(WindowMessages) /\ FieldsOK
  BY DEF PrefInv, MessagesOK
<1>1. ASSUME Sure, NEW f \in Fields
      PROVE  FieldOK(f, file, askedFor, writes, toMain \o s, Tail(toWindow))
  <2>1. FieldOK(f, file, askedFor, writes, toMain, toWindow)
    BY <1>0, <1>1 DEF FieldsOK
  <2>2. ~BringsBack(f, Head(toWindow), askedFor)
    BY DEF BringsBack
  <2>3. FieldOK(f, file, askedFor, writes, toMain, Tail(toWindow))
    BY <1>0, <2>1, <2>2, FieldHeard
  <2>4. \A i \in DOMAIN s : ~StrayGet(f, s[i], askedFor) /\ ~StraySet(f, s[i], askedFor, writes)
    BY DEF StrayGet, StraySet
  <2> QED BY <1>0, <2>3, <2>4, FieldGrows
<1> QED BY <1>1 DEF FieldsOK, Sure

\* What the window does with an answer it takes.
Delivered(r) ==
  /\ toWindow # <<>> /\ r = Head(toWindow) /\ r \in WindowMessages /\ toWindow' = Tail(toWindow)
  /\ UNCHANGED <<file, writes, text, front, opens, moving, acts, askedFor, overlapped,
                 diskFailed, startFailed, moved>>

\* A writer that hears of the settings writes them with its own.
LEMMA GotKeeps ==
  ASSUME PrefInv, NEW r, Delivered(r), r.op = "got",
         toMain' = Append(toMain, Set(r.for, r.by, Written(r), r.base)),
         UNCHANGED <<store, form, formOf, edited, editor, shownPath>>
  PROVE  PrefInv'
<1>0. /\ SettingTypes /\ FieldsOK /\ ReadsOK /\ FormOK /\ ApartOK
      /\ toMain \in Seq(MainMessages) /\ toWindow \in Seq(WindowMessages)
      /\ Based(writes, toMain, toWindow)
  BY DEF PrefInv, MessagesOK
<1>1. /\ toWindow # <<>> /\ r = Head(toWindow) /\ r \in WindowMessages
      /\ toWindow' = Tail(toWindow)
      /\ UNCHANGED <<file, writes, text, front, opens, moving, acts, askedFor, overlapped,
                     diskFailed, startFailed, moved>>
  BY DEF Delivered
<1>2. r \in Gots /\ 1 \in DOMAIN toWindow /\ r = toWindow[1]
  BY <1>0, <1>1, WindowKinds, Rest
<1>3. /\ r.for \in {"prod", "url"} /\ r.by \in Nat /\ r.want \in BOOLEAN
      /\ r.value \in [Fields -> BOOLEAN] /\ r.base \in Nat
  BY <1>2 DEF Gots, SettingValues
<1>4. /\ Written(r) \in SettingValues
      /\ \A f \in Fields : Written(r)[f] = IF f = r.for THEN r.want ELSE r.value[f]
  BY <1>3 DEF Written, SettingValues, Fields
<1> DEFINE m == Set(r.for, r.by, Written(r), r.base)
           s == <<m>>
<1>5. /\ m.op = "set" /\ m.for = r.for /\ m.value = Written(r) /\ m.base = r.base
      /\ m \in MainMessages /\ toMain' = Append(toMain, m)
  BY <1>3, <1>4 DEF Set, MainMessages, Sets
<1> HIDE DEF m
<1>6. s \in Seq(MainMessages) /\ toMain' = toMain \o s /\ DOMAIN s = {1} /\ s[1] = m
  BY <1>0, <1>5, Appended
<1>7. SettingTypes'
  BY <1>0, <1>1 DEF SettingTypes
<1>8. FormOK'
  BY <1>0, <1>1 DEF FormOK, Sure
<1>9. FieldsOK'
  <2>1. ASSUME Sure, NEW f \in Fields
        PROVE  FieldOK(f, file, askedFor, writes, toMain \o <<m>>, Tail(toWindow))
    <3>1. FieldOK(f, file, askedFor, writes, toMain, toWindow)
      BY <1>0, <2>1 DEF FieldsOK
    <3>2. StraySet(f, m, askedFor, writes) =>
            StrayGot(f, r, askedFor, writes) \/ file[f] # askedFor[f]
      <4>1. r.base = writes => r.value = file
        BY <1>0, <1>2, <2>1, <1>1 DEF ReadsOK, CopiesOK, Copies, Delivered
      <4>2. r.op = "got"
        OBVIOUS
      <4> QED BY <1>4, <1>5, <2>1, <4>1, <4>2 DEF StraySet, StrayGot
    <3>3. BringsBack(f, r, askedFor) => Brings(f, m, askedFor)
      BY <1>3, <1>4, <1>5, <2>1 DEF BringsBack, Brings
    <3>4. Head(toWindow).op = "got"
      BY <1>1
    <3> QED BY <1>0, <1>1, <1>5, <3>1, <3>2, <3>3, <3>4, FieldReturns
  <2> QED BY <1>1, <1>6, <2>1 DEF FieldsOK, Sure
<1> HIDE DEF s
<1>10. r.base \in 0..writes
  BY <1>0, <1>2 DEF Based, Copies
<1>11. r \notin StoreItems /\ r \notin FormItems(front) /\ r \notin PathItems(front)
  BY DEF StoreItems, FormItems, PathItems
<1>12. ~moved => ApartHere' /\ ApartMain(s)
  <2>1. ~moved => ApartHere'
    BY <1>0, <1>1 DEF ApartOK, ApartHere
  <2>2. ~moved => Written(r)["path"] = FALSE
    <3>1. ~moved => r.value["path"] = FALSE
      BY <1>0, <1>2 DEF ApartOK, ApartWindow, Copies
    <3> QED BY <1>3, <1>4, <3>1 DEF Fields
  <2> QED BY <1>5, <1>6, <2>1, <2>2 DEF ApartMain
<1>13. /\ \A i \in DOMAIN s : s[i].op = "set" => s[i].base \in 0..writes
       /\ \A i \in DOMAIN s : s[i].op # "clear"
  BY <1>5, <1>6, <1>10
<1> QED BY <1>1, <1>6, <1>7, <1>8, <1>9, <1>11, <1>12, <1>13, TakenKeeps

\* Nothing is sent.
Silent == toMain' = toMain

\* An answer is taken, and nothing is sent.
LEMMA HeardKeeps ==
  ASSUME PrefInv, SettingTypes', FormOK', NEW r, Delivered(r), Silent, r.op # "got",
         formOf' = writes => formOf = writes \/ (r.op \in {"loaded", "saved"} /\ r.base = writes),
         store'["prod"] = store["prod"],
         r \in StoreItems => store'["panels"] = r.value["panels"],
         r \notin StoreItems => store'["panels"] = store["panels"],
         r \in FormItems(front) /\ r \in FormRights(askedFor["path"]) =>
           form'["path"] = askedFor["path"],
         r \notin FormItems(front) => form'["path"] = form["path"],
         r \in PathItems(front) /\ r \in PathRights(PathOf(askedFor)) =>
           shownPath' = PathOf(askedFor),
         r \notin PathItems(front) => shownPath' = shownPath,
         ~(r.op = "moved" /\ r.custom = FALSE),
         ~moved => ApartHere'
  PROVE  PrefInv'
<1>0. toMain \in Seq(MainMessages)
  BY DEF PrefInv, MessagesOK
<1>1. /\ toWindow # <<>> /\ r = Head(toWindow) /\ r \in WindowMessages
      /\ toWindow' = Tail(toWindow)
      /\ UNCHANGED <<file, writes, text, front, opens, moving, acts, askedFor, overlapped,
                     diskFailed, startFailed, moved>>
  BY DEF Delivered
<1> DEFINE s == <<>>
<1>2. s \in Seq(MainMessages) /\ toMain' = toMain \o s /\ DOMAIN s = {}
  BY <1>0, Appended DEF Silent
<1> HIDE DEF s
<1>3. FieldsOK'
  BY <1>1, <1>2, TakenQuiet
<1>4. ApartMain(s)
  BY <1>2 DEF ApartMain
<1>5. /\ \A i \in DOMAIN s : s[i].op = "set" => s[i].base \in 0..writes
      /\ \A i \in DOMAIN s : s[i].op # "clear"
      /\ ~moved => ApartHere' /\ ApartMain(s)
      /\ r.op = "moved" /\ r.custom = FALSE /\ r.by = front =>
           \E k \in DOMAIN s : s[k].op = "path" /\ s[k].by = front
  BY <1>2, <1>4
<1>6. s \in Seq(MainMessages) /\ toMain' = toMain \o s
  BY <1>2
<1> QED BY <1>1, <1>3, <1>5, <1>6, TakenKeeps, ZenonT(60)

\* The form is the settings that were read, if it is still on screen.
LEMMA LoadedKeeps ==
  ASSUME PrefInv, NEW r, Delivered(r), r.op = "loaded",
         IF r.by = front
         THEN form' = r.value /\ formOf' = r.base /\ edited' = {}
         ELSE UNCHANGED <<form, formOf, edited>>,
         UNCHANGED <<store, toMain, editor, shownPath>>
  PROVE  PrefInv'
<1>0. /\ SettingTypes /\ ReadsOK /\ FormOK /\ ApartOK
      /\ toWindow \in Seq(WindowMessages) /\ Based(writes, toMain, toWindow)
  BY DEF PrefInv, MessagesOK
<1>1. /\ toWindow # <<>> /\ r = Head(toWindow) /\ r \in WindowMessages
      /\ UNCHANGED <<file, writes, text, front, opens, moving, acts, askedFor, overlapped,
                     diskFailed, startFailed, moved>>
  BY DEF Delivered
<1>2. r \in Reads /\ 1 \in DOMAIN toWindow /\ r = toWindow[1]
  BY <1>0, <1>1, WindowKinds, Rest
<1>3. r.value \in SettingValues /\ r.base \in 0..writes
  BY <1>0, <1>2 DEF Reads, Based, Copies
<1>4. SettingTypes'
  <2>1. form' \in SettingValues /\ formOf' \in 0..writes /\ edited' \subseteq {"panels", "url"}
    BY <1>0, <1>3 DEF SettingTypes
  <2> QED BY <1>0, <1>1, <2>1 DEF SettingTypes
<1>5. FormOK'
  <2>1. CASE r.by = front
    <3>1. Sure /\ r.base = writes => r.value = file
      BY <1>0, <1>2 DEF ReadsOK, CopiesOK, Copies
    <3> QED BY <1>1, <2>1, <3>1 DEF FormOK, Sure
  <2>2. CASE r.by # front
    BY <1>0, <1>1, <2>2 DEF FormOK, Sure
  <2> QED BY <2>1, <2>2
<1>6. ~moved => ApartHere'
  <2>1. ~moved => r.value["path"] = FALSE
    BY <1>0, <1>2 DEF ApartOK, ApartWindow, Copies
  <2>2. ~moved => form'["path"] = FALSE
    BY <1>0, <2>1 DEF ApartOK, ApartHere
  <2> QED BY <1>0, <1>1, <2>2 DEF ApartOK, ApartHere
<1>7. /\ r \notin StoreItems /\ r \notin PathItems(front)
      /\ r \in FormItems(front) <=> r.by = front
      /\ r \in FormRights(askedFor["path"]) => r.value["path"] = askedFor["path"]
  BY <1>1 DEF StoreItems, PathItems, FormItems, FormRights
<1> QED BY <1>4, <1>5, <1>6, <1>7, HeardKeeps DEF Silent

\* The editor has the text that was read, and the panel the path, if it is still on screen.
LEMMA TextHeardKeeps ==
  ASSUME PrefInv, NEW r, Delivered(r), r.op = "kubeconfig",
         IF r.by = front
         THEN /\ editor' = [original |-> r.text, content |-> r.text]
              /\ shownPath' = r.path
         ELSE UNCHANGED <<editor, shownPath>>,
         UNCHANGED <<store, toMain, form, formOf, edited>>
  PROVE  PrefInv'
<1>0. /\ SettingTypes /\ FormOK /\ ApartOK /\ toWindow \in Seq(WindowMessages)
  BY DEF PrefInv, MessagesOK
<1>1. /\ toWindow # <<>> /\ r = Head(toWindow) /\ r \in WindowMessages
      /\ UNCHANGED <<file, writes, text, front, opens, moving, acts, askedFor, overlapped,
                     diskFailed, startFailed, moved>>
  BY DEF Delivered
<1>2. r \in Answers /\ 1 \in DOMAIN toWindow /\ r = toWindow[1]
  BY <1>0, <1>1, WindowKinds, Rest
<1>3. r.text \in Texts /\ r.path \in Files
  BY <1>2 DEF Answers
<1>4. SettingTypes'
  <2>1. editor' \in [original: Texts, content: Texts] /\ shownPath' \in Files
    BY <1>0, <1>3 DEF SettingTypes
  <2> QED BY <1>0, <1>1, <2>1 DEF SettingTypes
<1>5. FormOK'
  BY <1>0, <1>1 DEF FormOK, Sure
<1>6. ~moved => ApartHere'
  <2>1. ~moved => r.text.from = "default"
    BY <1>0, <1>2 DEF ApartOK, ApartWindow
  <2>2. ~moved => editor'.original.from = "default" /\ editor'.content.from = "default"
    BY <1>0, <2>1 DEF ApartOK, ApartHere
  <2> QED BY <1>0, <1>1, <2>2 DEF ApartOK, ApartHere
<1>7. /\ r \notin StoreItems /\ r \notin FormItems(front)
      /\ r \in PathItems(front) <=> r.by = front
      /\ r \in PathRights(PathOf(askedFor)) => r.path = PathOf(askedFor)
  BY <1>1 DEF StoreItems, PathItems, FormItems, PathRights
<1> QED BY <1>1, <1>4, <1>5, <1>6, <1>7, HeardKeeps DEF Silent

\* The panel has the path that it asked for.
LEMMA PathHeardKeeps ==
  ASSUME PrefInv, NEW r, Delivered(r), r.op = "path",
         shownPath' = IF r.by = front THEN r.path ELSE shownPath,
         UNCHANGED <<store, toMain, form, formOf, edited, editor>>
  PROVE  PrefInv'
<1>0. /\ SettingTypes /\ FormOK /\ ApartOK /\ toWindow \in Seq(WindowMessages)
  BY DEF PrefInv, MessagesOK
<1>1. /\ r \in WindowMessages
      /\ UNCHANGED <<file, writes, text, front, opens, moving, acts, askedFor, overlapped,
                     diskFailed, startFailed, moved>>
  BY DEF Delivered
<1>2. r.path \in Files
  BY <1>1, WindowKinds DEF Answers
<1>3. SettingTypes'
  <2>1. shownPath' \in Files
    BY <1>0, <1>2 DEF SettingTypes
  <2> QED BY <1>0, <1>1, <2>1 DEF SettingTypes
<1>4. FormOK'
  BY <1>0, <1>1 DEF FormOK, Sure
<1>5. ~moved => ApartHere'
  BY <1>0, <1>1 DEF ApartOK, ApartHere
<1>6. /\ r \notin StoreItems /\ r \notin FormItems(front)
      /\ r \in PathItems(front) <=> r.by = front
      /\ r \in PathRights(PathOf(askedFor)) => r.path = PathOf(askedFor)
  BY <1>1 DEF StoreItems, PathItems, FormItems, PathRights
<1> QED BY <1>1, <1>3, <1>4, <1>5, <1>6, HeardKeeps DEF Silent

\* The text that was written is the editor's.
LEMMA TextSavedKeeps ==
  ASSUME PrefInv, NEW r, Delivered(r), r.op = "manifest",
         editor' = IF r.by = front THEN [editor EXCEPT !.original = r.text] ELSE editor,
         UNCHANGED <<store, toMain, form, formOf, edited, shownPath>>
  PROVE  PrefInv'
<1>0. /\ SettingTypes /\ FormOK /\ ApartOK /\ toWindow \in Seq(WindowMessages)
  BY DEF PrefInv, MessagesOK
<1>1. /\ toWindow # <<>> /\ r = Head(toWindow) /\ r \in WindowMessages
      /\ UNCHANGED <<file, writes, text, front, opens, moving, acts, askedFor, overlapped,
                     diskFailed, startFailed, moved>>
  BY DEF Delivered
<1>2. r \in Manifests /\ 1 \in DOMAIN toWindow /\ r = toWindow[1]
  BY <1>0, <1>1, WindowKinds, Rest
<1>3. r.text \in Texts
  BY <1>2 DEF Manifests
<1>4. /\ editor' \in [original: Texts, content: Texts] /\ editor'.content = editor.content
      /\ editor'.original \in {editor.original, r.text}
  BY <1>0, <1>3 DEF SettingTypes
<1>5. SettingTypes'
  BY <1>0, <1>1, <1>4 DEF SettingTypes
<1>6. FormOK'
  BY <1>0, <1>1 DEF FormOK, Sure
<1>7. ~moved => ApartHere'
  <2>1. ~moved => r.text.from = "default"
    BY <1>0, <1>2 DEF ApartOK, ApartWindow
  <2> QED BY <1>0, <1>1, <1>4, <2>1 DEF ApartOK, ApartHere
<1>8. r \notin StoreItems /\ r \notin FormItems(front) /\ r \notin PathItems(front)
  BY DEF StoreItems, FormItems, PathItems
<1> QED BY <1>1, <1>5, <1>6, <1>7, <1>8, HeardKeeps DEF Silent

\* What was saved is the store's, and the form's, if it is the same still.
LEMMA SavedKeeps ==
  ASSUME PrefInv, NEW r, Delivered(r), r.op = "saved",
         store' = IF r.for # "form" THEN store
                  ELSE [store EXCEPT !["panels"] = r.value["panels"]],
         formOf' = IF r.for = "form" /\ r.by = front /\ r.value = form THEN r.base ELSE formOf,
         UNCHANGED <<toMain, form, edited, editor, shownPath>>
  PROVE  PrefInv'
<1>0. /\ SettingTypes /\ ReadsOK /\ FormOK /\ ApartOK
      /\ toWindow \in Seq(WindowMessages) /\ Based(writes, toMain, toWindow)
  BY DEF PrefInv, MessagesOK
<1>1. /\ toWindow # <<>> /\ r = Head(toWindow) /\ r \in WindowMessages
      /\ UNCHANGED <<file, writes, text, front, opens, moving, acts, askedFor, overlapped,
                     diskFailed, startFailed, moved>>
  BY DEF Delivered
<1>2. r \in Reads /\ 1 \in DOMAIN toWindow /\ r = toWindow[1]
  BY <1>0, <1>1, WindowKinds, Rest
<1>3. r.value \in SettingValues /\ r.value["panels"] \in BOOLEAN /\ r.base \in 0..writes
  BY <1>0, <1>2 DEF Reads, Based, Copies, SettingValues, Fields
<1>4. /\ store' \in [{"panels", "prod"} -> BOOLEAN] /\ store'["prod"] = store["prod"]
      /\ r.for = "form" => store'["panels"] = r.value["panels"]
      /\ r.for # "form" => store'["panels"] = store["panels"]
  BY <1>0, <1>3 DEF SettingTypes
<1>5. SettingTypes'
  <2>1. formOf' \in 0..writes
    BY <1>0, <1>3 DEF SettingTypes
  <2> QED BY <1>0, <1>1, <1>4, <2>1 DEF SettingTypes
<1>6. FormOK'
  <2>1. CASE formOf' = formOf
    BY <1>0, <1>1, <2>1 DEF FormOK, Sure
  <2>2. CASE formOf' = r.base /\ r.value = form
    <3>1. Sure /\ r.base = writes => r.value = file
      BY <1>0, <1>2 DEF ReadsOK, CopiesOK, Copies
    <3> QED BY <1>1, <2>2, <3>1 DEF FormOK, Sure
  <2> QED BY <2>1, <2>2
<1>7. ~moved => ApartHere'
  BY <1>0, <1>1 DEF ApartOK, ApartHere
<1>8. /\ r \in StoreItems <=> r.for = "form"
      /\ r \notin FormItems(front) /\ r \notin PathItems(front)
  BY <1>1 DEF StoreItems, FormItems, PathItems
<1> QED BY <1>4, <1>5, <1>6, <1>7, <1>8, HeardKeeps DEF Silent

\* The panel hears that the path has moved, and asks which it is when it was cleared.
LEMMA MovedKeeps ==
  ASSUME PrefInv, NEW r, Delivered(r), r.op = "moved",
         form' = IF r.by = front THEN [form EXCEPT !["path"] = r.custom] ELSE form,
         IF r.custom
         THEN /\ shownPath' = IF r.by = front THEN "custom" ELSE shownPath
              /\ UNCHANGED toMain
         ELSE /\ toMain' = Append(toMain, [op |-> "path", for |-> "path", by |-> r.by])
              /\ UNCHANGED shownPath,
         UNCHANGED <<store, formOf, edited, editor>>
  PROVE  PrefInv'
<1>0. /\ SettingTypes /\ ReadsOK /\ FormOK /\ ApartOK
      /\ toMain \in Seq(MainMessages) /\ toWindow \in Seq(WindowMessages)
  BY DEF PrefInv, MessagesOK
<1>1. /\ toWindow # <<>> /\ r = Head(toWindow) /\ r \in WindowMessages
      /\ toWindow' = Tail(toWindow)
      /\ UNCHANGED <<file, writes, text, front, opens, moving, acts, askedFor, overlapped,
                     diskFailed, startFailed, moved>>
  BY DEF Delivered
<1>2. r \in Moveds /\ 1 \in DOMAIN toWindow /\ r = toWindow[1]
  BY <1>0, <1>1, WindowKinds, Rest
<1>3. r.custom \in BOOLEAN /\ r.by \in Nat
  BY <1>2 DEF Moveds
<1>4. /\ form' \in SettingValues
      /\ \A f \in Fields : f # "path" => form'[f] = form[f]
      /\ r.by = front => form'["path"] = r.custom
      /\ r.by # front => form' = form
  BY <1>0, <1>3 DEF SettingTypes, SettingValues, Fields
<1>5. shownPath' \in Files
  BY <1>0 DEF SettingTypes, Files
<1>6. SettingTypes'
  BY <1>0, <1>1, <1>4, <1>5 DEF SettingTypes
<1>7. FormOK'
  <2> SUFFICES ASSUME Sure', front' # Closed, formOf' = writes', NEW f \in Fields
               PROVE  \/ form'[f] = file'[f] \/ f \in edited'
                      \/ f \in {"panels", "url"} /\ form'[f] = askedFor'[f]
    BY DEF FormOK
  <2>1. Sure /\ front # Closed /\ formOf = writes
    BY <1>1 DEF Sure
  <2>2. \/ form[f] = file[f] \/ f \in edited
        \/ f \in {"panels", "url"} /\ form[f] = askedFor[f]
    BY <1>0, <2>1 DEF FormOK
  <2>3. CASE f = "path" /\ r.by = front
    <3>1. r.custom = file["path"]
      BY <1>0, <1>2, <2>1 DEF ReadsOK, NewsOK
    <3> QED BY <1>1, <1>4, <2>3, <3>1
  <2>4. CASE ~(f = "path" /\ r.by = front)
    BY <1>1, <1>4, <2>2, <2>4
  <2> QED BY <2>3, <2>4
<1>8. moved
  BY <1>0, <1>2 DEF ApartOK, ApartWindow
<1>9. /\ r \notin StoreItems
      /\ r \in FormItems(front) <=> r.by = front
      /\ r \in FormRights(askedFor["path"]) => r.custom = askedFor["path"]
  BY <1>1 DEF StoreItems, FormItems, FormRights
<1>10. CASE r.custom = TRUE
  <2>1. /\ shownPath' = (IF r.by = front THEN "custom" ELSE shownPath)
        /\ toMain' = toMain
    BY <1>10
  <2>2. /\ r \in PathItems(front) <=> r.by = front
        /\ r \in PathRights(PathOf(askedFor)) => PathOf(askedFor) = "custom"
    BY <1>1, <1>10 DEF PathItems, PathRights
  <2> QED BY <1>1, <1>4, <1>6, <1>7, <1>8, <1>9, <1>10, <2>1, <2>2, HeardKeeps DEF Silent
<1>11. CASE r.custom = FALSE
  <2> DEFINE m == [op |-> "path", for |-> "path", by |-> r.by]
             s == <<m>>
  <2>1. toMain' = Append(toMain, m) /\ shownPath' = shownPath
    BY <1>11
  <2>2. m.op = "path" /\ m.by = r.by /\ m \in MainMessages
    BY <1>3 DEF MainMessages, PathAsks
  <2> HIDE DEF m
  <2>3. s \in Seq(MainMessages) /\ toMain' = toMain \o s /\ DOMAIN s = {1} /\ s[1] = m
    BY <1>0, <2>1, <2>2, Appended
  <2> HIDE DEF s
  <2>4. FieldsOK'
    BY <1>1, <2>2, <2>3, TakenQuiet
  <2>5. r \notin PathItems(front)
    BY <1>11 DEF PathItems
  <2>6. /\ \A i \in DOMAIN s : s[i].op = "set" => s[i].base \in 0..writes
        /\ \A i \in DOMAIN s : s[i].op # "clear"
        /\ r.by = front => \E k \in DOMAIN s : s[k].op = "path" /\ s[k].by = front
    BY <2>2, <2>3
  <2>7. s \in Seq(MainMessages) /\ toMain' = toMain \o s /\ shownPath' = shownPath
    BY <2>1, <2>3
  <2>8. /\ r \in FormItems(front) /\ r \in FormRights(askedFor["path"]) =>
             form'["path"] = askedFor["path"]
        /\ r \notin FormItems(front) => form'["path"] = form["path"]
    BY <1>4, <1>9
  <2> QED BY <1>1, <1>6, <1>7, <1>8, <1>9, <2>4, <2>5, <2>6, <2>7, <2>8, TakenKeeps
<1> QED BY <1>3, <1>10, <1>11

\* The window takes an answer.
LEMMA WindowKeeps == PrefInv /\ WindowTakes => PrefInv'
<1> SUFFICES ASSUME PrefInv, WindowTakes PROVE PrefInv'
  OBVIOUS
<1> DEFINE r == Head(toWindow)
<1>1. /\ toWindow # <<>> /\ toWindow' = Tail(toWindow)
      /\ UNCHANGED <<file, writes, text, front, opens, moving, acts, askedFor, overlapped,
                     diskFailed, startFailed, moved>>
  BY DEF WindowTakes, fileVars, pastVars
<1>2. r \in WindowMessages
  <2>1. toWindow \in Seq(WindowMessages)
    BY DEF PrefInv, MessagesOK
  <2> QED BY <1>1, <2>1, Rest
<1>3. Delivered(r)
  BY <1>1, <1>2 DEF Delivered
<1>4. r.op \in {"got", "loaded", "saved", "kubeconfig", "path", "moved", "manifest"}
  BY <1>2, WindowKinds
<1>5. CASE r.op = "got"
  <2>1. /\ toMain' = Append(toMain, Set(r.for, r.by, Written(r), r.base))
        /\ UNCHANGED <<store, form, formOf, edited, editor, shownPath>>
    BY <1>5 DEF WindowTakes
  <2> HIDE DEF r
  <2> QED BY <1>3, <1>5, <2>1, GotKeeps
<1>6. CASE r.op = "loaded"
  <2>1. /\ IF r.by = front
           THEN form' = r.value /\ formOf' = r.base /\ edited' = {}
           ELSE UNCHANGED <<form, formOf, edited>>
        /\ UNCHANGED <<store, toMain, editor, shownPath>>
    BY <1>6 DEF WindowTakes
  <2> HIDE DEF r
  <2> QED BY <1>3, <1>6, <2>1, LoadedKeeps
<1>7. CASE r.op = "kubeconfig"
  <2>1. /\ IF r.by = front
           THEN /\ editor' = [original |-> r.text, content |-> r.text]
                /\ shownPath' = r.path
           ELSE UNCHANGED <<editor, shownPath>>
        /\ UNCHANGED <<store, toMain, form, formOf, edited>>
    BY <1>7 DEF WindowTakes
  <2> HIDE DEF r
  <2> QED BY <1>3, <1>7, <2>1, TextHeardKeeps
<1>8. CASE r.op = "moved"
  <2>1. /\ form' = IF r.by = front THEN [form EXCEPT !["path"] = r.custom] ELSE form
        /\ IF r.custom
           THEN /\ shownPath' = IF r.by = front THEN "custom" ELSE shownPath
                /\ UNCHANGED toMain
           ELSE /\ toMain' = Append(toMain, [op |-> "path", for |-> "path", by |-> r.by])
                /\ UNCHANGED shownPath
        /\ UNCHANGED <<store, formOf, edited, editor>>
    BY <1>8 DEF WindowTakes
  <2> HIDE DEF r
  <2> QED BY <1>3, <1>8, <2>1, MovedKeeps
<1>9. CASE r.op = "path"
  <2>1. /\ shownPath' = IF r.by = front THEN r.path ELSE shownPath
        /\ UNCHANGED <<store, toMain, form, formOf, edited, editor>>
    BY <1>9 DEF WindowTakes
  <2> HIDE DEF r
  <2> QED BY <1>3, <1>9, <2>1, PathHeardKeeps
<1>10. CASE r.op = "saved"
  <2>1. /\ store' = IF r.for # "form" THEN store
                    ELSE [store EXCEPT !["panels"] = r.value["panels"]]
        /\ formOf' = IF r.for = "form" /\ r.by = front /\ r.value = form
                     THEN r.base ELSE formOf
        /\ UNCHANGED <<toMain, form, edited, editor, shownPath>>
    BY <1>10 DEF WindowTakes
  <2> HIDE DEF r
  <2> QED BY <1>3, <1>10, <2>1, SavedKeeps
<1>11. CASE r.op = "manifest"
  <2>1. /\ editor' = IF r.by = front THEN [editor EXCEPT !.original = r.text] ELSE editor
        /\ UNCHANGED <<store, toMain, form, formOf, edited, shownPath>>
    BY <1>11 DEF WindowTakes
  <2> HIDE DEF r
  <2> QED BY <1>3, <1>11, <2>1, TextSavedKeeps
<1> QED BY <1>4, <1>5, <1>6, <1>7, <1>8, <1>9, <1>10, <1>11

\* Settings: a setting keeps the value last asked for, store and file agree, the text of one
\* kubeconfig is not written into another, and a panel names the path that is used.
THEOREM PrefsHold == PrefSpec => []PreferencesTrue
<1> DEFINE Nxt == FormNext \/ ManifestNext
<1>1. PrefInit => PrefInv
  BY PrefStarts
<1>2. PrefInv /\ [Nxt]_prefVars => PrefInv'
  <2> SUFFICES ASSUME PrefInv, [Nxt]_prefVars PROVE PrefInv'
    OBVIOUS
  <2>1. CASE Moves
    BY <2>1, OpenPanelKeeps, LeaveKeeps, ToggleProdKeeps, MainKeeps, WindowKeeps, DialogKeeps,
       ResetKeeps, ChosenKeeps, RestartKeeps DEF Moves
  <2>2. CASE ApplyChanges \/ DetectNow \/ DisconnectPrometheus
    BY <2>2, ApplyKeeps, UrlKeeps
  <2>3. CASE \E f \in {"panels", "url"} : EditForm(f)
    BY <2>3, EditKeeps
  <2>4. CASE EditManifest \/ Discard \/ UpdateManifest
    BY <2>4, ManifestKeeps, UpdateManifestKeeps
  <2>5. CASE UNCHANGED prefVars
    <3>1. UNCHANGED <<file, writes, text, store, front, opens, form, formOf, edited, editor,
                      shownPath, toMain, toWindow, moving, acts, askedFor, overlapped, diskFailed,
                      startFailed, moved>>
      BY <2>5 DEF prefVars, fileVars, formVars, pastVars
    <3>2. /\ SettingTypes /\ MessagesOK /\ FieldsOK /\ ReadsOK /\ FormOK /\ MovingOK /\ StoreOK
          /\ ApartOK /\ PathFormOK /\ PathNameOK
      BY DEF PrefInv
    <3>3. SettingTypes'
      BY <3>1, <3>2 DEF SettingTypes
    <3>5. FormOK'
      BY <3>1, <3>2 DEF FormOK, Sure
    <3>6. ~moved => ApartHere'
      BY <3>1, <3>2 DEF ApartOK, ApartHere
    <3>7. Mover' => Mover
      BY <3>1 DEF Mover, Sure
    <3> QED BY <3>1, <3>3, <3>5, <3>6, <3>7, HereKeeps
  <2> QED BY <2>1, <2>2, <2>3, <2>4, <2>5 DEF FormNext, ManifestNext
<1>3. PrefInv => PreferencesTrue
  BY PrefInvTells
<1> QED BY <1>1, <1>2, <1>3, PTL DEF PrefSpec

(***************************************************************************)
(* Updates: what the window tells of an update                             *)
(***************************************************************************)

\* The number of the event that the page has heard last.
LastHeard == received.since + Len(received.events)

\* What has happened, what waits, and what is on its way to the page.
QueuesOK ==
  /\ emitted \in Seq(News) /\ pendingEvents \in Seq(Nat) /\ mailbox \in Seq(Nat)
  /\ received \in [since: Nat, events: Seq(Nat)] /\ Len(pendingEvents) <= MaxPending
  /\ \A i \in DOMAIN pendingEvents : pendingEvents[i] \in 1..Len(emitted)
  /\ \A i \in DOMAIN mailbox : mailbox[i] \in 0..Len(emitted)
  /\ mainWindow \in {"none", "loading", "shown"} /\ windowReady \in BOOLEAN
  /\ dropped \in BOOLEAN
  /\ mainWindow = "shown" => windowReady /\ pendingEvents = <<>>

\* The types of the rest; an Update Center that is closed, and a page that is not there,
\* have heard nothing.
RestOK ==
  /\ work \subseteq {"check", "download"} /\ failedWork \subseteq {"check", "download"}
  /\ found \in BOOLEAN /\ notice \in [status: Statuses, dismissed: BOOLEAN]
  /\ center \in [open: BOOLEAN, status: Statuses]
  /\ ~center.open => center.status = "idle"
  /\ mainWindow # "shown" => notice.status = "idle" /\ center.status = "idle"

\* Nothing is missing: what waits are the newest events, in order, and all of them
\* before the first window; what is on its way to a page are those after the one it
\* has heard last, in order, and rejections (0) among them.
OrderOK ==
  ~dropped =>
    /\ mainWindow # "shown" =>
         /\ Len(pendingEvents) <= Len(emitted)
         /\ \A i \in DOMAIN pendingEvents :
              pendingEvents[i] = Len(emitted) - Len(pendingEvents) + i
         /\ ~windowReady => Len(pendingEvents) = Len(emitted)
    /\ mainWindow = "shown" =>
         /\ \A i \in DOMAIN received.events : received.events[i] = received.since + i
         /\ LastHeard <= Len(emitted)
         /\ \A i \in DOMAIN mailbox : mailbox[i] # 0 => LastHeard < mailbox[i]
         /\ \A i \in DOMAIN mailbox, j \in DOMAIN mailbox :
              i < j /\ mailbox[i] # 0 /\ mailbox[j] # 0 => mailbox[i] < mailbox[j]
         /\ \A n \in (LastHeard + 1)..Len(emitted) : \E i \in DOMAIN mailbox : mailbox[i] = n

\* Of the first n events one is e, and none after it is among the ends.
Going(n, e, ends) ==
  \E i \in 1..n : emitted[i] = e /\ \A j \in (i + 1)..n : emitted[j] \notin ends
\* The events that end a check.
CheckEndings == {"available", "not-available"}

\* A status tells of an event that was heard, and of none that ended it.
StatusTells ==
  /\ notice.status = "ready" \/ center.status = "ready" =>
       \E i \in DOMAIN emitted : emitted[i] = "downloaded"
  /\ mainWindow = "shown" /\ ~dropped =>
       /\ center.status = "checking" => Going(LastHeard, "checking", CheckEndings)
       /\ "downloading" \in {center.status, notice.status} =>
            Going(LastHeard, "progress", {"downloaded"})

\* A check or a download that no event has ended is under way, or has failed.
WorkTells ==
  /\ Going(Len(emitted), "checking", CheckEndings) => "check" \in work \cup failedWork
  /\ Going(Len(emitted), "progress", {"downloaded"}) => "download" \in work \cup failedWork

\* The inductive invariant of the updates.
UpdatesInv == QueuesOK /\ RestOK /\ OrderOK /\ StatusTells /\ WorkTells

\* What the invariant says of the banner and of the Update Center.
LEMMA UpdatesInvTells == UpdatesInv => UpdatesTrue
<1> SUFFICES ASSUME UpdatesInv PROVE UpdatesTrue
  OBVIOUS
<1>1. UpdatesTypeOK
  <2>1. /\ work \subseteq {"check", "download"} /\ failedWork \subseteq {"check", "download"}
        /\ found \in BOOLEAN /\ emitted \in Seq(News) /\ windowReady \in BOOLEAN
        /\ mainWindow \in {"none", "loading", "shown"} /\ dropped \in BOOLEAN
    <3>1. QueuesOK /\ RestOK
      BY DEF UpdatesInv
    <3> QED BY <3>1 DEF QueuesOK, RestOK
  <2>2. /\ notice \in [status: Statuses, dismissed: BOOLEAN]
        /\ center \in [open: BOOLEAN, status: Statuses] /\ Len(pendingEvents) <= MaxPending
    <3>1. QueuesOK /\ RestOK
      BY DEF UpdatesInv
    <3> QED BY <3>1 DEF QueuesOK, RestOK
  <2>3. /\ notice.status \in Statuses /\ notice.dismissed \in BOOLEAN
        /\ center.open \in BOOLEAN /\ center.status \in Statuses
    BY <2>2
  <2> QED BY <2>1, <2>2, <2>3, Zenon DEF UpdatesTypeOK
<1>2. RestartIsReady
  BY DEF UpdatesInv, StatusTells, RestartIsReady
<1>3. ASSUME mainWindow = "shown", mailbox = <<>>, ~dropped
      PROVE  LastHeard = Len(emitted)
  <2>1. LastHeard \in Nat /\ Len(emitted) \in Nat /\ LastHeard <= Len(emitted)
    BY <1>3 DEF UpdatesInv, QueuesOK, OrderOK, LastHeard
  <2>2. ~(LastHeard < Len(emitted))
    BY <1>3, <2>1 DEF UpdatesInv, OrderOK
  <2> QED BY <2>1, <2>2
<1>4. NewsComplete
  <2> SUFFICES ASSUME mainWindow = "shown", mailbox = <<>>, ~dropped
               PROVE  /\ Len(received.events) = Len(emitted) - received.since
                      /\ \A i \in DOMAIN received.events :
                           received.events[i] = received.since + i
    BY DEF NewsComplete
  <2>1. Len(received.events) = Len(emitted) - received.since
    BY <1>3 DEF LastHeard, UpdatesInv, QueuesOK
  <2> QED BY <2>1 DEF UpdatesInv, OrderOK
<1>5. BusyHasWork
  BY <1>3 DEF BusyHasWork, UpdatesInv, StatusTells, WorkTells
<1> QED BY <1>1, <1>2, <1>4, <1>5 DEF UpdatesTrue

\* It holds at first.
LEMMA UpdatesStart == UpdatesInit => UpdatesInv
<1> SUFFICES ASSUME UpdatesInit PROVE UpdatesInv
  OBVIOUS
<1> USE UpdatesAssumption
<1>1. QueuesOK /\ RestOK
  <2>1. /\ emitted = <<>> /\ pendingEvents = <<>> /\ mailbox = <<>> /\ work = {}
        /\ received = [since |-> 0, events |-> <<>>] /\ mainWindow = "loading"
        /\ windowReady = FALSE /\ dropped = FALSE /\ found = FALSE /\ failedWork = {}
        /\ notice = [status |-> "idle", dismissed |-> FALSE]
        /\ center = [open |-> FALSE, status |-> "idle"]
    BY DEF UpdatesInit, NoBanner
  <2>2. QueuesOK
    <3>1. /\ Len(emitted) = 0 /\ DOMAIN pendingEvents = {} /\ DOMAIN mailbox = {}
          /\ emitted \in Seq(News) /\ pendingEvents \in Seq(Nat) /\ mailbox \in Seq(Nat)
          /\ Len(pendingEvents) <= MaxPending
      BY <2>1
    <3>2. received \in [since: Nat, events: Seq(Nat)]
      BY <2>1
    <3> QED BY <2>1, <3>1, <3>2 DEF QueuesOK
  <2>3. RestOK
    BY <2>1 DEF RestOK, Statuses
  <2> QED BY <2>2, <2>3
<1>2. OrderOK /\ StatusTells
  BY DEF UpdatesInit, OrderOK, StatusTells, NoBanner
<1>3. WorkTells
  BY DEF UpdatesInit, WorkTells, Going
<1> QED BY <1>1, <1>2, <1>3 DEF UpdatesInv

\* What is going on among the first n events is so when another has come.
LEMMA GoingStays ==
  ASSUME emitted \in Seq(News), NEW e \in News, emitted' = Append(emitted, e),
         NEW n \in 0..Len(emitted), NEW f, NEW ends
  PROVE  Going(n, f, ends)' <=> Going(n, f, ends)
<1>1. \A i \in 1..n : emitted'[i] = emitted[i]
  OBVIOUS
<1>2. \A i \in 1..n : \A j \in (i + 1)..n : j \in 1..n
  OBVIOUS
<1> QED BY <1>1, <1>2 DEF Going

\* What goes on after another event went on before, or has begun with it; what ends it
\* has not come.
LEMMA GoingGrows ==
  ASSUME emitted \in Seq(News), NEW e \in News, emitted' = Append(emitted, e),
         NEW f, NEW ends, Going(Len(emitted), f, ends)'
  PROVE  e = f \/ (Going(Len(emitted), f, ends) /\ e \notin ends)
<1>1. /\ Len(emitted') = Len(emitted) + 1 /\ emitted'[Len(emitted) + 1] = e
      /\ Len(emitted) \in Nat
  OBVIOUS
<1>2. PICK i \in 1..(Len(emitted) + 1) :
        emitted'[i] = f /\ \A j \in (i + 1)..(Len(emitted) + 1) : emitted'[j] \notin ends
  BY <1>1 DEF Going
<1>3. CASE i = Len(emitted) + 1
  BY <1>1, <1>2, <1>3
<1>4. CASE i # Len(emitted) + 1
  <2>1. i \in 1..Len(emitted) /\ \A j \in 1..Len(emitted) : emitted'[j] = emitted[j]
    BY <1>1, <1>4
  <2>2. \A j \in (i + 1)..Len(emitted) :
          j \in (i + 1)..(Len(emitted) + 1) /\ j \in 1..Len(emitted)
    BY <1>1, <2>1
  <2>3. Len(emitted) + 1 \in (i + 1)..(Len(emitted) + 1)
    BY <1>1, <2>1
  <2>4. emitted[i] = f /\ \A j \in (i + 1)..Len(emitted) : emitted[j] \notin ends
    BY <1>2, <2>1, <2>2
  <2> QED BY <1>1, <1>2, <2>1, <2>3, <2>4 DEF Going
<1> QED BY <1>3, <1>4

\* An event that the library tells of is lost to nobody who can hear it.
LEMMA SendKeeps ==
  ASSUME UpdatesInv, NEW e \in News, send(e), PageStays
  PROVE  QueuesOK' /\ OrderOK' /\ StatusTells'
<1> USE UpdatesAssumption
<1>1. /\ QueuesOK /\ OrderOK /\ StatusTells
      /\ emitted' = Append(emitted, e) /\ emitted' \in Seq(News)
      /\ Len(emitted') = Len(emitted) + 1 /\ Len(emitted) \in Nat
      /\ UNCHANGED <<mainWindow, windowReady, received, notice, center>>
      /\ LastHeard' = LastHeard
  BY DEF UpdatesInv, send, PageStays, QueuesOK, LastHeard
<1>2. ASSUME Queued
      PROVE  /\ UNCHANGED mailbox /\ mainWindow # "shown"
             /\ \/ /\ pendingEvents' = Append(pendingEvents, Len(emitted) + 1)
                   /\ Len(pendingEvents) < MaxPending /\ dropped' = dropped
                \/ UNCHANGED pendingEvents /\ dropped'
  <2>1. /\ UNCHANGED mailbox
        /\ pendingEvents' = IF Len(pendingEvents) < MaxPending
                            THEN Append(pendingEvents, Len(emitted')) ELSE pendingEvents
        /\ dropped' = (dropped \/ Len(pendingEvents) >= MaxPending)
    BY <1>2, Zenon DEF send
  <2>2. mainWindow # "shown" /\ Len(pendingEvents) \in Nat
    BY <1>1, <1>2 DEF Queued, QueuesOK
  <2>3. CASE Len(pendingEvents) < MaxPending
    <3>1. ~(Len(pendingEvents) >= MaxPending)
      BY <2>2, <2>3
    <3>2. dropped' = dropped
      BY <1>1, <2>1, <3>1, Zenon DEF QueuesOK
    <3> QED BY <1>1, <2>1, <2>2, <2>3, <3>2
  <2>4. CASE ~(Len(pendingEvents) < MaxPending)
    <3>1. Len(pendingEvents) >= MaxPending
      BY <2>2, <2>4
    <3>2. dropped'
      BY <2>1, <3>1, Zenon
    <3> QED BY <1>1, <2>1, <2>2, <2>4, <3>2
  <2> QED BY <2>3, <2>4
<1>3. ASSUME ~Queued
      PROVE  /\ UNCHANGED pendingEvents /\ mainWindow \in {"loading", "shown"} /\ windowReady
             /\ \/ /\ mainWindow = "shown" /\ mailbox' = Append(mailbox, Len(emitted) + 1)
                   /\ dropped' = dropped
                \/ mainWindow = "loading" /\ UNCHANGED mailbox /\ dropped'
  <2>1. /\ UNCHANGED pendingEvents
        /\ mailbox' = IF mainWindow = "shown" THEN Append(mailbox, Len(emitted')) ELSE mailbox
        /\ dropped' = (dropped \/ (mainWindow = "loading" /\ windowReady))
    BY <1>3, Zenon DEF send
  <2>2. mainWindow \in {"loading", "shown"} /\ windowReady
    BY <1>1, <1>3 DEF Queued, QueuesOK
  <2>3. CASE mainWindow = "shown"
    <3>1. dropped' = dropped
      BY <1>1, <2>1, <2>3, Zenon DEF QueuesOK
    <3> QED BY <1>1, <2>1, <2>2, <2>3, <3>1
  <2>4. CASE mainWindow = "loading"
    <3>1. dropped'
      BY <2>1, <2>2, <2>4, Zenon
    <3> QED BY <1>1, <2>1, <2>2, <2>4, <3>1
  <2> QED BY <2>2, <2>3, <2>4
<1>4. QueuesOK'
  <2>1. CASE Queued
    <3>1. /\ mailbox' = mailbox /\ mailbox \in Seq(Nat) /\ pendingEvents \in Seq(Nat)
          /\ \A i \in DOMAIN mailbox : mailbox[i] \in 0..Len(emitted)
          /\ \A i \in DOMAIN pendingEvents : pendingEvents[i] \in 1..Len(emitted)
          /\ Len(pendingEvents) <= MaxPending /\ mainWindow # "shown"
      BY <1>1, <1>2, <2>1 DEF QueuesOK
    <3>2. /\ pendingEvents' \in Seq(Nat) /\ Len(pendingEvents') <= MaxPending
          /\ \A i \in DOMAIN pendingEvents' : pendingEvents'[i] \in 1..(Len(emitted) + 1)
      <4>1. CASE UNCHANGED pendingEvents
        BY <1>1, <3>1, <4>1
      <4>2. CASE /\ pendingEvents' = Append(pendingEvents, Len(emitted) + 1)
                 /\ Len(pendingEvents) < MaxPending
        <5>1. Len(emitted) + 1 \in Nat /\ Len(emitted) \in Nat
          BY <1>1
        <5>2. /\ pendingEvents' \in Seq(Nat) /\ Len(pendingEvents') = Len(pendingEvents) + 1
              /\ Len(pendingEvents) \in Nat /\ DOMAIN pendingEvents = 1..Len(pendingEvents)
              /\ DOMAIN pendingEvents' = 1..(Len(pendingEvents) + 1)
              /\ \A i \in 1..Len(pendingEvents) : pendingEvents'[i] = pendingEvents[i]
              /\ pendingEvents'[Len(pendingEvents) + 1] = Len(emitted) + 1
          BY <3>1, <4>2, <5>1, Longer
        <5> QED BY <3>1, <4>2, <5>1, <5>2
      <4> QED BY <1>2, <2>1, <4>1, <4>2
    <3>3. dropped' \in BOOLEAN
      BY <1>1, <1>2, <2>1, Zenon DEF QueuesOK
    <3>4. \A i \in DOMAIN mailbox : mailbox[i] \in 0..(Len(emitted) + 1)
      BY <1>1, <3>1
    <3> QED BY <1>1, <3>1, <3>2, <3>3, <3>4 DEF QueuesOK
  <2>2. CASE ~Queued
    <3>1. /\ pendingEvents' = pendingEvents /\ mailbox \in Seq(Nat)
          /\ pendingEvents \in Seq(Nat)
          /\ \A i \in DOMAIN mailbox : mailbox[i] \in 0..Len(emitted)
          /\ \A i \in DOMAIN pendingEvents : pendingEvents[i] \in 1..Len(emitted)
      BY <1>1, <1>3, <2>2 DEF QueuesOK
    <3>2. /\ mailbox' \in Seq(Nat)
          /\ \A i \in DOMAIN mailbox' : mailbox'[i] \in 0..(Len(emitted) + 1)
      <4>1. CASE UNCHANGED mailbox
        BY <1>1, <3>1, <4>1
      <4>2. CASE mailbox' = Append(mailbox, Len(emitted) + 1)
        <5>1. Len(emitted) + 1 \in Nat /\ Len(emitted) \in Nat
          BY <1>1
        <5>2. /\ mailbox' \in Seq(Nat) /\ Len(mailbox) \in Nat
              /\ DOMAIN mailbox = 1..Len(mailbox) /\ DOMAIN mailbox' = 1..(Len(mailbox) + 1)
              /\ \A i \in 1..Len(mailbox) : mailbox'[i] = mailbox[i]
              /\ mailbox'[Len(mailbox) + 1] = Len(emitted) + 1
          BY <3>1, <4>2, <5>1, Longer
        <5> QED BY <3>1, <4>2, <5>1, <5>2
      <4> QED BY <1>3, <2>2, <4>1, <4>2
    <3>3. dropped' \in BOOLEAN
      BY <1>1, <1>3, <2>2, Zenon DEF QueuesOK
    <3>4. \A i \in DOMAIN pendingEvents : pendingEvents[i] \in 1..(Len(emitted) + 1)
      BY <1>1, <3>1
    <3> QED BY <1>1, <3>1, <3>2, <3>3, <3>4 DEF QueuesOK
  <2> QED BY <2>1, <2>2
<1>5. OrderOK'
  <2> SUFFICES ASSUME ~dropped' PROVE OrderOK'
    BY DEF OrderOK
  <2>1. CASE Queued
    <3>1. /\ pendingEvents' = Append(pendingEvents, Len(emitted) + 1) /\ ~dropped
          /\ pendingEvents \in Seq(Nat) /\ mainWindow # "shown"
      BY <1>1, <1>2, <2>1 DEF QueuesOK
    <3>2. /\ Len(pendingEvents) <= Len(emitted) /\ Len(pendingEvents) \in Nat
          /\ \A i \in DOMAIN pendingEvents :
               pendingEvents[i] = Len(emitted) - Len(pendingEvents) + i
          /\ ~windowReady => Len(pendingEvents) = Len(emitted)
      BY <1>1, <3>1 DEF OrderOK
    <3>3. \A i \in DOMAIN pendingEvents' :
            pendingEvents'[i] = Len(emitted') - Len(pendingEvents') + i
      <4>1. Len(emitted) + 1 \in Nat /\ Len(emitted) \in Nat /\ Len(emitted') = Len(emitted) + 1
        BY <1>1
      <4>2. /\ Len(pendingEvents') = Len(pendingEvents) + 1
            /\ Len(pendingEvents) \in Nat /\ DOMAIN pendingEvents = 1..Len(pendingEvents)
            /\ DOMAIN pendingEvents' = 1..(Len(pendingEvents) + 1)
            /\ \A i \in 1..Len(pendingEvents) : pendingEvents'[i] = pendingEvents[i]
            /\ pendingEvents'[Len(pendingEvents) + 1] = Len(emitted) + 1
        BY <3>1, <4>1, Longer
      <4> QED BY <3>2, <4>1, <4>2
    <3> QED BY <1>1, <3>1, <3>2, <3>3 DEF OrderOK
  <2>2. CASE ~Queued
    <3>1. /\ mailbox' = Append(mailbox, Len(emitted) + 1) /\ ~dropped /\ mainWindow = "shown"
          /\ mailbox \in Seq(Nat) /\ LastHeard \in Nat
          /\ \A i \in DOMAIN mailbox : mailbox[i] \in 0..Len(emitted)
      BY <1>1, <1>3, <2>2 DEF QueuesOK, LastHeard
    <3>2. /\ \A i \in DOMAIN received.events : received.events[i] = received.since + i
          /\ LastHeard <= Len(emitted)
          /\ \A i \in DOMAIN mailbox : mailbox[i] # 0 => LastHeard < mailbox[i]
          /\ \A i \in DOMAIN mailbox, j \in DOMAIN mailbox :
               i < j /\ mailbox[i] # 0 /\ mailbox[j] # 0 => mailbox[i] < mailbox[j]
          /\ \A n \in (LastHeard + 1)..Len(emitted) : \E i \in DOMAIN mailbox : mailbox[i] = n
      BY <1>1, <3>1 DEF OrderOK
    <3>3. /\ DOMAIN mailbox' = 1..(Len(mailbox) + 1) /\ DOMAIN mailbox = 1..Len(mailbox)
          /\ Len(mailbox) \in Nat
          /\ \A i \in 1..Len(mailbox) : mailbox'[i] = mailbox[i]
          /\ mailbox'[Len(mailbox) + 1] = Len(emitted) + 1
      BY <3>1
    <3>4. \A i \in DOMAIN mailbox' : mailbox'[i] # 0 => LastHeard < mailbox'[i]
      BY <1>1, <3>1, <3>2, <3>3
    <3>5. \A i \in DOMAIN mailbox', j \in DOMAIN mailbox' :
            i < j /\ mailbox'[i] # 0 /\ mailbox'[j] # 0 => mailbox'[i] < mailbox'[j]
      BY <1>1, <3>1, <3>2, <3>3
    <3>6. \A n \in (LastHeard + 1)..(Len(emitted) + 1) :
            \E i \in DOMAIN mailbox' : mailbox'[i] = n
      <4> TAKE n \in (LastHeard + 1)..(Len(emitted) + 1)
      <4>1. CASE n = Len(emitted) + 1
        BY <3>3, <4>1
      <4>2. CASE n # Len(emitted) + 1
        <5>1. n \in (LastHeard + 1)..Len(emitted)
          BY <1>1, <3>1, <4>2
        <5>2. PICK i \in DOMAIN mailbox : mailbox[i] = n
          BY <3>2, <5>1
        <5> QED BY <3>3, <5>2
      <4> QED BY <4>1, <4>2
    <3>7. /\ received' = received /\ LastHeard' = LastHeard /\ mainWindow' = mainWindow
          /\ Len(emitted') = Len(emitted) + 1 /\ Len(emitted) \in Nat
      BY <1>1
    <3>8. LastHeard' <= Len(emitted')
      BY <3>1, <3>2, <3>7
    <3> QED BY <3>1, <3>2, <3>4, <3>5, <3>6, <3>7, <3>8 DEF OrderOK
  <2> QED BY <2>1, <2>2
<1>6. StatusTells'
  <2>1. notice.status = "ready" \/ center.status = "ready" =>
          \E i \in DOMAIN emitted' : emitted'[i] = "downloaded"
    BY <1>1 DEF StatusTells
  <2>2. ASSUME mainWindow = "shown", ~dropped'
        PROVE  ~dropped /\ LastHeard \in 0..Len(emitted)
    BY <1>1, <1>2, <1>3, <2>2 DEF QueuesOK, OrderOK, LastHeard
  <2>3. ASSUME mainWindow = "shown", ~dropped', NEW f, NEW ends, Going(LastHeard, f, ends)
        PROVE  Going(LastHeard, f, ends)'
    <3>1. PICK n \in 0..Len(emitted) : n = LastHeard
      BY <2>2, <2>3
    <3>2. Going(n, f, ends)' <=> Going(n, f, ends)
      BY <1>1, GoingStays
    <3> QED BY <1>1, <2>3, <3>1, <3>2 DEF Going
  <2> QED BY <1>1, <2>1, <2>2, <2>3 DEF StatusTells
<1> QED BY <1>4, <1>5, <1>6

\* What is on its way stays as it is when the library does not tell of anything.
LEMMA NoNewsKeeps ==
  ASSUME UpdatesInv, UNCHANGED <<emitted, pendingEvents, mailbox, dropped>>, PageStays
  PROVE  QueuesOK' /\ OrderOK' /\ StatusTells'
<1>1. /\ UNCHANGED <<emitted, pendingEvents, mailbox, dropped, mainWindow, windowReady, received,
                     notice, center>>
      /\ QueuesOK /\ OrderOK /\ StatusTells
  BY DEF UpdatesInv, PageStays
<1>2. QueuesOK'
  BY <1>1 DEF QueuesOK
<1>3. OrderOK'
  BY <1>1 DEF OrderOK, LastHeard
<1>4. StatusTells'
  BY <1>1 DEF StatusTells, LastHeard, Going
<1> QED BY <1>2, <1>3, <1>4

\* A rejection comes among the events, and is none of them.
LEMMA RejectedKeeps ==
  ASSUME UpdatesInv, mainWindow = "shown", mailbox' = Append(mailbox, 0),
         UNCHANGED <<emitted, pendingEvents, dropped>>, PageStays
  PROVE  QueuesOK' /\ OrderOK' /\ StatusTells'
<1>1. /\ UNCHANGED <<emitted, pendingEvents, dropped, mainWindow, windowReady, received,
                     notice, center>>
      /\ QueuesOK /\ OrderOK /\ StatusTells
  BY DEF UpdatesInv, PageStays
<1>2. /\ mailbox' \in Seq(Nat) /\ Len(mailbox) \in Nat
      /\ DOMAIN mailbox = 1..Len(mailbox) /\ DOMAIN mailbox' = 1..(Len(mailbox) + 1)
      /\ \A i \in 1..Len(mailbox) : mailbox'[i] = mailbox[i]
      /\ mailbox'[Len(mailbox) + 1] = 0
  <2>1. mailbox \in Seq(Nat)
    BY <1>1 DEF QueuesOK
  <2> QED BY <2>1, Longer
<1>3. Len(emitted) \in Nat /\ \A i \in DOMAIN mailbox' : mailbox'[i] \in 0..Len(emitted)
  BY <1>1, <1>2 DEF QueuesOK
<1>4. QueuesOK'
  BY <1>1, <1>2, <1>3 DEF QueuesOK
<1>5. OrderOK'
  <2> SUFFICES ASSUME ~dropped PROVE OrderOK'
    BY <1>1 DEF OrderOK
  <2>1. /\ \A i \in DOMAIN received.events : received.events[i] = received.since + i
        /\ LastHeard <= Len(emitted)
        /\ \A i \in DOMAIN mailbox : mailbox[i] # 0 => LastHeard < mailbox[i]
        /\ \A i \in DOMAIN mailbox, j \in DOMAIN mailbox :
             i < j /\ mailbox[i] # 0 /\ mailbox[j] # 0 => mailbox[i] < mailbox[j]
        /\ \A n \in (LastHeard + 1)..Len(emitted) : \E i \in DOMAIN mailbox : mailbox[i] = n
    BY <1>1 DEF OrderOK
  <2>2. /\ \A i \in DOMAIN mailbox' : mailbox'[i] # 0 => LastHeard < mailbox'[i]
        /\ \A n \in (LastHeard + 1)..Len(emitted) : \E i \in DOMAIN mailbox' : mailbox'[i] = n
    BY <1>2, <2>1
  <2>3. \A i \in DOMAIN mailbox', j \in DOMAIN mailbox' :
          i < j /\ mailbox'[i] # 0 /\ mailbox'[j] # 0 => mailbox'[i] < mailbox'[j]
    BY <1>2, <2>1
  <2>4. LastHeard' = LastHeard
    BY <1>1 DEF LastHeard
  <2> QED BY <1>1, <2>1, <2>2, <2>3, <2>4 DEF OrderOK
<1>6. StatusTells'
  BY <1>1 DEF StatusTells, LastHeard, Going
<1> QED BY <1>4, <1>5, <1>6

\* A check or a download: what goes on is known to the library, or has failed.
LEMMA CheckKeeps ==
  ASSUME UpdatesInv, CheckForUpdates, UNCHANGED found, PageStays
  PROVE  UpdatesInv'
<1>1. CASE "check" \in work
  <2>1. UNCHANGED <<work, failedWork, emitted, pendingEvents, mailbox, dropped>>
    BY <1>1 DEF CheckForUpdates
  <2>2. RestOK' /\ WorkTells'
    BY <2>1 DEF UpdatesInv, PageStays, RestOK, WorkTells, Going
  <2> QED BY <2>1, <2>2, NoNewsKeeps DEF UpdatesInv
<1>2. CASE "check" \notin work
  <2>1. /\ work' = work \cup {"check"} /\ failedWork' = failedWork \ {"check"}
        /\ send("checking") /\ "checking" \in News
    BY <1>2, Zenon DEF CheckForUpdates, News
  <2>2. QueuesOK' /\ OrderOK' /\ StatusTells'
    BY <2>1, SendKeeps
  <2>3. RestOK'
    BY <2>1 DEF UpdatesInv, PageStays, RestOK
  <2>4. WorkTells'
    <3>1. /\ emitted \in Seq(News) /\ emitted' = Append(emitted, "checking") /\ WorkTells
      BY <2>1 DEF UpdatesInv, QueuesOK, send
    <3>2. ASSUME Going(Len(emitted), "progress", {"downloaded"})'
          PROVE  Going(Len(emitted), "progress", {"downloaded"})
      BY <2>1, <3>1, <3>2, GoingGrows
    <3> QED BY <2>1, <3>1, <3>2 DEF WorkTells
  <2> QED BY <2>2, <2>3, <2>4 DEF UpdatesInv
<1> QED BY <1>1, <1>2

\* The end of a check is told, or it has failed.
LEMMA CheckEndsKeeps == ASSUME UpdatesInv, CheckEnds PROVE UpdatesInv'
<1>1. /\ "check" \in work /\ work' = work \ {"check"} /\ PageStays
      /\ RestOK /\ WorkTells /\ emitted \in Seq(News)
  BY DEF CheckEnds, UpdatesInv, QueuesOK
<1>2. ASSUME NEW e \in CheckEndings, send(e), UNCHANGED failedWork, found' \in BOOLEAN
      PROVE  UpdatesInv'
  <2>1. e \in News /\ emitted' = Append(emitted, e)
    BY <1>2 DEF CheckEndings, News, send
  <2>2. QueuesOK' /\ OrderOK' /\ StatusTells'
    BY <1>1, <1>2, <2>1, SendKeeps
  <2>3. RestOK'
    BY <1>1, <1>2 DEF PageStays, RestOK
  <2>4. WorkTells'
    <3>1. ~Going(Len(emitted), "checking", CheckEndings)'
      <4>1. e # "checking" /\ e \in CheckEndings
        BY <1>2 DEF CheckEndings
      <4> QED BY <1>1, <2>1, <4>1, GoingGrows
    <3>2. ASSUME Going(Len(emitted), "progress", {"downloaded"})'
          PROVE  Going(Len(emitted), "progress", {"downloaded"})
      <4>1. e # "progress"
        BY <1>2 DEF CheckEndings
      <4> QED BY <1>1, <2>1, <3>2, <4>1, GoingGrows
    <3>3. "download" \in work \cup failedWork => "download" \in work' \cup failedWork'
      BY <1>1, <1>2
    <3>4. CheckEndings' = CheckEndings
      BY DEF CheckEndings
    <3> QED BY <1>1, <3>1, <3>2, <3>3, <3>4 DEF WorkTells
  <2> QED BY <2>2, <2>3, <2>4 DEF UpdatesInv
<1>3. CASE found' = TRUE /\ send("available") /\ UNCHANGED failedWork
  <2>1. "available" \in CheckEndings /\ found' \in BOOLEAN
    BY <1>3 DEF CheckEndings
  <2> QED BY <1>2, <1>3, <2>1
<1>4. CASE found' = FALSE /\ send("not-available") /\ UNCHANGED failedWork
  <2>1. "not-available" \in CheckEndings /\ found' \in BOOLEAN
    BY <1>4 DEF CheckEndings
  <2> QED BY <1>2, <1>4, <2>1
<1>5. CASE /\ failedWork' = failedWork \cup {"check"}
           /\ UNCHANGED <<found, emitted, pendingEvents, mailbox, dropped>>
  <2>1. QueuesOK' /\ OrderOK' /\ StatusTells'
    BY <1>1, <1>5, NoNewsKeeps
  <2>2. RestOK' /\ WorkTells'
    BY <1>1, <1>5 DEF PageStays, RestOK, WorkTells, Going
  <2> QED BY <2>1, <2>2 DEF UpdatesInv
<1> QED BY <1>3, <1>4, <1>5 DEF CheckEnds

\* Progress is told while a download is under way.
LEMMA DownloadProgressKeeps == ASSUME UpdatesInv, DownloadProgress PROVE UpdatesInv'
<1>1. /\ "download" \in work /\ send("progress") /\ PageStays /\ "progress" \in News
      /\ UNCHANGED <<work, found, failedWork>>
      /\ RestOK /\ WorkTells /\ emitted \in Seq(News)
  BY DEF DownloadProgress, UpdatesInv, QueuesOK, News
<1>2. QueuesOK' /\ OrderOK' /\ StatusTells'
  BY <1>1, SendKeeps
<1>3. RestOK'
  BY <1>1 DEF PageStays, RestOK
<1>4. emitted' = Append(emitted, "progress")
  BY <1>1 DEF send
<1>5. ASSUME Going(Len(emitted), "checking", CheckEndings)'
      PROVE  Going(Len(emitted), "checking", CheckEndings)
  BY <1>1, <1>4, <1>5, GoingGrows
<1>6. WorkTells'
  BY <1>1, <1>5 DEF WorkTells, CheckEndings
<1> QED BY <1>2, <1>3, <1>6 DEF UpdatesInv

\* The end of a download is told, or it has failed.
LEMMA DownloadEndsKeeps == ASSUME UpdatesInv, DownloadEnds PROVE UpdatesInv'
<1>1. /\ work' = work \ {"download"} /\ UNCHANGED found /\ PageStays
      /\ RestOK /\ WorkTells /\ emitted \in Seq(News)
  BY DEF DownloadEnds, UpdatesInv, QueuesOK
<1>2. CASE send("downloaded") /\ UNCHANGED failedWork
  <2>1. "downloaded" \in News /\ emitted' = Append(emitted, "downloaded")
    BY <1>2 DEF News, send
  <2>2. QueuesOK' /\ OrderOK' /\ StatusTells'
    BY <1>1, <1>2, <2>1, SendKeeps
  <2>3. RestOK'
    BY <1>1, <1>2 DEF PageStays, RestOK
  <2>4. ASSUME Going(Len(emitted), "checking", CheckEndings)'
        PROVE  Going(Len(emitted), "checking", CheckEndings)
    BY <1>1, <2>1, <2>4, GoingGrows
  <2>5. ~Going(Len(emitted), "progress", {"downloaded"})'
    BY <1>1, <2>1, GoingGrows
  <2>6. "check" \in work \cup failedWork => "check" \in work' \cup failedWork'
    BY <1>1, <1>2
  <2>7. WorkTells'
    BY <1>1, <2>4, <2>5, <2>6 DEF WorkTells, CheckEndings
  <2> QED BY <2>2, <2>3, <2>7 DEF UpdatesInv
<1>3. CASE /\ failedWork' = failedWork \cup {"download"}
           /\ mailbox' = IF mainWindow = "shown" THEN Append(mailbox, 0) ELSE mailbox
           /\ UNCHANGED <<emitted, pendingEvents, dropped>>
  <2>1. QueuesOK' /\ OrderOK' /\ StatusTells'
    BY <1>1, <1>3, NoNewsKeeps, RejectedKeeps
  <2>2. RestOK' /\ WorkTells'
    BY <1>1, <1>3 DEF PageStays, RestOK, WorkTells, Going
  <2> QED BY <2>1, <2>2 DEF UpdatesInv
<1> QED BY <1>2, <1>3 DEF DownloadEnds

\* A download that is ordered goes on, or is rejected.
LEMMA DownloadKeeps == ASSUME UpdatesInv, Download PROVE UpdatesInv'
<1>1. /\ mainWindow = "shown" /\ UNCHANGED <<found, emitted, pendingEvents, dropped>> /\ PageStays
      /\ RestOK /\ WorkTells
  BY DEF Download, UpdatesInv
<1>2. CASE found
  <2>1. /\ work' = work \cup {"download"} /\ failedWork' = failedWork \ {"download"}
        /\ UNCHANGED mailbox
    BY <1>2, Zenon DEF Download
  <2>2. QueuesOK' /\ OrderOK' /\ StatusTells'
    BY <1>1, <2>1, NoNewsKeeps
  <2>3. RestOK' /\ WorkTells'
    BY <1>1, <2>1 DEF PageStays, RestOK, WorkTells, Going
  <2> QED BY <2>2, <2>3 DEF UpdatesInv
<1>3. CASE ~found
  <2>1. mailbox' = Append(mailbox, 0) /\ UNCHANGED <<work, failedWork>>
    BY <1>3, Zenon DEF Download
  <2>2. QueuesOK' /\ OrderOK' /\ StatusTells'
    BY <1>1, <2>1, RejectedKeeps
  <2>3. RestOK' /\ WorkTells'
    BY <1>1, <2>1 DEF PageStays, RestOK, WorkTells, Going
  <2> QED BY <2>2, <2>3 DEF UpdatesInv
<1> QED BY <1>2, <1>3

\* A window that comes receives all that waits.
LEMMA ShownKeeps == ASSUME UpdatesInv, WindowShown PROVE UpdatesInv'
<1>1. /\ mainWindow = "loading" /\ mainWindow' = "shown" /\ windowReady' = TRUE
      /\ mailbox' = pendingEvents /\ pendingEvents' = <<>>
      /\ UNCHANGED <<work, found, emitted, notice, center, failedWork, dropped>>
      /\ QueuesOK /\ RestOK /\ OrderOK /\ StatusTells /\ WorkTells
  BY DEF WindowShown, UpdatesInv
<1> DEFINE first == CASE ~windowReady -> 0
                      [] windowReady /\ pendingEvents = <<>> -> Len(emitted)
                      [] OTHER -> Head(pendingEvents) - 1
<1>2. received' = [since |-> first, events |-> <<>>]
  BY DEF WindowShown
<1>3. /\ pendingEvents \in Seq(Nat) /\ Len(pendingEvents) \in Nat /\ Len(emitted) \in Nat
      /\ DOMAIN pendingEvents = 1..Len(pendingEvents) /\ windowReady \in BOOLEAN
      /\ \A i \in DOMAIN pendingEvents : pendingEvents[i] \in 1..Len(emitted)
  BY <1>1 DEF QueuesOK
<1>4. pendingEvents # <<>> => Head(pendingEvents) = pendingEvents[1] /\ 1 \in DOMAIN pendingEvents
  BY <1>3
<1>5. first \in Nat
  <2>1. CASE ~windowReady
    BY <2>1
  <2>2. CASE windowReady /\ pendingEvents = <<>>
    BY <1>3, <2>2
  <2>3. CASE windowReady /\ pendingEvents # <<>>
    <3>1. Head(pendingEvents) \in 1..Len(emitted)
      BY <1>3, <1>4, <2>3
    <3>2. first = Head(pendingEvents) - 1
      BY <2>3
    <3> QED BY <1>3, <3>1, <3>2
  <2> QED BY <2>1, <2>2, <2>3
<1>6. ~dropped => /\ first = Len(emitted) - Len(pendingEvents)
                  /\ \A i \in DOMAIN pendingEvents : pendingEvents[i] = first + i
  <2> SUFFICES ASSUME ~dropped
               PROVE  /\ first = Len(emitted) - Len(pendingEvents)
                      /\ \A i \in DOMAIN pendingEvents : pendingEvents[i] = first + i
    OBVIOUS
  <2>1. /\ Len(pendingEvents) <= Len(emitted)
        /\ \A i \in DOMAIN pendingEvents :
             pendingEvents[i] = Len(emitted) - Len(pendingEvents) + i
        /\ ~windowReady => Len(pendingEvents) = Len(emitted)
    BY <1>1 DEF OrderOK
  <2>2. first = Len(emitted) - Len(pendingEvents)
    <3>1. CASE ~windowReady
      <4>1. first = 0
        BY <3>1
      <4> QED BY <1>3, <2>1, <3>1, <4>1
    <3>2. CASE windowReady /\ pendingEvents = <<>>
      <4>1. first = Len(emitted) /\ Len(pendingEvents) = 0
        BY <3>2
      <4> QED BY <1>3, <4>1
    <3>3. CASE windowReady /\ pendingEvents # <<>>
      <4>1. first = Head(pendingEvents) - 1
        BY <3>3
      <4>2. Head(pendingEvents) = Len(emitted) - Len(pendingEvents) + 1
        BY <1>4, <2>1, <3>3
      <4> HIDE DEF first
      <4> QED BY <1>3, <4>1, <4>2
    <3> QED BY <3>1, <3>2, <3>3
  <2> HIDE DEF first
  <2> QED BY <1>3, <2>1, <2>2
<1> HIDE DEF first
<1>7. QueuesOK'
  <2>1. received' \in [since: Nat, events: Seq(Nat)]
    BY <1>2, <1>5
  <2>2. \A i \in DOMAIN mailbox' : mailbox'[i] \in 0..Len(emitted)
    BY <1>1, <1>3
  <2>3. Len(pendingEvents') <= MaxPending /\ DOMAIN pendingEvents' = {}
        /\ pendingEvents' \in Seq(Nat)
    BY <1>1, UpdatesAssumption
  <2> QED BY <1>1, <1>3, <2>1, <2>2, <2>3 DEF QueuesOK
<1>8. LastHeard' = first /\ DOMAIN received'.events = {}
  BY <1>2, <1>5 DEF LastHeard
<1>9. OrderOK'
  <2> SUFFICES ASSUME ~dropped PROVE OrderOK'
    BY <1>1 DEF OrderOK
  <2>1. /\ first <= Len(emitted)
        /\ \A i \in DOMAIN mailbox' : mailbox'[i] = first + i /\ first < mailbox'[i]
        /\ \A i \in DOMAIN mailbox', j \in DOMAIN mailbox' : i < j => mailbox'[i] < mailbox'[j]
    BY <1>1, <1>3, <1>5, <1>6
  <2>2. \A n \in (first + 1)..Len(emitted) : \E i \in DOMAIN mailbox' : mailbox'[i] = n
    <3> TAKE n \in (first + 1)..Len(emitted)
    <3>1. n - first \in 1..Len(pendingEvents)
      BY <1>3, <1>5, <1>6
    <3>2. mailbox'[n - first] = first + (n - first)
      BY <1>1, <1>3, <2>1, <3>1
    <3> QED BY <1>1, <1>3, <1>5, <3>1, <3>2
  <2> QED BY <1>1, <1>8, <2>1, <2>2 DEF OrderOK
<1>10. StatusTells'
  BY <1>1 DEF RestOK, StatusTells
<1>11. RestOK' /\ WorkTells'
  BY <1>1 DEF RestOK, WorkTells, Going
<1> QED BY <1>7, <1>9, <1>10, <1>11 DEF UpdatesInv

\* A window that is closed takes what it has heard with it.
LEMMA ClosedKeeps == ASSUME UpdatesInv, WindowClosed \/ Activate PROVE UpdatesInv'
<1>1. /\ mainWindow' \in {"none", "loading"} /\ mailbox' \in {<<>>, mailbox}
      /\ UNCHANGED <<work, found, emitted, windowReady, pendingEvents, received, failedWork,
                     dropped>>
      /\ mainWindow \in {"none", "shown"}
      /\ QueuesOK /\ RestOK /\ OrderOK /\ StatusTells /\ WorkTells
  BY DEF WindowClosed, Activate, UpdatesInv
<1>2. /\ notice' \in {notice, NoBanner} /\ center' \in {center, [open |-> FALSE, status |-> "idle"]}
      /\ notice'.status = "idle" /\ center'.status = "idle"
  BY <1>1 DEF WindowClosed, Activate, NoBanner, RestOK
<1>3. QueuesOK'
  <2>1. mailbox' \in Seq(Nat) /\ \A i \in DOMAIN mailbox' : mailbox'[i] \in 0..Len(emitted)
    <3>1. CASE mailbox' = mailbox
      BY <1>1, <3>1 DEF QueuesOK
    <3>2. CASE mailbox' = <<>>
      <4>1. mailbox' \in Seq(Nat) /\ DOMAIN mailbox' = {}
        BY <3>2
      <4> QED BY <4>1
    <3> QED BY <1>1, <3>1, <3>2
  <2> QED BY <1>1, <2>1 DEF QueuesOK
<1>4. OrderOK'
  <2> SUFFICES ASSUME ~dropped
               PROVE  /\ Len(pendingEvents) <= Len(emitted)
                      /\ \A i \in DOMAIN pendingEvents :
                           pendingEvents[i] = Len(emitted) - Len(pendingEvents) + i
                      /\ ~windowReady => Len(pendingEvents) = Len(emitted)
    BY <1>1 DEF OrderOK
  <2>1. CASE mainWindow = "none"
    BY <1>1, <2>1 DEF OrderOK
  <2>2. CASE mainWindow = "shown"
    BY <1>1, <2>2 DEF QueuesOK
  <2> QED BY <1>1, <2>1, <2>2
<1>5. RestOK'
  <2>1. /\ notice' \in [status: Statuses, dismissed: BOOLEAN]
        /\ center' \in [open: BOOLEAN, status: Statuses]
    <3>1. /\ notice \in [status: Statuses, dismissed: BOOLEAN]
          /\ center \in [open: BOOLEAN, status: Statuses] /\ "idle" \in Statuses
      BY <1>1 DEF RestOK, Statuses
    <3>2. /\ NoBanner \in [status: Statuses, dismissed: BOOLEAN]
          /\ [open |-> FALSE, status |-> "idle"] \in [open: BOOLEAN, status: Statuses]
      BY <3>1 DEF NoBanner
    <3> QED BY <1>2, <3>1, <3>2
  <2> QED BY <1>1, <1>2, <2>1 DEF RestOK
<1>6. StatusTells' /\ WorkTells'
  BY <1>1, <1>2 DEF StatusTells, WorkTells, Going
<1> QED BY <1>3, <1>4, <1>5, <1>6 DEF UpdatesInv

\* The page hears the next event, or that its download was rejected.
LEMMA ReceiveKeeps == ASSUME UpdatesInv, Receive PROVE UpdatesInv'
<1>1. /\ mainWindow = "shown" /\ mailbox # <<>> /\ mailbox' = Tail(mailbox)
      /\ UNCHANGED <<work, found, emitted, mainWindow, windowReady, pendingEvents, failedWork,
                     dropped>>
      /\ QueuesOK /\ RestOK /\ OrderOK /\ StatusTells /\ WorkTells
      /\ mailbox \in Seq(Nat) /\ emitted \in Seq(News)
      /\ \A i \in DOMAIN mailbox : mailbox[i] \in 0..Len(emitted)
      /\ received \in [since: Nat, events: Seq(Nat)]
  BY DEF Receive, UpdatesInv, QueuesOK
<1>2. /\ mailbox' \in Seq(Nat) /\ Len(mailbox) \in Nat /\ Len(mailbox) >= 1
      /\ DOMAIN mailbox = 1..Len(mailbox) /\ DOMAIN mailbox' = 1..(Len(mailbox) - 1)
      /\ \A i \in 1..(Len(mailbox) - 1) : mailbox'[i] = mailbox[i + 1]
      /\ Head(mailbox) = mailbox[1] /\ 1 \in DOMAIN mailbox /\ Len(emitted) \in Nat
      /\ \A i \in DOMAIN mailbox' : i + 1 \in DOMAIN mailbox
  BY <1>1
<1>3. \A i \in DOMAIN mailbox' : mailbox'[i] \in 0..Len(emitted)
  BY <1>1, <1>2
<1>4. ~dropped =>
        /\ \A i \in DOMAIN received.events : received.events[i] = received.since + i
        /\ LastHeard <= Len(emitted)
        /\ \A i \in DOMAIN mailbox : mailbox[i] # 0 => LastHeard < mailbox[i]
        /\ \A i \in DOMAIN mailbox, j \in DOMAIN mailbox :
             i < j /\ mailbox[i] # 0 /\ mailbox[j] # 0 => mailbox[i] < mailbox[j]
        /\ \A n \in (LastHeard + 1)..Len(emitted) : \E i \in DOMAIN mailbox : mailbox[i] = n
  BY <1>1 DEF OrderOK
<1>5. ~dropped => \A i \in DOMAIN mailbox', j \in DOMAIN mailbox' :
        i < j /\ mailbox'[i] # 0 /\ mailbox'[j] # 0 => mailbox'[i] < mailbox'[j]
  <2> SUFFICES ASSUME ~dropped, NEW i \in DOMAIN mailbox', NEW j \in DOMAIN mailbox', i < j,
                      mailbox'[i] # 0, mailbox'[j] # 0
               PROVE  mailbox'[i] < mailbox'[j]
    OBVIOUS
  <2>1. /\ i + 1 \in DOMAIN mailbox /\ j + 1 \in DOMAIN mailbox /\ i + 1 < j + 1
        /\ mailbox[i + 1] = mailbox'[i] /\ mailbox[j + 1] = mailbox'[j]
    BY <1>2
  <2> QED BY <1>4, <2>1
<1>6. WorkTells'
  BY <1>1 DEF WorkTells, Going
<1>7. CASE Head(mailbox) = 0
  <2>1. notice' = [notice EXCEPT !.status = "error"] /\ UNCHANGED <<center, received>>
    BY <1>7, Zenon DEF Receive
  <2>2. QueuesOK'
    BY <1>1, <1>2, <1>3, <2>1 DEF QueuesOK
  <2>3. /\ RestOK' /\ notice' \in [status: Statuses, dismissed: BOOLEAN]
        /\ notice'.status = "error"
    BY <1>1, <2>1 DEF RestOK, Statuses
  <2>4. LastHeard' = LastHeard
    BY <2>1 DEF LastHeard
  <2>5. OrderOK'
    <3> SUFFICES ASSUME ~dropped PROVE OrderOK'
      BY <1>1 DEF OrderOK
    <3>1. \A i \in DOMAIN mailbox' : mailbox'[i] # 0 => LastHeard < mailbox'[i]
      BY <1>2, <1>4
    <3>2. \A n \in (LastHeard + 1)..Len(emitted) : \E i \in DOMAIN mailbox' : mailbox'[i] = n
      <4> TAKE n \in (LastHeard + 1)..Len(emitted)
      <4>1. PICK i \in DOMAIN mailbox : mailbox[i] = n
        BY <1>4
      <4>2. n # 0 /\ i # 1
        <5>1. LastHeard \in Nat
          BY <1>1 DEF LastHeard
        <5> QED BY <1>2, <1>7, <4>1, <5>1
      <4>3. i - 1 \in DOMAIN mailbox' /\ mailbox'[i - 1] = mailbox[i]
        BY <1>2, <4>2
      <4> QED BY <4>1, <4>3
    <3> QED BY <1>1, <1>4, <1>5, <2>1, <2>4, <3>1, <3>2 DEF OrderOK
  <2>6. StatusTells'
    BY <1>1, <2>1, <2>3, <2>4 DEF StatusTells, Going
  <2> QED BY <1>6, <2>2, <2>3, <2>5, <2>6 DEF UpdatesInv
<1>8. CASE Head(mailbox) # 0
  <2> DEFINE n == Head(mailbox)
  <2>1. n \in 1..Len(emitted) /\ n \in Nat /\ n = mailbox[1] /\ emitted[n] \in News
    BY <1>1, <1>2, <1>8, SMTT(30)
  <2>2. /\ notice' = BannerAfter(notice, emitted[n])
        /\ center' = IF center.open
                     THEN [center EXCEPT !.status = CenterAfter(emitted[n], center.status)]
                     ELSE center
        /\ received' = [received EXCEPT !.events = Append(@, n)]
    BY <1>8, Zenon DEF Receive
  <2> HIDE DEF n
  <2>3. /\ received'.since = received.since /\ received'.events = Append(received.events, n)
        /\ received' \in [since: Nat, events: Seq(Nat)]
    <3>1. received.since \in Nat /\ received.events \in Seq(Nat)
      BY <1>1
    <3>2. Append(received.events, n) \in Seq(Nat)
      BY <2>1, <3>1, Longer
    <3>3. received' = [since |-> received.since, events |-> Append(received.events, n)]
      BY <1>1, <2>2
    <3> QED BY <3>1, <3>2, <3>3
  <2>4. QueuesOK'
    BY <1>1, <1>2, <1>3, <2>3 DEF QueuesOK
  <2>5. /\ received.events \in Seq(Nat) /\ Len(received.events) \in Nat /\ received.since \in Nat
        /\ Len(received'.events) = Len(received.events) + 1
        /\ DOMAIN received.events = 1..Len(received.events)
        /\ DOMAIN received'.events = 1..(Len(received.events) + 1)
        /\ \A i \in 1..Len(received.events) : received'.events[i] = received.events[i]
        /\ received'.events[Len(received.events) + 1] = n
    <3>1. received.events \in Seq(Nat) /\ received.since \in Nat
      BY <1>1
    <3> QED BY <2>1, <2>3, <3>1, Longer
  <2>6. LastHeard' = LastHeard + 1 /\ LastHeard \in Nat
    <3>1. LastHeard' = received.since + (Len(received.events) + 1)
      BY <2>3, <2>5 DEF LastHeard
    <3>2. LastHeard = received.since + Len(received.events)
      BY DEF LastHeard
    <3>3. received.since \in Nat /\ Len(received.events) \in Nat
      BY <2>5
    <3> QED BY <3>1, <3>2, <3>3
  <2>7. ~dropped => n = LastHeard + 1
    <3> SUFFICES ASSUME ~dropped PROVE n = LastHeard + 1
      OBVIOUS
    <3>1. LastHeard < n
      BY <1>2, <1>4, <1>8, <2>1 DEF n
    <3>2. LastHeard + 1 \in (LastHeard + 1)..Len(emitted)
      BY <1>2, <2>1, <2>6, <3>1
    <3>3. PICK i \in DOMAIN mailbox : mailbox[i] = LastHeard + 1
      BY <1>4, <3>2
    <3>4. CASE i = 1
      BY <2>1, <3>3, <3>4
    <3>5. CASE i # 1
      <4>1. 1 < i /\ mailbox[1] # 0 /\ mailbox[i] # 0
        BY <1>2, <1>8, <2>1, <2>6, <3>3, <3>5
      <4>2. mailbox[1] < mailbox[i]
        BY <1>2, <1>4, <4>1
      <4> QED BY <2>1, <2>6, <3>1, <3>3, <4>2
    <3> QED BY <3>4, <3>5
  <2>8. OrderOK'
    <3> SUFFICES ASSUME ~dropped PROVE OrderOK'
      BY <1>1 DEF OrderOK
    <3>1. \A i \in DOMAIN received'.events : received'.events[i] = received'.since + i
      <4>1. LastHeard + 1 = received.since + (Len(received.events) + 1)
        BY <2>5 DEF LastHeard
      <4>2. \A i \in 1..Len(received.events) : received'.events[i] = received.since + i
        BY <1>4, <2>5
      <4>3. \A i \in 1..(Len(received.events) + 1) :
              i \in 1..Len(received.events) \/ i = Len(received.events) + 1
        BY <2>5
      <4> QED BY <2>3, <2>5, <2>7, <4>1, <4>2, <4>3
    <3>2. LastHeard + 1 <= Len(emitted)
      BY <2>1, <2>7
    <3>3. \A i \in DOMAIN mailbox' : mailbox'[i] # 0 => LastHeard + 1 < mailbox'[i]
      <4> SUFFICES ASSUME NEW i \in DOMAIN mailbox', mailbox'[i] # 0
                   PROVE  LastHeard + 1 < mailbox'[i]
        OBVIOUS
      <4>1. 1 < i + 1 /\ i + 1 \in DOMAIN mailbox /\ mailbox[i + 1] = mailbox'[i]
        BY <1>2
      <4> QED BY <1>2, <1>4, <1>8, <2>1, <2>7, <4>1, ZenonT(40)
    <3>4. \A m \in (LastHeard + 2)..Len(emitted) : \E i \in DOMAIN mailbox' : mailbox'[i] = m
      <4> TAKE m \in (LastHeard + 2)..Len(emitted)
      <4>1. PICK i \in DOMAIN mailbox : mailbox[i] = m
        <5>1. m \in (LastHeard + 1)..Len(emitted)
          BY <1>2, <2>6
        <5> QED BY <1>4, <5>1
      <4>2. i # 1
        BY <1>2, <2>1, <2>6, <2>7, <4>1
      <4>3. i - 1 \in DOMAIN mailbox' /\ mailbox'[i - 1] = mailbox[i]
        BY <1>2, <4>2
      <4> QED BY <4>1, <4>3
    <3>5. (LastHeard + 1) + 1 = LastHeard + 2
      BY <2>6
    <3> QED BY <1>1, <1>5, <2>6, <3>1, <3>2, <3>3, <3>4, <3>5 DEF OrderOK
  <2>9. RestOK'
    <3>1. \A s \in Statuses : /\ StatusOf(emitted[n], s) \in Statuses
                              /\ CenterAfter(emitted[n], s) \in Statuses
      BY <2>1 DEF StatusOf, CenterAfter, News, Statuses
    <3>2. notice' \in [status: Statuses, dismissed: BOOLEAN]
      BY <1>1, <2>2, <3>1 DEF RestOK, BannerAfter
    <3>3. /\ center' \in [open: BOOLEAN, status: Statuses]
          /\ ~center'.open => center'.status = "idle"
      BY <1>1, <2>2, <3>1 DEF RestOK
    <3> QED BY <1>1, <3>2, <3>3 DEF RestOK
  <2>10. StatusTells'
    <3>1. /\ notice.status \in Statuses /\ center \in [open: BOOLEAN, status: Statuses]
          /\ notice'.status = StatusOf(emitted[n], notice.status)
          /\ center'.status = IF center.open THEN CenterAfter(emitted[n], center.status)
                                             ELSE center.status
          /\ ~center.open => center.status = "idle"
      BY <1>1, <2>2 DEF RestOK, BannerAfter
    <3>2. /\ notice'.status = "ready" => emitted[n] = "downloaded" \/ notice.status = "ready"
          /\ notice'.status = "downloading" =>
               emitted[n] = "progress" \/
               (notice.status = "downloading" /\ emitted[n] # "downloaded")
      BY <2>1, <3>1 DEF StatusOf, News
    <3>3. /\ center'.status = "ready" => emitted[n] = "downloaded"
          /\ center'.status = "downloading" => emitted[n] = "progress"
          /\ center'.status = "checking" => emitted[n] = "checking"
      BY <2>1, <3>1 DEF StatusOf, CenterAfter, News
    <3>4. notice'.status = "ready" \/ center'.status = "ready" =>
            \E i \in DOMAIN emitted : emitted[i] = "downloaded"
      BY <1>1, <2>1, <3>2, <3>3 DEF StatusTells
    <3>5. ASSUME ~dropped, NEW f, NEW ends, emitted[n] = f
          PROVE  Going(LastHeard, f, ends)'
      <4>1. n \in 1..(LastHeard + 1) /\ (n + 1)..(LastHeard + 1) = {}
        BY <2>1, <2>6, <2>7, <3>5
      <4> QED BY <1>1, <2>6, <3>5, <4>1 DEF Going
    <3>6. ASSUME ~dropped, NEW f, NEW ends, Going(LastHeard, f, ends), emitted[n] \notin ends
          PROVE  Going(LastHeard, f, ends)'
      <4>1. PICK i \in 1..LastHeard :
              emitted[i] = f /\ \A j \in (i + 1)..LastHeard : emitted[j] \notin ends
        BY <3>6 DEF Going
      <4>2. i \in 1..(LastHeard + 1)
        BY <2>6
      <4>3. \A j \in (i + 1)..(LastHeard + 1) : j \in (i + 1)..LastHeard \/ j = n
        BY <2>6, <2>7, <3>6
      <4>4. \A j \in (i + 1)..(LastHeard + 1) : emitted[j] \notin ends
        BY <3>6, <4>1, <4>3
      <4> QED BY <1>1, <2>6, <4>1, <4>2, <4>4 DEF Going
    <3>7. ASSUME ~dropped
          PROVE  /\ center'.status = "checking" => Going(LastHeard, "checking", CheckEndings)'
                 /\ "downloading" \in {center'.status, notice'.status} =>
                      Going(LastHeard, "progress", {"downloaded"})'
      <4>1. notice.status = "downloading" => Going(LastHeard, "progress", {"downloaded"})
        BY <1>1, <3>7 DEF StatusTells
      <4>2. center'.status = "checking" => Going(LastHeard, "checking", CheckEndings)'
        BY <3>3, <3>5, <3>7
      <4>3. emitted[n] = "progress" => Going(LastHeard, "progress", {"downloaded"})'
        BY <3>5, <3>7
      <4>4. notice.status = "downloading" /\ emitted[n] # "downloaded" =>
              Going(LastHeard, "progress", {"downloaded"})'
        BY <3>6, <3>7, <4>1
      <4> QED BY <3>2, <3>3, <4>2, <4>3, <4>4
    <3> QED BY <1>1, <3>4, <3>7 DEF StatusTells, CheckEndings
  <2> QED BY <1>6, <2>4, <2>8, <2>9, <2>10 DEF UpdatesInv
<1> QED BY <1>7, <1>8

\* What the user opens or dismisses tells of nothing new.
LEMMA LooksKeepNews == ASSUME UpdatesInv, OpenCenter \/ Dismiss PROVE UpdatesInv'
<1>1. /\ UNCHANGED <<work, found, emitted, mainWindow, windowReady, pendingEvents, mailbox,
                     received, failedWork, dropped>>
      /\ QueuesOK /\ RestOK /\ OrderOK /\ StatusTells /\ WorkTells
  BY DEF OpenCenter, Dismiss, UpdatesInv
<1>2. /\ notice' \in [status: Statuses, dismissed: BOOLEAN] /\ notice'.status = notice.status
      /\ center' \in [open: BOOLEAN, status: Statuses]
      /\ center'.status \in {"idle", center.status}
      /\ ~center'.open => center'.status = "idle"
  <2>1. /\ notice \in [status: Statuses, dismissed: BOOLEAN] /\ "idle" \in Statuses
        /\ center \in [open: BOOLEAN, status: Statuses]
        /\ ~center.open => center.status = "idle"
    BY <1>1 DEF RestOK, Statuses
  <2>2. CASE OpenCenter
    <3>1. center' = [open |-> TRUE, status |-> "idle"] /\ notice' = notice
      BY <2>2 DEF OpenCenter
    <3> QED BY <2>1, <3>1
  <2>3. CASE Dismiss
    <3>1. notice' = [notice EXCEPT !.dismissed = TRUE] /\ center' = center
      BY <2>3 DEF Dismiss
    <3> QED BY <2>1, <3>1
  <2> QED BY <2>2, <2>3
<1>3. QueuesOK' /\ OrderOK'
  BY <1>1 DEF QueuesOK, OrderOK, LastHeard
<1>4. RestOK'
  BY <1>1, <1>2 DEF RestOK
<1>5. StatusTells' /\ WorkTells'
  BY <1>1, <1>2 DEF StatusTells, WorkTells, Going, LastHeard
<1> QED BY <1>3, <1>4, <1>5 DEF UpdatesInv

\* Updates: no event is lost that a page can hear, a restart is offered only after a
\* download, and a status that says work goes on has work behind it.
THEOREM NewsHold == UpdatesSpec => []UpdatesTrue
<1>1. UpdatesInv /\ [UpdatesNext]_updateVars => UpdatesInv'
  <2> SUFFICES ASSUME UpdatesInv, [UpdatesNext]_updateVars PROVE UpdatesInv'
    OBVIOUS
  <2>1. CASE WindowShown \/ WindowClosed \/ Activate
    BY <2>1, ShownKeeps, ClosedKeeps
  <2>2. CASE CheckElsewhere \/ CheckInCenter
    BY <2>2, CheckKeeps DEF CheckElsewhere, CheckInCenter
  <2>3. CASE CheckEnds \/ DownloadProgress \/ DownloadEnds \/ Download
    BY <2>3, CheckEndsKeeps, DownloadProgressKeeps, DownloadEndsKeeps, DownloadKeeps
  <2>4. CASE Receive \/ OpenCenter \/ Dismiss
    BY <2>4, ReceiveKeeps, LooksKeepNews
  <2>5. CASE UNCHANGED updateVars
    BY <2>5 DEF updateVars, UpdatesInv, QueuesOK, RestOK, OrderOK, StatusTells, WorkTells, Going,
                LastHeard
  <2> QED BY <2>1, <2>2, <2>3, <2>4, <2>5 DEF UpdatesNext
<1> QED BY <1>1, UpdatesStart, UpdatesInvTells, PTL DEF UpdatesSpec

=============================================================================
