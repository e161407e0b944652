------------------------------ MODULE Sections ------------------------------
(***************************************************************************)
(* The sections of the window (resourceSlice, navigationSlice,             *)
(* SectionRouter): which list is on display, which namespace it is of,     *)
(* which object's panel is open beside it, and the loads that arrive after *)
(* the user has moved on.                                                  *)
(*                                                                         *)
(* "pods" stands for every namespaced list and "nodes" for every           *)
(* cluster-scoped one, "network" for the panels that load several lists    *)
(* (network, security, metrics); "dashboard" loads the lists of all        *)
(* namespaces.  The context is fixed here: a switch empties the lists and  *)
(* drops the loads under way (RendererSwitch).                             *)
(* An action is the code between two awaits; the window is a record, since *)
(* one click may go through several operations of the store.               *)
(***************************************************************************)
EXTENDS Naturals, Sequences, FiniteSets

CONSTANTS
  Pods, Nodes,     \* objects
  HomeOf,          \* pod -> its namespace
  Namespaces,      \* those the sidebar offers
  All,             \* "_all"
  MaxLoads,        \* bound: loads
  MaxClicks,       \* bound: clicks
  Nothing

ListNames == {"pods", "nodes"}
SectionNames == ListNames \cup {"network", "dashboard"}
Namespaced == {"pods"}
ClusterScoped == ListNames \ Namespaced
Things == Pods \cup Nodes
Scopes == Namespaces \cup {All}
KindOf(o) == IF o \in Pods THEN "pods" ELSE "nodes"

\* What a list request for a section and namespace returns of the objects there are.
InScope(s, n, o) ==
  /\ KindOf(o) = s
  /\ s \in ClusterScoped \/ n = All \/ HomeOf[o] = n

VARIABLES
  live,    \* the objects of the cluster
  win,     \* the window, see WindowType
  load,    \* loads under way, in the order asked: [section, ns, goal], or NoLoad
  recent,  \* lastRefreshedAt is less than two seconds ago
  clicks

sectionVars == <<live, win, load, recent, clicks>>

NoLoad == [section |-> "none"]

Keys == SectionNames \X Scopes
WindowType ==
  [section: SectionNames,
   ns: Scopes,                             \* selectedNamespace
   selected: Things \cup {Nothing},        \* selectedResource
   rows: [ListNames -> SUBSET Things],     \* the lists of the store
   fresh: SUBSET Keys,                     \* keys of sectionLoadedAt younger than SECTION_TTL
   inFlight: SUBSET Keys,                  \* inFlightSections
   spinner: BOOLEAN,                       \* loadingResources
   denied: SUBSET ListNames,               \* deniedSections
   boardFresh: BOOLEAN,                    \* lastDashboardLoadedAt is not 30 seconds ago
   asked: SUBSET Keys,                     \* history: the keys of all loads
   rowsNs: [ListNames -> Scopes],          \* history: namespace the rows were asked for
   why: [ListNames -> {"asked", "skipped", "late", "failed", "board"}],  \* history:
                                           \* how they came
   chosen: {"row", "node row", "palette", "navigation"},  \* history: what selected it
   miss: SUBSET {"found", "scope", "joined", "failed", "gone"}]  \* history: last navigation

SectionsTypeOK ==
  /\ live \subseteq Things /\ win \in WindowType /\ recent \in BOOLEAN
  /\ clicks \in 0..MaxClicks
  /\ \A i \in DOMAIN load :
        load[i] \in [section: SectionNames \cup {"old dashboard"}, ns: Scopes,
                    goal: Things \cup {Nothing}] \cup {NoLoad}

\* All namespaces are selected and nothing is loaded.
SectionsInit ==
  /\ live = Things
  /\ win = [section |-> "pods", ns |-> All, selected |-> Nothing,
            rows |-> [s \in ListNames |-> {}], fresh |-> {}, inFlight |-> {}, asked |-> {},
            spinner |-> FALSE, denied |-> {}, boardFresh |-> FALSE,
            rowsNs |-> [s \in ListNames |-> All], why |-> [s \in ListNames |-> "asked"],
            chosen |-> "row", miss |-> {"found"}]
  /\ load = <<>> /\ recent = FALSE /\ clicks = 0

--------------------------------------------------------------------------
(* loadSection                                                             *)

\* Slip: the cache is keyed by section.
SlipKey(s, n) == <<s, All>>
\* cacheKey; a cluster-scoped section has one for every namespace as well.
Key(s, n) == <<s, n>>

\* Slip: any load takes the selection away.
SlipFirstLoad(w, s) == TRUE
\* No data yet: the spinner comes, and an open panel goes.
FirstLoad(w, s) == s \in ListNames /\ w.rows[s] = {}

\* The list has the object that navigateToResource waits for, or it is left there.
Find(w, goal, facts) ==
  IF goal = Nothing THEN w
  ELSE IF goal \in w.rows[KindOf(goal)]
  THEN [w EXCEPT !.selected = goal, !.chosen = "navigation", !.miss = {"found"}]
  ELSE [w EXCEPT !.miss = facts]

Skip(w, s, goal) ==
  LET joined == Key(s, w.ns) \in w.inFlight
      why == [w.why EXCEPT ![s] = IF w.rowsNs[s] # w.ns THEN "skipped" ELSE @]
  IN  Find([w EXCEPT !.why = IF joined \/ s \notin ListNames THEN @ ELSE why],
           goal, IF joined THEN {"joined"} ELSE {})

\* A window and the loads asked so far.
After(w, loads) == [w |-> w, loads |-> loads]

Load(s, n, goal) == [section |-> s, ns |-> n, goal |-> goal]

\* dashboardFetchSeq moves on: dashboard loads under way will be dropped.
Outdate(loads) ==
  [i \in DOMAIN loads |->
     IF loads[i].section = "dashboard" THEN [loads[i] EXCEPT !.section = "old dashboard"]
     ELSE loads[i]]

\* loadDashboard, which has its own time stamp and no key.
LoadDashboard(x) ==
  IF x.w.boardFresh THEN x
  ELSE After([x.w EXCEPT !.spinner = TRUE],
             Append(Outdate(x.loads), Load("dashboard", x.w.ns, Nothing)))

LoadList(x, s, goal) ==
  LET w == x.w
      first == FirstLoad(w, s)
  IN  IF Key(s, w.ns) \in w.fresh \cup w.inFlight
      THEN After(Skip(w, s, goal), x.loads)
      ELSE After([w EXCEPT !.inFlight = @ \cup {Key(s, w.ns)},
                           !.asked = @ \cup {<<s, w.ns>>},
                           !.denied = IF s = "nodes" THEN @ ELSE @ \ {s},
                           !.spinner = @ \/ first \/ s = "network",
                           !.selected = IF first THEN Nothing ELSE @],
                 Append(x.loads, Load(s, w.ns, goal)))

LoadSection(x, s, goal) ==
  IF s = "dashboard" THEN LoadDashboard(x) ELSE LoadList(x, s, goal)

\* Slip: the selected object stays open as it was.
SlipReselect(w, s, data) == w.selected
\* The fresh version of the selected object, if the list has it; its section is
\* not asked.
Reselect(w, s, data) == IF w.selected \in data THEN w.selected ELSE Nothing

\* What a load returns.
Data(i) == {o \in live : InScope(load[i].section, load[i].ns, o)}
PodsOf(n) == {o \in live : InScope("pods", n, o)}

\* Rows arrive; an empty list is not taken to be fresh, except of nodes.
FilledList(w, i) ==
  LET s == load[i].section
      n == load[i].ns
      data == Data(i)
  IN  [w EXCEPT !.rows[s] = data, !.spinner = FALSE, !.selected = Reselect(w, s, data),
                !.fresh = IF data # {} \/ s = "nodes" THEN @ \cup {Key(s, n)} ELSE @,
                !.rowsNs[s] = n, !.why[s] = IF n = w.ns THEN "asked" ELSE "late"]

\* A panel's lists arrive, and the selection is not looked at.
FilledPanel(w, i) ==
  LET n == load[i].ns
  IN  [w EXCEPT !.rows["pods"] = PodsOf(n), !.spinner = FALSE,
                !.fresh = @ \cup {Key("network", n)}, !.rowsNs["pods"] = n, !.why["pods"] = "board"]

\* The dashboard's lists of all namespaces; of the selected one where those of all
\* are denied.
FilledBoard(w, n) ==
  [w EXCEPT !.rows = [pods |-> PodsOf(n), nodes |-> live \cap Nodes],
            !.spinner = FALSE, !.boardFresh = TRUE, !.rowsNs["pods"] = n,
            !.why["pods"] = "board"]

Filled(w, i) ==
  CASE load[i].section \in ListNames -> FilledList(w, i)
    [] load[i].section = "network" -> FilledPanel(w, i)
    [] load[i].section = "dashboard" -> FilledBoard(w, All)
    [] OTHER -> [w EXCEPT !.spinner = FALSE]

\* The request failed; RBAC_DENIED empties a list, other errors leave it.  What the
\* dashboard cannot list at all it shows as empty.
Failed(w, i, denial) ==
  LET s == load[i].section
      gone == denial /\ s = "pods"
  IN  CASE s = "dashboard" /\ denial -> FilledBoard(w, load[i].ns)
        [] s = "dashboard" -> [FilledBoard(w, All) EXCEPT !.rows = [l \in ListNames |-> {}]]
        [] OTHER ->
             [w EXCEPT !.spinner = FALSE,
                       !.rows = IF gone THEN [@ EXCEPT ![s] = {}] ELSE @,
                       !.denied = IF gone THEN @ \cup {s} ELSE @,
                       !.why = IF s \in ListNames /\ w.why[s] = "asked"
                               THEN [@ EXCEPT ![s] = "failed"] ELSE @]

\* Slip: the key stays when the request has failed.
SlipLeave(w, i, failed) ==
  IF failed THEN w ELSE [w EXCEPT !.inFlight = @ \ {Key(load[i].section, load[i].ns)}]
\* The finally block, also of a load whose key a refresh has given to another.
Leave(w, i, failed) == [w EXCEPT !.inFlight = @ \ {Key(load[i].section, load[i].ns)}]

Answer(i) ==
  /\ load[i] # NoLoad
  /\ LET goal == load[i].goal
         why == (IF InScope(load[i].section, load[i].ns, goal) THEN {} ELSE {"scope"})
                \cup (IF goal \in live THEN {} ELSE {"gone"})
     IN  win' = Find(Leave(Filled(win, i), i, FALSE), goal, why)
  /\ load' = [load EXCEPT ![i] = NoLoad]
  /\ UNCHANGED <<live, recent, clicks>>

Fail(i, denial) ==
  /\ load[i] # NoLoad
  /\ win' = Find(Leave(Failed(win, i, denial), i, TRUE), load[i].goal, {"failed"})
  /\ load' = [load EXCEPT ![i] = NoLoad]
  /\ UNCHANGED <<live, recent, clicks>>

--------------------------------------------------------------------------
(* What the user does                                                      *)

Becomes(x) == win' = x.w /\ load' = x.loads
Click ==
  /\ clicks < MaxClicks /\ Len(load) < MaxLoads
  /\ clicks' = clicks + 1
  /\ UNCHANGED <<live, recent>>
Now == After(win, load)

\* Slip: the panel stays open.
SlipInSection(x, s) == LoadSection(After([x.w EXCEPT !.section = s], x.loads), s, Nothing)
\* setSection: sidebar, shortcut of the palette, links of panels.
InSection(x, s) ==
  LoadSection(After([x.w EXCEPT !.section = s, !.selected = Nothing], x.loads), s, Nothing)

\* selectNamespace: the section on display is loaded again, unless fresh.
InNamespace(x, n) ==
  LoadSection(After([x.w EXCEPT !.ns = n, !.selected = Nothing], x.loads),
              x.w.section, Nothing)

SetSection(s) == Click /\ Becomes(InSection(Now, s))
SelectNamespace(n) == Click /\ Becomes(InNamespace(Now, n))

\* The panel that SectionRouter and DetailPanel open is that of the section.
PanelKind(w) == w.section
ListShown(w) == w.section \in ListNames /\ ~w.spinner /\ w.section \notin w.denied

\* A click on a row opens the panel or closes it.
ClickRow(o) ==
  /\ Click
  /\ ListShown(win) /\ o \in win.rows[win.section]
  /\ win' = [win EXCEPT !.selected = IF @ = o THEN Nothing ELSE o, !.chosen = "row"]
  /\ UNCHANGED load

\* The panel of a node lists its pods, and a click on one selects it.
ClickNodePod(o) ==
  /\ Click
  /\ PanelKind(win) = "nodes" /\ win.selected \in Nodes /\ o \in win.rows["pods"]
  /\ win' = [win EXCEPT !.selected = o, !.chosen = "node row"]
  /\ UNCHANGED load

ClosePanel ==
  /\ Click
  /\ win.selected # Nothing
  /\ win' = [win EXCEPT !.selected = Nothing]
  /\ UNCHANGED load

\* The palette finds every object of the store's lists.
PaletteFinds(w) == UNION {w.rows[s] : s \in ListNames}

\* It goes to the object's namespace first, which loads the section being left
\* again, and then to the object's section.
PickInPalette(o) ==
  /\ Click /\ Len(load) + 1 < MaxLoads
  /\ o \in PaletteFinds(win)
  /\ LET x == InSection(InNamespace(Now, IF o \in Pods THEN HomeOf[o] ELSE All), KindOf(o))
     IN  Becomes(After([x.w EXCEPT !.selected = o, !.chosen = "palette"], x.loads))

\* navigateToResource: from owner chains, the dashboard and the security hub, here
\* for an object of the lists.
NavigateToResource(o) ==
  /\ Click /\ o \in PaletteFinds(win)
  /\ LET s == KindOf(o)
         w == [win EXCEPT !.section = s, !.selected = Nothing, !.miss = {"found"},
                          !.fresh = @ \ {Key(s, win.ns)}]
     IN  Becomes(LoadSection(After(w, load), s, o))

--------------------------------------------------------------------------
(* Refreshes and time                                                      *)

\* refresh: by its button, every 30 seconds and when the window is focused; not
\* twice within two seconds.
Refresh ==
  /\ ~recent /\ Len(load) < MaxLoads
  /\ recent' = TRUE
  /\ LET w == [win EXCEPT !.fresh = {}, !.inFlight = {}, !.boardFresh = FALSE]
     IN  Becomes(LoadSection(After(w, load), win.section, Nothing))
  /\ UNCHANGED <<live, clicks>>

Cool ==
  /\ recent /\ recent' = FALSE
  /\ UNCHANGED <<live, win, load, clicks>>

\* What is 30 seconds old is no longer fresh.
Expire ==
  /\ \/ \E k \in win.fresh : win' = [win EXCEPT !.fresh = @ \ {k}]
     \/ win.boardFresh /\ win' = [win EXCEPT !.boardFresh = FALSE]
  /\ UNCHANGED <<live, load, recent, clicks>>

Vanish(o) ==
  /\ live = Things /\ live' = live \ {o}
  /\ UNCHANGED <<win, load, recent, clicks>>

SectionsNext ==
  \/ \E i \in DOMAIN load : Answer(i) \/ \E d \in BOOLEAN : Fail(i, d)
  \/ \E s \in SectionNames : SetSection(s)
  \/ \E n \in Scopes : SelectNamespace(n)
  \/ \E o \in Things : ClickRow(o) \/ PickInPalette(o) \/ NavigateToResource(o)
  \/ \E o \in Pods : ClickNodePod(o) \/ Vanish(o)
  \/ ClosePanel \/ Refresh \/ Cool \/ Expire

SectionsSpec == SectionsInit /\ [][SectionsNext]_sectionVars

--------------------------------------------------------------------------
(* Properties                                                              *)

Waiting == {i \in DOMAIN load : load[i] # NoLoad}

\* With no load under way, the rows on display are of the selected namespace;
\* unless an answer for a namespace left since came last, or one of the dashboard
\* or a panel, which loads other namespaces, or the load failed; or the load was
\* skipped because an earlier one of the same namespace counts as fresh, although
\* the rows have been replaced since.
RowsInScope ==
  LET s == win.section
  IN  Waiting = {} /\ s \in Namespaced /\ win.rows[s] # {} /\ win.rowsNs[s] # win.ns =>
         \/ win.why[s] \in {"late", "failed", "board"}
         \/ win.why[s] = "skipped" /\ <<s, win.ns>> \in win.asked

\* The open panel is one for the kind of its object: unless a pod was chosen in
\* the panel of a node, which then shows the pod as a node, or a navigation ended
\* after the user had gone elsewhere.
PanelFits ==
  win.selected # Nothing /\ KindOf(win.selected) # PanelKind(win) =>
    win.chosen \in {"node row", "navigation"}

\* The object of the open panel is in the store's list of its kind, and not one
\* that a reload has dropped: unless the list has been denied since, or loaded by
\* the dashboard or a panel.
PanelListed ==
  win.selected # Nothing =>
    \/ win.selected \in win.rows[KindOf(win.selected)]
    \/ KindOf(win.selected) \in win.denied \/ win.why["pods"] = "board"

\* With no load under way nothing is marked as loading: no spinner stays, and no
\* key that would keep a section from being loaded again.
RestIsQuiet == Waiting = {} => ~win.spinner /\ win.inFlight = {}

\* navigateToResource opens the panel of its object: unless it is outside the
\* selected namespace or gone, the load failed, or another load of the same list
\* was under way and so it looked before the list had come.
NavigationFinds == win.miss # {}

\* What the window shows is of the section, the namespace and the kind it names.
SectionsTrue ==
  SectionsTypeOK /\ RowsInScope /\ PanelFits /\ PanelListed /\ RestIsQuiet /\ NavigationFinds

\* Nothing but the user takes an object's panel away while its own list still has
\* it: except an answer for another section, or for another namespace, and a
\* refresh of a section that is still empty.
SelectionKept ==
  [][/\ win.selected # Nothing /\ win.selected \in win.rows[KindOf(win.selected)]
      /\ win'.selected = Nothing /\ clicks' = clicks
      => \/ \E i \in Waiting : load'[i] = NoLoad /\ win.selected \notin Data(i)
         \/ win.rows[win.section] = {}]_sectionVars

=============================================================================
