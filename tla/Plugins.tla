------------------------------- MODULE Plugins -------------------------------
(***************************************************************************)
(* The kubectl plugins: the Krew panel and its store slice, the processes  *)
(* of the main process (ipc/krew.ts), and the panels that run a plugin.    *)
(*                                                                         *)
(* A process is external; krew's commands change what is installed.  Lines *)
(* of output go to the window on one channel, which names no run.  A line  *)
(* is a number, or a row of the table that a panel makes of it.            *)
(***************************************************************************)
EXTENDS Naturals, Sequences, SequencesExt

CONSTANTS
  PluginNames,     \* the curated plugins
  Repeatable,      \* those whose panel runs again on Enter (neat, tree)
  NoPlugin,
  MaxOutput,       \* MAX_PLUGIN_OUTPUT_LINES
  MaxPrinted,      \* bound: lines of a process
  MaxPluginRuns,   \* bound: runs
  MaxPluginActs,   \* bound: what the user does besides
  TableLines       \* what a line of a table may say

ASSUME PluginsAssumption ==
  /\ Repeatable \subseteq PluginNames /\ NoPlugin \notin PluginNames
  /\ {MaxOutput, MaxPrinted, MaxPluginRuns, MaxPluginActs} \subseteq Nat

VARIABLES
  krew,        \* krewAvailable: "unknown", "absent", "present"
  krewBusy,    \* its installer runs
  disk,        \* external: the plugins that are installed
  listed,      \* pluginIndex: those shown as installed
  refreshing,  \* indexRefreshing
  listings,    \* loads of the index under way: [n, read, seen, by], by a deed or a refresh
  lastListing,
  tasks,       \* installs and removals under way: [plugin, what, pane, visit]
  where,       \* [plugin, view, tab, pane, visit]: what is on screen, and which mounts
  processes,   \* run -> [plugin, pane, printed, over]
  handlers,    \* runs whose handler listens
  kept,        \* unsubRef: the run whose handler an unmount removes, or 0
  output,      \* what the run panel shows: [run, n], n = 0 for the notice
  runState,    \* [running, code]
  pluginActs,
  table,       \* lines of a table so far
  crossed      \* history: what has crossed

indexVars  == <<krew, krewBusy, disk, listed, refreshing, listings, lastListing, tasks>>
runVars    == <<processes, handlers, kept, output, runState>>
pluginVars == <<indexVars, runVars, where, pluginActs, table, crossed>>

Screen(p, v, t) ==
  [plugin |-> p, view |-> v, tab |-> t, pane |-> where.pane + 1, visit |-> where.visit]
NotRun == [running |-> FALSE, code |-> "none"]

PluginsTypeOK ==
  /\ krew \in {"unknown", "absent", "present"} /\ {krewBusy, refreshing} \subseteq BOOLEAN
  /\ disk \subseteq PluginNames /\ listed \subseteq PluginNames
  /\ where.plugin \in PluginNames \cup {NoPlugin} /\ where.view \in {"info", "run"}
  /\ where.tab \in {"installed", "browse"} /\ where.pane \in Nat
  /\ handlers \subseteq DOMAIN processes /\ kept \in DOMAIN processes \cup {0}
  /\ runState.running \in BOOLEAN /\ runState.code \in {"none", "ok", "failed"}

\* Krew is found when the program starts, or not; plugins may be installed.
PluginsInit ==
  /\ \E all \in BOOLEAN :
       /\ disk = IF all THEN PluginNames ELSE {}
       /\ krew = IF all THEN "present" ELSE "unknown"
       /\ listed = disk
  /\ krewBusy = FALSE /\ refreshing = FALSE /\ listings = {} /\ lastListing = 0 /\ tasks = {}
  /\ where = [plugin |-> NoPlugin, view |-> "info", tab |-> "installed", pane |-> 1, visit |-> 1]
  /\ processes = <<>> /\ handlers = {} /\ kept = 0 /\ output = <<>> /\ runState = NotRun
  /\ pluginActs = 0 /\ table = <<>> /\ crossed = {}

PluginAct == pluginActs < MaxPluginActs /\ pluginActs' = pluginActs + 1

--------------------------------------------------------------------------
(* What is on screen                                                       *)

\* The list of the tab; a row opens the run panel of an installed plugin.
RowsShown == IF where.tab = "installed" THEN listed ELSE PluginNames

\* A pane that unmounts removes the handler it has kept, not its process.
Unmounted ==
  /\ handlers' = handlers \ {kept} /\ kept' = 0 /\ output' = <<>> /\ runState' = NotRun
  /\ UNCHANGED <<processes, table>>

OpenPlugin(p) ==
  /\ krew = "present" /\ where.plugin = NoPlugin /\ p \in RowsShown /\ PluginAct
  /\ where' = Screen(p, IF p \in listed /\ where.tab = "installed" THEN "run" ELSE "info",
                     where.tab)
  /\ Unmounted /\ UNCHANGED <<indexVars, crossed>>

ChooseTab(t) ==
  /\ krew = "present" /\ where.plugin = NoPlugin /\ t # where.tab
  /\ where' = [where EXCEPT !.tab = t]
  /\ UNCHANGED <<indexVars, runVars, pluginActs, table, crossed>>

\* "Info" and "RunPlugin" of an installed plugin.
ChooseView(v) ==
  /\ where.plugin \in listed /\ v # where.view /\ PluginAct
  /\ where' = Screen(where.plugin, v, where.tab)
  /\ Unmounted /\ UNCHANGED <<indexVars, crossed>>

BackToList ==
  /\ where.plugin # NoPlugin
  /\ where' = Screen(NoPlugin, where.view, where.tab)
  /\ Unmounted /\ UNCHANGED <<indexVars, pluginActs, crossed>>

\* The store keeps the plugin when the section is left; the panel keeps nothing.
LeaveAndReturn ==
  /\ PluginAct
  /\ where' = [Screen(where.plugin, "info", "installed") EXCEPT !.visit = @ + 1]
  /\ Unmounted /\ UNCHANGED <<indexVars, crossed>>

--------------------------------------------------------------------------
(* Krew, and the index of what is installed                                *)

Task(p, w) == [plugin |-> p, what |-> w, pane |-> where.pane, visit |-> where.visit]
Refreshing == Task(NoPlugin, "refresh")

StartListing(d) ==
  /\ lastListing' = lastListing + 1 /\ refreshing' = TRUE
  /\ listings' = listings \cup {[n |-> lastListing + 1, read |-> FALSE, seen |-> {}, by |-> d]}
  /\ crossed' = crossed \cup (IF listings # {} THEN {"listings"} ELSE {})
NoListing == UNCHANGED <<refreshing, listings, lastListing, crossed>>

PanelStays == UNCHANGED <<runVars, where, table>>

\* probeKrew; the panel then loads the index.
ProbeKrew ==
  /\ krew = "unknown"
  /\ \/ krew' = "absent" /\ NoListing
     \/ krew' = "present" /\ StartListing(Refreshing)
  /\ UNCHANGED <<krewBusy, disk, listed, tasks, pluginActs>> /\ PanelStays

InstallKrew ==
  /\ krew = "absent" /\ ~krewBusy /\ PluginAct /\ krewBusy' = TRUE
  /\ UNCHANGED <<krew, disk, listed, tasks>> /\ NoListing /\ PanelStays

InstallerEnds ==
  /\ krewBusy /\ krewBusy' = FALSE
  /\ \/ krew' = "present" /\ StartListing(Refreshing)
     \/ UNCHANGED krew /\ NoListing
  /\ UNCHANGED <<disk, listed, tasks, pluginActs>> /\ PanelStays

\* "kubectl krew list" reads what is installed.
ListingReads ==
  /\ \E l \in listings :
       /\ ~l.read
       /\ listings' = (listings \ {l}) \cup {[l EXCEPT !.read = TRUE, !.seen = disk]}
  /\ UNCHANGED <<krew, krewBusy, disk, listed, refreshing, lastListing, tasks, pluginActs, crossed>>
  /\ PanelStays

\* Slip: an index that has been loaded is kept.
SlipListedAfter(l) == IF listed = {} THEN l.seen ELSE listed
ListedAfter(l) == l.seen

\* A list that fails is answered as an empty one.
ListingAnswers ==
  /\ \E l \in listings :
       /\ l.read /\ listings' = listings \ {l} /\ refreshing' = FALSE
       /\ \/ listed' = ListedAfter(l) /\ UNCHANGED crossed
          \/ listed' = {} /\ crossed' = crossed \cup {"listing failed"}
  /\ UNCHANGED <<krew, krewBusy, disk, lastListing, tasks, pluginActs>> /\ PanelStays

RefreshIndex ==
  /\ krew = "present" /\ where.plugin = NoPlugin /\ ~refreshing /\ PluginAct
  /\ StartListing(Refreshing) /\ UNCHANGED <<krew, krewBusy, disk, listed, tasks>> /\ PanelStays

\* A deed goes on until the index it has made load again is answered.
UnderWay == tasks \cup {l.by : l \in listings}
Unoccupied == \A d \in UnderWay : d.what \in {"install", "uninstall"} => d.pane # where.pane
MayUpgrade ==
  listed # {} /\ \A d \in UnderWay : d.what = "upgrade" => d.visit # where.visit

\* The info panel's button, disabled while its own deed is under way; a panel
\* that is opened again knows of none.
Manage ==
  /\ krew = "present" /\ where.plugin # NoPlugin /\ where.view = "info" /\ Unoccupied /\ PluginAct
  /\ tasks' = tasks \cup {Task(where.plugin,
                               IF where.plugin \in listed THEN "uninstall" ELSE "install")}
  /\ crossed' = crossed \cup (IF tasks # {} THEN {"tasks"} ELSE {})
  /\ UNCHANGED <<krew, krewBusy, disk, listed, refreshing, listings, lastListing, runVars, where,
                 table>>

UpgradeAll ==
  /\ krew = "present" /\ where.plugin = NoPlugin /\ where.tab = "installed" /\ MayUpgrade
  /\ PluginAct
  /\ tasks' = tasks \cup {Task(NoPlugin, "upgrade")}
  /\ UNCHANGED <<krew, krewBusy, disk, listed>> /\ NoListing /\ PanelStays

Changed(d) ==
  CASE d.what = "install" -> disk \cup {d.plugin} [] d.what = "uninstall" -> disk \ {d.plugin}
    [] d.what = "upgrade" -> disk

\* Slip: the index is not loaded again after a removal.
SlipReloads(d) == d.what # "uninstall"
Reloads(d) == TRUE

\* A deed that succeeds loads the index again.
TaskEnds ==
  /\ \E d \in tasks :
       /\ tasks' = tasks \ {d}
       /\ \/ /\ disk' = Changed(d)
             /\ IF Reloads(d) THEN StartListing(d) ELSE NoListing
          \/ UNCHANGED disk /\ NoListing
  /\ UNCHANGED <<krew, krewBusy, listed, runVars, where, pluginActs, table>>

--------------------------------------------------------------------------
(* Running a plugin                                                        *)

\* The button is disabled while the panel's run goes on; Enter is not.
MayRun == ~runState.running \/ where.plugin \in Repeatable

RunPlugin ==
  /\ where.view = "run" /\ where.plugin \in listed /\ MayRun /\ Len(processes) < MaxPluginRuns
  /\ processes' = Append(processes, [plugin |-> where.plugin, pane |-> where.pane, printed |-> 0,
                           over |-> FALSE])
  /\ handlers' = handlers \cup {Len(processes')} /\ kept' = Len(processes')
  /\ output' = <<>> /\ runState' = [running |-> TRUE, code |-> "none"]
  /\ crossed' = crossed \cup
        (IF \E r \in DOMAIN processes : ~processes[r].over THEN {"processes"} ELSE {})
  /\ UNCHANGED <<indexVars, where, pluginActs, table>>

\* Slip: the line after the last that is forwarded is dropped without a notice.
SlipForwarded(r, n) == IF n <= MaxOutput THEN <<[run |-> r, n |-> n]>> ELSE <<>>
Forwarded(r, n) ==
  CASE n <= MaxOutput -> <<[run |-> r, n |-> n]>>
    [] n = MaxOutput + 1 -> <<[run |-> r, n |-> 0]>>
    [] OTHER -> <<>>

\* Every handler that listens adds the line to its own pane.
Listeners == Cardinality({r \in handlers : processes[r].pane = where.pane})
PrintLine(r) ==
  /\ r \in DOMAIN processes /\ ~processes[r].over /\ processes[r].printed < MaxPrinted
  /\ processes' = [processes EXCEPT ![r].printed = @ + 1]
  /\ output' = FlattenSeq(<<output>> \o
                          [i \in 1..Listeners |-> Forwarded(r, processes[r].printed + 1)])
  /\ UNCHANGED <<indexVars, where, handlers, kept, runState, pluginActs, table, crossed>>

RunEnds(r) ==
  /\ r \in DOMAIN processes /\ ~processes[r].over
  /\ processes' = [processes EXCEPT ![r].over = TRUE]
  /\ handlers' = handlers \ {r}
  /\ \E code \in {"ok", "failed"} :
       IF processes[r].pane = where.pane
       THEN kept' = 0 /\ runState' = [running |-> FALSE, code |-> code]
       ELSE UNCHANGED <<kept, runState>>
  /\ UNCHANGED <<indexVars, where, output, pluginActs, table, crossed>>

--------------------------------------------------------------------------
(* The tables made of the output                                           *)

TableLine(l) ==
  /\ Len(table) < MaxPrinted + 2 /\ table' = Append(table, l)
  /\ UNCHANGED <<indexVars, runVars, where, pluginActs, crossed>>

\* images: an empty cell has the value of the row above, and a row without a
\* container is none.  Rows of one pod that follow one another are one group.
RowAfter(acc, l) ==
  LET pod   == IF l.pod # "" THEN l.pod ELSE acc.pod
      image == IF l.image # "" THEN l.image ELSE acc.image
  IN  [pod |-> pod, image |-> image,
       rows |-> IF l.container = "" THEN acc.rows
                ELSE Append(acc.rows, [pod |-> pod, container |-> l.container, image |-> image])]
ImageRows(ls) == FoldLeft(RowAfter, [pod |-> "", image |-> "", rows |-> <<>>], ls).rows

Grouped(groups, row) ==
  LET c == [container |-> row.container, image |-> row.image]
  IN  IF groups # <<>> /\ Last(groups).pod = row.pod
      THEN [groups EXCEPT ![Len(groups)].containers = Append(@, c)]
      ELSE Append(groups, [pod |-> row.pod, containers |-> <<c>>])
ByPod(rows) == FoldLeft(Grouped, <<>>, rows)

\* outdated: an image is reported when it is found and again when its registry
\* has answered; the fuller row is kept where the first was.
Fuller(l, row) == (l.state = "latest" /\ row.state # "latest") \/ l.state = "unable"
\* Slip: the later row is kept.
SlipRowFor(rows, l) ==
  LET i == SelectInSeq(rows, LAMBDA row : row.image = l.image)
  IN  IF i = 0 THEN Append(rows, l) ELSE [rows EXCEPT ![i] = l]
RowFor(rows, l) ==
  LET i == SelectInSeq(rows, LAMBDA row : row.image = l.image)
  IN  CASE l.image = "" -> rows
        [] l.image # "" /\ i = 0 -> Append(rows, l)
        [] i # 0 /\ Fuller(l, rows[i]) -> [rows EXCEPT ![i] = l]
        [] OTHER -> rows
OutdatedRows(ls) == FoldLeft(RowFor, <<>>, ls)

--------------------------------------------------------------------------
(* The index, the runs and the tables do not touch one another: three      *)
(* instances, over what is on screen.                                      *)

Screens ==
  \/ \E p \in PluginNames : OpenPlugin(p)
  \/ \E v \in {"info", "run"} : ChooseView(v)
  \/ \E t \in {"installed", "browse"} : ChooseTab(t)
  \/ BackToList \/ LeaveAndReturn
IndexNext ==
  \/ Screens \/ ProbeKrew \/ InstallKrew \/ InstallerEnds \/ ListingReads \/ ListingAnswers
  \/ RefreshIndex \/ Manage \/ UpgradeAll \/ TaskEnds
RunNext    == Screens \/ RunPlugin \/ \E r \in 1..MaxPluginRuns : PrintLine(r) \/ RunEnds(r)
TablesNext == \E l \in TableLines : TableLine(l)

PluginsSpec == PluginsInit /\ [][IndexNext \/ RunNext \/ TablesNext]_pluginVars

--------------------------------------------------------------------------
(* Properties                                                              *)

\* Once nothing is under way the index shows what is installed, unless a list
\* failed, or two loads or two tasks crossed.
IndexCurrent ==
  krew = "present" /\ UnderWay = {} /\ {"listings", "listing failed"} \cap crossed = {} =>
     listed = disk

\* The panel shows the output of its own run, every line once and in order,
\* unless another process was still running when a run began: output names no
\* run, Enter starts another, and no process ends with its panel.
OutputIsOwn ==
  "processes" \notin crossed /\ where.view = "run" /\ runState # NotRun =>
     LET r == Len(processes)
     IN  /\ processes[r].pane = where.pane
         /\ Len(output) = (IF processes[r].printed > MaxOutput THEN MaxOutput + 1
                           ELSE processes[r].printed)
         /\ \A i \in DOMAIN output : output[i] = [run |-> r, n |-> IF i <= MaxOutput THEN i ELSE 0]
         /\ runState.running <=> ~processes[r].over

\* A handler is left behind only by a run that overlapped another.
NoHandlerLeft ==
  "processes" \notin crossed =>
     \A r \in handlers : r = kept /\ processes[r].pane = where.pane

\* The groups of images are the containers of the lines, in order, each with
\* the pod and the image of the nearest line at or above it that names one.
Nearest(ls, i, F(_)) ==
  LET above == {j \in 1..i : F(ls[j]) # ""}
  IN  IF above = {} THEN "" ELSE F(ls[CHOOSE j \in above : \A k \in above : k <= j])
ImagesTrue ==
  LET given == SelectSeq([i \in DOMAIN table |->
                            [pod |-> Nearest(table, i, LAMBDA l : l.pod),
                             container |-> table[i].container,
                             image |-> Nearest(table, i, LAMBDA l : l.image)]],
                         LAMBDA r : r.container # "")
      groups == ByPod(ImageRows(table))
  IN  /\ FlattenSeq([g \in DOMAIN groups |->
            [c \in DOMAIN groups[g].containers |->
               [pod |-> groups[g].pod, container |-> groups[g].containers[c].container,
                image |-> groups[g].containers[c].image]]]) = given
      /\ \A g \in 1 .. Len(groups) - 1 : groups[g].pod # groups[g + 1].pod

\* An image has one row, and what a registry has said of it is not lost to a
\* line that only says it was found, however the lines of images mix.
OutdatedTrue ==
  LET rows == OutdatedRows(table)
  IN  /\ \A i, j \in DOMAIN rows : rows[i].image = rows[j].image => i = j
      /\ \A i \in {k \in DOMAIN table : table[k].image # ""} :
           \E r \in DOMAIN rows :
              /\ rows[r].image = table[i].image
              /\ rows[r].state = "found" => table[i].state = "found"
              /\ table[i].state = "latest" /\ rows[r].state = "unable" =>
                    \E j \in i + 1 .. Len(table) :
                       table[j].image = table[i].image /\ table[j].state = "unable"

PluginsTrue ==
  /\ PluginsTypeOK /\ IndexCurrent /\ OutputIsOwn /\ NoHandlerLeft /\ ImagesTrue /\ OutdatedTrue
=============================================================================
