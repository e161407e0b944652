----------------------------- MODULE HelmBrowser -----------------------------
(***************************************************************************)
(* The browser of Helm charts (HelmRepoBrowser.tsx) and its dialog that    *)
(* installs one (HelmInstallDialog.tsx), with the relay of the install's   *)
(* progress in the main process (ipc/helm.ts).                             *)
(*                                                                         *)
(* Answers come in any order.  What a search finds, and the values of a    *)
(* version, are known by what they were asked for with.                    *)
(***************************************************************************)
EXTENDS Naturals, Sequences, FiniteSets

CONSTANTS
  Queries,      \* what the search box holds, the first query excepted
  FirstQuery,   \* the empty one
  HintQuery,    \* the chart of an install hint
  Versions,     \* of the chart, the newest first: a sequence
  MaxLooks,     \* bound: searches and choices
  MaxInstalls,  \* bound: installs
  NoneYet

\* A chart that is found has a version.
ASSUME BrowserAssumption ==
  1 \in DOMAIN Versions /\ MaxLooks \in Nat /\ MaxInstalls \in Nat

VARIABLES
  box,        \* query: what the search box holds
  page,       \* [of, loading, error, searched]: results with their offset, and the spinner
  looks,      \* searches under way: [of, n]
  lastLook,   \* history: the number of the newest search
  repoAdded,  \* the repository of the hint is in repos
  offer,      \* pendingHint is set
  busy,       \* what is under way: "adding", "refreshing"
  installer,     \* the dialog: [n, versions, version, values, loads, edited, running, done, error]
  valueLoads, \* loads of values under way: [n, version]
  installs,   \* install -> [n, version, values, edited, phase]
  lines,      \* history: the installs whose progress the dialog shows
  looked,     \* history: what has happened out of the ordinary
  lookCount

browserVars == <<box, page, looks, lastLook, repoAdded, offer, busy, installer, valueLoads,
                 installs, lines, looked, lookCount>>

VersionSet == {Versions[i] : i \in DOMAIN Versions}
Search(q, off) == [q |-> q, off |-> off]
NoWindow(n) ==
  [n |-> n, open |-> FALSE, versions |-> FALSE, version |-> NoneYet, values |-> NoneYet,
   loading |-> FALSE, edited |-> FALSE, running |-> FALSE, done |-> FALSE, error |-> FALSE]

BrowserTypeOK ==
  /\ box \in Queries \cup {FirstQuery, HintQuery}
  /\ page.loading \in BOOLEAN /\ busy \subseteq {"adding", "refreshing"}
  /\ repoAdded \in BOOLEAN /\ offer \in BOOLEAN
  /\ installer.version \in VersionSet \cup {NoneYet}
  /\ installer.values \in VersionSet \cup {NoneYet}
  /\ \A k \in DOMAIN installs : installs[k].phase \in {"running", "ok", "error"}
  /\ lines \subseteq DOMAIN installs /\ lookCount \in 0..MaxLooks

\* search: its calls are not numbered.  Some ways to it are not disabled while one is
\* under way.
Begin(s, anytime) ==
  /\ looks' = looks \cup {[of |-> s, n |-> lastLook + 1]} /\ lastLook' = lastLook + 1
  /\ page' = [page EXCEPT !.loading = TRUE, !.error = FALSE, !.searched = s]
  /\ looked' = looked \cup (IF looks # {} /\ anytime THEN {"searches overlap"} ELSE {})

\* The panel opens, with or without a hint, whose effect comes after the first search.
BrowserInit ==
  /\ \E hinted \in BOOLEAN :
       /\ box = IF hinted THEN HintQuery ELSE FirstQuery
       /\ offer = hinted
       /\ looks = {[of |-> Search(FirstQuery, 0), n |-> 1]} \cup
                  (IF hinted THEN {[of |-> Search(HintQuery, 0), n |-> 2]} ELSE {})
       /\ lastLook = IF hinted THEN 2 ELSE 1
       /\ page = [of |-> NoneYet, loading |-> TRUE, error |-> FALSE,
                  searched |-> Search(box, 0)]
       /\ looked = IF hinted THEN {"searches overlap"} ELSE {}
  /\ repoAdded = FALSE /\ busy = {} /\ installer = NoWindow(0) /\ valueLoads = {}
  /\ installs = <<>> /\ lines = {} /\ lookCount = 0

Look == lookCount < MaxLooks /\ lookCount' = lookCount + 1
DialogStays == UNCHANGED <<installer, valueLoads, installs, lines>>

--------------------------------------------------------------------------
(* The search                                                              *)

\* Typing changes the box and nothing else.
Type(q) ==
  /\ Look /\ ~installer.open /\ q # box /\ box' = q
  /\ UNCHANGED <<page, looks, lastLook, repoAdded, offer, busy, looked>> /\ DialogStays

\* Slip: the button stays enabled while a search is under way.
SlipMaySearch == TRUE
\* The buttons that search are disabled while one is under way.
MaySearch == ~page.loading

Submit ==
  /\ Look /\ ~installer.open /\ MaySearch /\ Begin(Search(box, 0), FALSE)
  /\ UNCHANGED <<box, repoAdded, offer, busy>> /\ DialogStays

\* The next page is one of what the box holds, typed or searched.
NextPage ==
  /\ Look /\ ~installer.open /\ MaySearch /\ page.of # NoneYet /\ page.of.off = 0
  /\ Begin(Search(box, 1), FALSE)
  /\ UNCHANGED <<box, repoAdded, offer, busy>> /\ DialogStays

\* A repository of the list on the left, which stays enabled.
PickRepo(q) ==
  /\ Look /\ ~installer.open /\ box' = q /\ Begin(Search(q, 0), TRUE)
  /\ UNCHANGED <<repoAdded, offer, busy>> /\ DialogStays

Found(k, ok) ==
  /\ k \in looks /\ looks' = looks \ {k}
  /\ page' = IF ok THEN [page EXCEPT !.of = k.of, !.loading = FALSE]
             ELSE [page EXCEPT !.error = TRUE, !.loading = FALSE]
  /\ UNCHANGED <<box, lastLook, repoAdded, offer, busy, looked, lookCount>> /\ DialogStays

\* handleAddRepo and handleRefresh: the request, then its end with a search.
StartBusy(what) ==
  /\ ~installer.open /\ what \notin busy /\ busy' = busy \cup {what}
  /\ what = "adding" => offer /\ ~repoAdded
  /\ Look /\ UNCHANGED <<box, page, looks, lastLook, repoAdded, offer, looked>>
  /\ DialogStays

EndBusy(what, ok) ==
  /\ what \in busy /\ busy' = busy \ {what}
  /\ IF ok
     THEN /\ repoAdded' = (repoAdded \/ what = "adding")
          /\ IF what = "adding"
             THEN box' = HintQuery /\ offer' = FALSE /\ Begin(Search(HintQuery, 0), TRUE)
             ELSE UNCHANGED <<box, offer>> /\ Begin(Search(box, 0), TRUE)
     ELSE UNCHANGED <<box, page, looks, lastLook, repoAdded, offer, looked>>
  /\ UNCHANGED lookCount /\ DialogStays

--------------------------------------------------------------------------
(* The dialog                                                              *)

SearchStays == UNCHANGED <<box, page, looks, lastLook, repoAdded, offer, busy>>

OpenInstall ==
  /\ Look /\ ~installer.open /\ page.of # NoneYet /\ ~page.loading
  /\ installer' = [NoWindow(installer.n + 1) EXCEPT !.open = TRUE]
  /\ lines' = {}
  /\ SearchStays /\ UNCHANGED <<valueLoads, installs, looked>>

\* A version is chosen, at first the newest: its values are loaded.
ChooseVersion(w, v) ==
  /\ installer' = [w EXCEPT !.version = v, !.loading = TRUE]
  /\ valueLoads' = valueLoads \cup {[n |-> w.n, version |-> v]}
  /\ looked' = looked \cup (IF \E l \in valueLoads : l.n = w.n THEN {"loads overlap"} ELSE {})

VersionsCome ==
  /\ installer.open /\ ~installer.versions
  /\ ChooseVersion([installer EXCEPT !.versions = TRUE], Versions[1])
  /\ SearchStays /\ UNCHANGED <<installs, lines, lookCount>>

SelectVersion(v) ==
  /\ Look /\ installer.open /\ installer.versions /\ v # installer.version
  /\ ~installer.running /\ ~installer.done
  /\ ChooseVersion(installer, v)
  /\ SearchStays /\ UNCHANGED <<installs, lines>>

\* Slip: the values of a version do not replace those of another.
SlipTakeValues(v) == IF installer.values = NoneYet THEN v ELSE installer.values
TakeValues(v) == v

\* The values replace what is in the editor, whichever version they are of; a load
\* that fails empties it.
ValuesArrive(l, ok) ==
  /\ l \in valueLoads /\ valueLoads' = valueLoads \ {l}
  /\ installer' = IF ~installer.open \/ l.n # installer.n THEN installer
               ELSE [installer EXCEPT !.loading = FALSE, !.edited = ~ok,
                                   !.values = IF ok THEN TakeValues(l.version) ELSE NoneYet]
  /\ SearchStays /\ UNCHANGED <<installs, lines, looked, lookCount>>

\* Slip: the button stays enabled.
SlipMayInstall == installer.version # NoneYet
MayInstall == installer.version # NoneYet /\ ~installer.running

\* It is not disabled while the values are loading.
Install ==
  /\ installer.open /\ ~installer.done /\ MayInstall /\ Len(installs) < MaxInstalls
  /\ installs' = Append(installs,
       [n |-> installer.n, version |-> installer.version, values |-> installer.values,
        edited |-> installer.edited, phase |-> "running"])
  /\ installer' = [installer EXCEPT !.running = TRUE, !.error = FALSE] /\ lines' = {}
  /\ looked' = looked \cup (IF installer.loading THEN {"installed while loading"} ELSE {})
  /\ SearchStays /\ UNCHANGED <<valueLoads, lookCount>>

\* The progress of every install comes by one channel.
Progress(k) ==
  /\ installs[k].phase = "running" /\ installer.open /\ installer.running
  /\ lines' = lines \cup {k}
  /\ SearchStays /\ UNCHANGED <<installer, valueLoads, installs, looked, lookCount>>

\* Slip: an error that the sidecar reports in the stream ends it as any other end.
SlipRelayed(ok) == TRUE
\* The relay rejects for an error event, and for a connection that breaks.
Relayed(ok) == ok

InstallEnds(k, ok) ==
  /\ installs[k].phase = "running"
  /\ installs' = [installs EXCEPT ![k].phase = IF ok THEN "ok" ELSE "error"]
  /\ installer' = IF ~installer.open \/ installs[k].n # installer.n THEN installer
               ELSE [installer EXCEPT !.running = FALSE, !.done = Relayed(ok),
                                   !.error = ~Relayed(ok)]
  /\ SearchStays /\ UNCHANGED <<valueLoads, lines, looked, lookCount>>

\* The cross, which is not disabled while an install is running.
CloseInstall ==
  /\ installer.open /\ installer' = NoWindow(installer.n) /\ lines' = {}
  /\ looked' = looked \cup (IF installer.running THEN {"closed while installing"} ELSE {})
  /\ SearchStays /\ UNCHANGED <<valueLoads, installs, lookCount>>

BrowserNext ==
  \/ \E q \in Queries \cup {FirstQuery, HintQuery} : Type(q)
  \/ \E q \in Queries : PickRepo(q)
  \/ Submit \/ NextPage \/ OpenInstall \/ VersionsCome \/ Install \/ CloseInstall
  \/ \E what \in {"adding", "refreshing"} :
        StartBusy(what) \/ \E ok \in BOOLEAN : EndBusy(what, ok)
  \/ \E v \in VersionSet : SelectVersion(v)
  \/ \E ok \in BOOLEAN :
        \/ \E k \in looks : Found(k, ok)
        \/ \E l \in valueLoads : ValuesArrive(l, ok)
        \/ \E k \in DOMAIN installs : InstallEnds(k, ok)
  \/ \E k \in DOMAIN installs : Progress(k)

BrowserSpec == BrowserInit /\ [][BrowserNext]_browserVars

--------------------------------------------------------------------------
(* Properties                                                              *)

\* With no spinner and no error the charts on display are those of the search made
\* last: unless it was made while another was under way, which a hint, a repository
\* of the list and the end of a refresh do.
ChartsOfSearch ==
  ~page.loading /\ ~page.error /\ page.of # page.searched => "searches overlap" \in looked

\* What is installed has the values of its version, or what the user made of them:
\* unless they were still loading, or the loads of two versions crossed, or failed.
InstalledAsShown ==
  \A k \in DOMAIN installs :
    installs[k].values # installs[k].version =>
       installs[k].edited \/ looked \cap {"loads overlap", "installed while loading"} # {}

\* The dialog says that its install is done when it has succeeded, and shows the
\* progress of no other, and no two run: unless the dialog was closed while one did.
InstallTells ==
  /\ installer.done =>
       \E k \in DOMAIN installs : installs[k].n = installer.n /\ installs[k].phase = "ok"
  /\ \/ "closed while installing" \in looked
     \/ /\ \A k \in lines : installs[k].n = installer.n
        /\ Cardinality({k \in DOMAIN installs : installs[k].phase = "running"}) <= 1

\* Charts are found, and installed, as they are shown.
HelmBrowserTrue ==
  BrowserTypeOK /\ ChartsOfSearch /\ InstalledAsShown /\ InstallTells

=============================================================================
