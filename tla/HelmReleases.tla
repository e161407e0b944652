---------------------------- MODULE HelmReleases ----------------------------
(***************************************************************************)
(* The Helm panel (HelmPanel.tsx, HelmReleaseDetail.tsx): the list of the  *)
(* releases of a context, the detail of one with its values and history,   *)
(* rolling back and uninstalling, while the context changes.               *)
(*                                                                         *)
(* One release is followed in every cluster.  The IPC layer drops the      *)
(* context of every request, and the sidecar serves the context it is in.  *)
(* A change of context shows in the panel at once and reaches the sidecar  *)
(* later; it may fail there, and may be taken back.                        *)
(***************************************************************************)
EXTENDS Naturals, Sequences

CONSTANTS
  HelmContexts,
  FirstHelmContext,
  HelmProduction,   \* contexts marked as production
  MaxHelmAsks,      \* bound: requests
  MaxHelmTurns,     \* bound: changes of context
  NoHelm

ASSUME HelmAssumption ==
  /\ FirstHelmContext \in HelmContexts /\ NoHelm \notin HelmContexts
  /\ NoHelm \notin [of: HelmContexts, rev: Nat]
  /\ MaxHelmAsks \in Nat /\ MaxHelmTurns \in Nat

VARIABLES
  released,  \* context -> the release's revision in the cluster, 0 if there is none
  chosen,    \* selectedContext
  serving,   \* the context the sidecar is in
  leaving,   \* the context a switch under way comes from, or NoHelm
  helmList,  \* [state, of, rev, loading, id]: releases, error, loading, loadIdRef
  picked,    \* selected: [of, rev], or NoHelm
  pane,      \* the detail: [mount, valuesId, values, tab, history, target, rolling,
             \* least, wanted]: of which least, the revision that it has rolled back to,
             \* and wanted, the dialog of the values is open, are history
  doomed,    \* uninstallTarget: [of], or NoHelm
  removing,  \* uninstalling
  helmAsks,  \* requests under way: [what, ctx, n, id, meant, state, of, rev]
  helmDeeds, \* history: [meant, on] of each release rolled back or uninstalled
  helmOdd,   \* history: what has happened out of the ordinary
  helmAsked, helmTurns

helmVars == <<released, chosen, serving, leaving, helmList, picked, pane, doomed, removing,
              helmAsks, helmDeeds, helmOdd, helmAsked, helmTurns>>

Shown(state, of, rev) == [state |-> state, of |-> of, rev |-> rev]
EmptyPane(mount) ==
  [mount |-> mount, valuesId |-> 0, values |-> Shown("none", NoHelm, 0), tab |-> "overview",
   history |-> Shown("none", NoHelm, 0), target |-> FALSE, rolling |-> FALSE, least |-> 0,
   wanted |-> FALSE]

HelmTypeOK ==
  /\ released \in [HelmContexts -> Nat] /\ chosen \in HelmContexts /\ serving \in HelmContexts
  /\ leaving \in HelmContexts \cup {NoHelm}
  /\ helmList.state \in {"none", "shown", "error"} /\ helmList.loading \in BOOLEAN
  /\ picked = NoHelm \/ picked \in [of: HelmContexts, rev: Nat]
  /\ pane.tab \in {"overview", "history"}
  /\ pane.values.state \in {"none", "loading", "shown", "error"}
  /\ pane.history.state \in {"none", "loading", "shown"}
  /\ doomed \in HelmContexts \cup {NoHelm} /\ removing \in BOOLEAN
  /\ helmAsked \in 0..(MaxHelmAsks + 2) /\ helmTurns \in 0..MaxHelmTurns

HelmRequest(what, id, meant) ==
  [what |-> what, ctx |-> chosen, n |-> pane.mount, id |-> id, meant |-> meant,
   state |-> "open", of |-> NoHelm, rev |-> 0]
FirstList == [state |-> "none", of |-> NoHelm, rev |-> 0, loading |-> TRUE, id |-> 1]

HelmInit ==
  /\ released = [c \in HelmContexts |-> 1]
  /\ chosen = FirstHelmContext /\ serving = FirstHelmContext /\ leaving = NoHelm
  /\ helmList = FirstList /\ picked = NoHelm /\ pane = EmptyPane(0)
  /\ doomed = NoHelm /\ removing = FALSE
  /\ helmAsks = <<HelmRequest("list", 1, NoHelm)>>
  /\ helmDeeds = {} /\ helmOdd = {} /\ helmAsked = 1 /\ helmTurns = 0

HelmWithout(i) == [j \in 1..(Len(helmAsks) - 1) |-> helmAsks[IF j < i THEN j ELSE j + 1]]
HelmAnswer(i, what) ==
  i \in DOMAIN helmAsks /\ helmAsks[i].what = what /\ helmAsks[i].state # "open"
HelmAsking == helmAsked < MaxHelmAsks /\ helmAsked' = helmAsked + 1

--------------------------------------------------------------------------
(* The sidecar and the context                                             *)

\* A request is served for the context the sidecar is in, or fails.
HelmServed(i) ==
  LET r == helmAsks[i]
      alters == r.what \in {"rollback", "uninstall"} /\ released[serving] # 0
  IN  /\ r.state = "open"
      /\ \/ /\ r.what \in {"list", "history", "values"} \/ alters
            /\ r.what \in {"history", "values"} => released[serving] # 0
            /\ released' = IF ~alters THEN released
                           ELSE [released EXCEPT ![serving] =
                                   IF r.what = "rollback" THEN @ + 1 ELSE 0]
            /\ helmDeeds' = helmDeeds \cup
                 (IF alters THEN {[meant |-> r.meant, on |-> serving]} ELSE {})
            /\ helmAsks' = [helmAsks EXCEPT ![i].state = "ok", ![i].of = serving,
                                            ![i].rev = released'[serving]]
         \/ /\ helmAsks' = [helmAsks EXCEPT ![i].state = "error"]
            /\ UNCHANGED <<released, helmDeeds>>
      /\ helmOdd' = helmOdd \cup (IF serving # r.ctx THEN {"served elsewhere"} ELSE {})
      /\ UNCHANGED <<chosen, serving, leaving, helmList, picked, pane, doomed, removing,
                     helmAsked, helmTurns>>

\* load: what is under way is outdated.
Listing(list) == [list EXCEPT !.loading = TRUE, !.id = @ + 1]

\* Slip: what is selected stays when the context changes.
SlipOnContext == [picked |-> picked, list |-> Listing(helmList), pane |-> pane]
\* The effects of another context: no selection, no rows, and a new load.
OnContext ==
  [picked |-> NoHelm, pane |-> EmptyPane(pane.mount),
   list |-> Listing([helmList EXCEPT !.state = "none", !.of = NoHelm, !.rev = 0])]

TakeContext(c) ==
  /\ chosen' = c /\ picked' = OnContext.picked /\ helmList' = OnContext.list
  /\ pane' = OnContext.pane
  /\ helmAsks' = Append(helmAsks,
       [HelmRequest("list", helmList.id + 1, NoHelm) EXCEPT !.ctx = c])
  /\ helmAsked' = helmAsked + 1

\* A dialog covers the menu of the contexts.
ChooseContext(c) ==
  /\ c # chosen /\ leaving = NoHelm /\ doomed = NoHelm /\ pane.values.state = "none"
  /\ helmTurns < MaxHelmTurns /\ helmTurns' = helmTurns + 1 /\ helmAsked < MaxHelmAsks
  /\ TakeContext(c) /\ leaving' = chosen
  /\ UNCHANGED <<released, serving, doomed, removing, helmDeeds, helmOdd>>

SidecarFollows ==
  /\ leaving # NoHelm /\ serving # chosen /\ serving' = chosen
  /\ UNCHANGED <<released, chosen, leaving, helmList, picked, pane, doomed, removing, helmAsks,
                 helmDeeds, helmOdd, helmAsked, helmTurns>>

\* The switch succeeds, or its request fails and nothing is taken back.
SwitchEnds ==
  /\ leaving # NoHelm /\ leaving' = NoHelm
  /\ UNCHANGED <<released, chosen, serving, helmList, picked, pane, doomed, removing, helmAsks,
                 helmDeeds, helmOdd, helmAsked, helmTurns>>

\* The cluster does not list its namespaces: the sidecar is switched back, and then
\* the store.
SwitchedBack ==
  /\ leaving # NoHelm /\ serving = chosen
  /\ serving' = leaving /\ TakeContext(leaving) /\ leaving' = NoHelm
  /\ helmOdd' = helmOdd \cup (IF doomed # NoHelm THEN {"taken back under a dialog"} ELSE {})
  /\ UNCHANGED <<released, doomed, removing, helmDeeds, helmTurns>>

--------------------------------------------------------------------------
(* The list                                                                *)

RefreshReleases ==
  /\ HelmAsking /\ doomed = NoHelm /\ pane.values.state = "none"
  /\ helmList' = Listing(helmList)
  /\ helmAsks' = Append(helmAsks, HelmRequest("list", helmList.id + 1, NoHelm))
  /\ UNCHANGED <<released, chosen, serving, leaving, picked, pane, doomed, removing, helmDeeds,
                 helmOdd, helmTurns>>

\* Slip: an answer is taken whichever load it is of.
SlipLatestLoad(r) == TRUE
LatestLoad(r) == r.id = helmList.id /\ r.ctx = chosen

\* Slip: the selection keeps the release it was made with.
SlipInSync(list) == picked
\* What is selected follows the list; it stays when the list has it no longer.
InSync(list) ==
  IF picked # NoHelm /\ list.state = "shown" /\ list.rev # 0
  THEN [of |-> list.of, rev |-> list.rev] ELSE picked

\* A new revision is another detail panel.
Remounted(p) == IF p = NoHelm \/ p = picked THEN pane
                ELSE IF picked # NoHelm /\ p.rev = picked.rev THEN pane
                ELSE EmptyPane(pane.mount + 1)

Listed(i) ==
  /\ HelmAnswer(i, "list")
  /\ helmAsks' = HelmWithout(i)
  /\ LET r == helmAsks[i]
         list == IF r.state = "error" THEN [helmList EXCEPT !.state = "error", !.loading = FALSE]
                 ELSE [helmList EXCEPT !.state = "shown", !.of = r.of, !.rev = r.rev,
                                       !.loading = FALSE]
     IN  IF LatestLoad(r)
         THEN helmList' = list /\ picked' = InSync(list) /\ pane' = Remounted(InSync(list))
         ELSE UNCHANGED <<helmList, picked, pane>>
  /\ UNCHANGED <<released, chosen, serving, leaving, doomed, removing, helmDeeds, helmOdd,
                 helmAsked, helmTurns>>

PickRelease ==
  /\ helmList.state = "shown" /\ ~helmList.loading /\ helmList.rev # 0
  /\ doomed = NoHelm /\ pane.values.state = "none" /\ pane.mount < MaxHelmAsks
  /\ IF picked # NoHelm THEN picked' = NoHelm /\ pane' = EmptyPane(pane.mount)
     ELSE /\ picked' = [of |-> helmList.of, rev |-> helmList.rev]
          /\ pane' = EmptyPane(pane.mount + 1)
  /\ UNCHANGED <<released, chosen, serving, leaving, helmList, doomed, removing, helmAsks,
                 helmDeeds, helmOdd, helmAsked, helmTurns>>

--------------------------------------------------------------------------
(* Uninstalling                                                            *)

AskUninstall ==
  /\ picked # NoHelm /\ doomed = NoHelm /\ pane.values.state = "none"
  /\ doomed' = picked.of
  /\ UNCHANGED <<released, chosen, serving, leaving, helmList, picked, pane, removing, helmAsks,
                 helmDeeds, helmOdd, helmAsked, helmTurns>>

AbortUninstall ==
  /\ doomed # NoHelm /\ ~removing /\ doomed' = NoHelm
  /\ UNCHANGED <<released, chosen, serving, leaving, helmList, picked, pane, removing, helmAsks,
                 helmDeeds, helmOdd, helmAsked, helmTurns>>

\* Slip: the dialog's buttons stay enabled.
SlipIdleDialog == TRUE
IdleDialog == ~removing

ConfirmUninstall ==
  /\ doomed # NoHelm /\ IdleDialog /\ HelmAsking
  /\ removing' = TRUE
  /\ helmAsks' = Append(helmAsks, HelmRequest("uninstall", 0, doomed))
  /\ UNCHANGED <<released, chosen, serving, leaving, helmList, picked, pane, doomed, helmDeeds,
                 helmOdd, helmTurns>>

\* The dialog stays when the context has changed since.
Uninstalled(i) ==
  /\ HelmAnswer(i, "uninstall")
  /\ removing' = FALSE
  /\ IF helmAsks[i].ctx # chosen
     THEN UNCHANGED <<doomed, picked, pane, helmList, helmAsked>> /\ helmAsks' = HelmWithout(i)
     ELSE /\ doomed' = NoHelm
          /\ IF helmAsks[i].state = "error"
             THEN /\ helmList' = [helmList EXCEPT !.state = "error"]
                  /\ helmAsks' = HelmWithout(i) /\ UNCHANGED <<picked, pane, helmAsked>>
             ELSE /\ picked' = NoHelm /\ pane' = EmptyPane(pane.mount)
                  /\ helmList' = Listing(helmList) /\ helmAsked' = helmAsked
                  /\ helmAsks' = Append(HelmWithout(i),
                                        HelmRequest("list", helmList.id + 1, NoHelm))
  /\ UNCHANGED <<released, chosen, serving, leaving, helmDeeds, helmOdd, helmTurns>>

--------------------------------------------------------------------------
(* The detail                                                              *)

InPane ==
  /\ picked # NoHelm /\ doomed = NoHelm
  /\ UNCHANGED <<released, chosen, serving, leaving, helmList, picked, doomed, removing,
                 helmDeeds, helmOdd, helmTurns>>

\* The answers of a panel that is gone change nothing.
ToPane(i, what) == HelmAnswer(i, what) /\ helmAsks[i].n = pane.mount /\ picked # NoHelm

\* loadHistory, when the tab is first opened, and by its button; its calls are not
\* numbered.
AskHistory ==
  /\ picked # NoHelm /\ doomed = NoHelm
  /\ UNCHANGED <<released, chosen, serving, leaving, helmList, picked, doomed, removing,
                 helmDeeds, helmTurns>>
  /\ HelmAsking /\ pane.values.state = "none" /\ pane.history.state # "loading"
  /\ pane' = [pane EXCEPT !.tab = "history", !.history = Shown("loading", NoHelm, 0)]
  /\ helmAsks' = Append(helmAsks, HelmRequest("history", 0, NoHelm))
  /\ helmOdd' = helmOdd \cup (IF pane.rolling THEN {"loads overlap"} ELSE {})

HistoryCame(i) ==
  /\ ToPane(i, "history")
  /\ LET r == helmAsks[i]
     IN  pane' = [pane EXCEPT !.history =
                    IF r.state = "ok" THEN Shown("shown", r.of, r.rev)
                    ELSE Shown("none", NoHelm, 0)]
  /\ helmAsks' = HelmWithout(i) /\ UNCHANGED helmAsked
  /\ UNCHANGED <<released, chosen, serving, leaving, helmList, picked, doomed, removing,
                 helmDeeds, helmOdd, helmTurns>>

\* The button Values YAML, and the cross of its dialog.
AskValues ==
  /\ InPane /\ HelmAsking /\ pane.values.state = "none"
  /\ pane' = [pane EXCEPT !.valuesId = @ + 1, !.wanted = TRUE,
                       !.values = Shown("loading", NoHelm, 0)]
  /\ helmAsks' = Append(helmAsks, HelmRequest("values", pane.valuesId + 1, NoHelm))

CloseValues ==
  /\ InPane /\ pane.values.state # "none"
  /\ pane' = [pane EXCEPT !.valuesId = @ + 1, !.wanted = FALSE,
                       !.values = Shown("none", NoHelm, 0)]
  /\ UNCHANGED <<helmAsks, helmAsked>>

\* Slip: an answer is taken though its dialog has been closed.
SlipCurrentValues(r) == TRUE
CurrentValues(r) == r.id = pane.valuesId

ValuesCame(i) ==
  /\ ToPane(i, "values")
  /\ LET r == helmAsks[i]
     IN  pane' = IF ~CurrentValues(r) THEN pane
                 ELSE [pane EXCEPT !.values = IF r.state = "ok" THEN Shown("shown", r.of, r.rev)
                                              ELSE Shown("error", NoHelm, 0)]
  /\ helmAsks' = HelmWithout(i)
  /\ UNCHANGED <<released, chosen, serving, leaving, helmList, picked, doomed, removing,
                 helmDeeds, helmOdd, helmAsked, helmTurns>>

InHistory ==
  /\ picked # NoHelm /\ doomed = NoHelm /\ pane.values.state = "none"
  /\ pane.tab = "history" /\ pane.history.state = "shown"
  /\ UNCHANGED <<released, chosen, serving, leaving, helmList, picked, doomed, removing,
                 helmDeeds, helmTurns>>

\* In production the button of a revision opens a question, or closes it.
AskRollback ==
  /\ InHistory /\ chosen \in HelmProduction
  /\ pane' = [pane EXCEPT !.target = ~@] /\ UNCHANGED <<helmAsks, helmAsked, helmOdd>>

\* The button of the question; elsewhere that of the revision, which stays enabled.
RollBack ==
  /\ InHistory /\ HelmAsking
  /\ chosen \in HelmProduction => pane.target /\ ~pane.rolling
  /\ pane' = [pane EXCEPT !.rolling = TRUE]
  /\ helmAsks' = Append(helmAsks, HelmRequest("rollback", 0, picked.of))
  /\ helmOdd' = helmOdd \cup (IF pane.rolling THEN {"loads overlap"} ELSE {})

\* Slip: the history is left as it is.
SlipAfterRollback(i) == [history |-> "shown", asks |-> HelmWithout(i)]
\* A rollback is followed by a load of the history; the list is not loaded.
AfterRollback(i) ==
  [history |-> "loading", asks |-> Append(HelmWithout(i), HelmRequest("history", 0, NoHelm))]

RolledBack(i) ==
  /\ ToPane(i, "rollback")
  /\ LET ok == helmAsks[i].state = "ok"
     IN  /\ pane' = IF ~ok THEN [pane EXCEPT !.rolling = FALSE]
                    ELSE [pane EXCEPT !.target = FALSE, !.rolling = FALSE,
                                      !.least = helmAsks[i].rev,
                                      !.history.state = AfterRollback(i).history]
         /\ helmAsks' = IF ok THEN AfterRollback(i).asks ELSE HelmWithout(i)
  /\ UNCHANGED <<released, chosen, serving, leaving, helmList, picked, doomed, removing,
                 helmDeeds, helmOdd, helmAsked, helmTurns>>

\* The answers to a panel that is gone change nothing.
TooLate(i) ==
  /\ helmAsks[i].state # "open" /\ helmAsks[i].what \in {"history", "values", "rollback"}
  /\ picked = NoHelm \/ helmAsks[i].n # pane.mount
  /\ helmAsks' = HelmWithout(i)
  /\ UNCHANGED <<released, chosen, serving, leaving, helmList, picked, pane, doomed, removing,
                 helmDeeds, helmOdd, helmAsked, helmTurns>>

HelmNext ==
  \/ \E c \in HelmContexts : ChooseContext(c)
  \/ SidecarFollows \/ SwitchEnds \/ SwitchedBack \/ RefreshReleases \/ PickRelease
  \/ AskUninstall \/ AbortUninstall \/ ConfirmUninstall
  \/ AskHistory \/ AskValues \/ CloseValues \/ AskRollback \/ RollBack
  \/ \E i \in DOMAIN helmAsks :
        \/ HelmServed(i) \/ Listed(i) \/ Uninstalled(i) \/ HistoryCame(i) \/ ValuesCame(i)
        \/ RolledBack(i) \/ TooLate(i)

HelmSpec == HelmInit /\ [][HelmNext]_helmVars

--------------------------------------------------------------------------
(* Properties                                                              *)

\* What is on display is of the context that is selected: the list, the release,
\* its history and its values.  Unless a request was served in another one, for the
\* panel asks as soon as the context is chosen, before the sidecar has switched.
ShownOfContext ==
  \/ "served elsewhere" \in helmOdd
  \/ /\ helmList.state = "shown" => helmList.of = chosen
     /\ picked # NoHelm => picked.of = chosen
     /\ pane.history.state = "shown" => pane.history.of = chosen
     /\ pane.values.state = "shown" => pane.values.of = chosen

\* The release that is rolled back or uninstalled is that of the cluster it was
\* shown as: unless a request was served in another, or a switch was taken back
\* under the question.
DoneWhereMeant ==
  \/ helmOdd \cap {"served elsewhere", "taken back under a dialog"} # {}
  \/ \A d \in helmDeeds : d.on = d.meant

\* The detail is that of the row: what is selected has the list's revision.
DetailOfRow ==
  picked # NoHelm /\ helmList.rev # 0 => picked = [of |-> helmList.of, rev |-> helmList.rev]

\* A history on display has the revision that the panel has rolled back to: unless it
\* was asked for, or another rollback, while that was under way.
\* The dialog of the values does not come back when it has been closed.
PaneTells ==
  /\ pane.history.state = "shown" /\ pane.history.rev < pane.least =>
       helmOdd \cap {"loads overlap", "served elsewhere"} # {}
  /\ pane.values.state \in {"shown", "error"} => pane.wanted

\* One release is being uninstalled at a time.
OneRemoval == \A i, j \in DOMAIN helmAsks :
  helmAsks[i].what = "uninstall" /\ helmAsks[j].what = "uninstall" => i = j

\* The Helm panel shows, and acts on, the releases of the context selected.
HelmPanelTrue ==
  /\ HelmTypeOK /\ ShownOfContext /\ DoneWhereMeant /\ DetailOfRow /\ PaneTells
  /\ OneRemoval

=============================================================================
