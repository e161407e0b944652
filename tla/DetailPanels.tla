----------------------------- MODULE DetailPanels -----------------------------
(***************************************************************************)
(* The detail panels of other kinds than pods (resource-details/): views   *)
(* that load something of the object (events, rollout history, jobs), the  *)
(* YAML editor in its two forms (the hook useYAMLEditor, and the handlers  *)
(* that some panels have of their own), and buttons that act on the object. *)
(*                                                                         *)
(* Requests are answered by the cluster at one moment and reach the panel  *)
(* at a later one, in any order.  Another object or context is another     *)
(* panel: SectionRouter remounts it.                                       *)
(***************************************************************************)
EXTENDS Naturals, Sequences, FiniteSets

CONSTANTS
  PanelKinds,      \* those that are explored
  MaxAsked,        \* bound: requests
  MaxChanges       \* bound: changes made by others

\* What the panels load, and how they act.
Loads(kind) ==
  CASE kind = "deployment" -> {"events", "history"}
    [] kind \in {"statefulset", "ingress"} -> {"events"}
    [] kind = "cronjob" -> {"jobs"}
    [] kind = "hpa" -> {"polled"}
    [] OTHER -> {}
Acts(kind) ==
  CASE kind = "deployment" -> {"undo"}
    [] kind = "statefulset" -> {"scale"}
    [] kind = "cronjob" -> {"trigger"}
    [] kind = "node" -> {"cordon", "drain"}
    [] OTHER -> {}
AllLoads == {"events", "history", "jobs", "polled"}
AllActs == {"undo", "scale", "trigger", "cordon", "drain"}

\* Panels with handlers of their own for the YAML: they read it again after a save.
OwnEditor == {"node", "ingress", "storage"}

VARIABLES
  kindOf,    \* the kind of this panel
  version,    \* the object's version in the cluster
  asks,      \* requests under way: [what, id, base, state, got]
  view,      \* load -> [last, waits, v, floor, bad]: what a view shows
  ed,        \* the editor, see EditorType
  acting,    \* actionLoading, undoLoading, scaleLoading, triggerState "running"
  due,       \* the timer that loads the jobs after a trigger
  mishaps,   \* history: what has happened out of the ordinary
  asked, changes

detailVars == <<kindOf, version, asks, view, ed, acting, due, mishaps, asked, changes>>

EditorType ==
  [shows: {"nothing", "loading", "yaml", "error"},
   id: Nat,              \* genRef, yamlFetchIdRef
   base: Nat,            \* the version of the manifest shown
   floor: Nat,           \* history: the object's version when the editor was opened
   result: {"none", "ok", "error"},   \* history: of its last save
   saving: BOOLEAN, refused: BOOLEAN]   \* of the viewer: saving, saveError

DetailTypeOK ==
  /\ kindOf \in PanelKinds /\ version \in Nat
  /\ \A i \in DOMAIN asks :
       asks[i] \in [what: AllLoads \cup AllActs \cup {"manifest", "save", "reread"},
                   id: Nat, base: Nat, state: {"open", "ok", "error"}, got: Nat]
  /\ \A l \in AllLoads :
       view[l] \in [last: Nat, waits: BOOLEAN, v: Nat, floor: Nat, bad: BOOLEAN]
  /\ ed \in EditorType /\ acting \in BOOLEAN /\ due \in BOOLEAN

DetailInit ==
  /\ kindOf \in PanelKinds /\ version = 1 /\ asks = <<>>
  /\ view = [l \in AllLoads |->
               [last |-> 0, waits |-> FALSE, v |-> 0, floor |-> 0, bad |-> FALSE]]
  /\ ed = [shows |-> "nothing", id |-> 0, base |-> 0, floor |-> 0, result |-> "none",
            saving |-> FALSE, refused |-> FALSE]
  /\ acting = FALSE /\ due = FALSE /\ mishaps = {} /\ asked = 0 /\ changes = 0

--------------------------------------------------------------------------
(* Requests                                                                *)

DetailRequest(what, id, base) ==
  [what |-> what, id |-> id, base |-> base, state |-> "open", got |-> 0]
AskCluster(r) == asks' = Append(asks, r) /\ asked < MaxAsked /\ asked' = asked + 1
Without(i) == [j \in 1..(Len(asks) - 1) |-> asks[IF j < i THEN j ELSE j + 1]]
OpenAsks(what) == {i \in DOMAIN asks : asks[i].what = what}

\* Saving sends a manifest with its resourceVersion, which the cluster refuses
\* when the object has changed since; undo, scale and trigger change the object.
ClusterServes(i) ==
  /\ asks[i].state = "open"
  /\ LET r == asks[i]
         alters == r.what \in AllActs \/ (r.what = "save" /\ r.base = version)
     IN  \/ /\ r.what # "save" \/ alters
            /\ version' = IF alters THEN version + 1 ELSE version
            /\ asks' = [asks EXCEPT ![i].state = "ok", ![i].got = version']
         \/ asks' = [asks EXCEPT ![i].state = "error"] /\ UNCHANGED version
  /\ UNCHANGED <<kindOf, view, ed, acting, due, mishaps, asked, changes>>

\* The object changes without the panel.
ChangedByOthers ==
  /\ changes < MaxChanges /\ changes' = changes + 1 /\ version' = version + 1
  /\ UNCHANGED <<kindOf, asks, view, ed, acting, due, mishaps, asked>>

AnswerTo(i, what) == i \in OpenAsks(what) /\ asks[i].state # "open"

--------------------------------------------------------------------------
(* Views                                                                   *)

\* A load begins: it is the newest.
Begun(l) ==
  [view EXCEPT ![l].last = @ + 1, ![l].waits = TRUE, ![l].floor = version, ![l].bad = FALSE]

\* The tab is opened, Refresh is clicked, or the HPA's poll comes round.
LoadView(l) ==
  /\ l \in Loads(kindOf)
  /\ view' = Begun(l) /\ AskCluster(DetailRequest(l, view[l].last + 1, 0))
  /\ mishaps' = mishaps \cup (IF OpenAsks(l) # {} /\ l = "polled" THEN {"pollsOverlap"} ELSE {})
  /\ UNCHANGED <<kindOf, version, ed, acting, due, changes>>

\* Slip: an answer is taken whichever load it is of.
SlipNewest(l, id) == TRUE
\* Only the newest load's answer counts; the polls of an HPA are not numbered.
Newest(l, id) == l = "polled" \/ id = view[l].last

ViewAnswered(l, i) ==
  /\ AnswerTo(i, l)
  /\ asks' = Without(i)
  /\ view' = IF ~Newest(l, asks[i].id) THEN view
             ELSE [view EXCEPT ![l].waits = FALSE, ![l].bad = asks[i].state = "error",
                               ![l].v = IF asks[i].state = "error" THEN @ ELSE asks[i].got]
  /\ acting' = (acting /\ asks[i].base = 0)
  /\ UNCHANGED <<kindOf, version, ed, due, mishaps, asked, changes>>

--------------------------------------------------------------------------
(* Buttons                                                                 *)

\* Slip: the button stays enabled.
SlipIdleButtons == TRUE
\* The buttons are disabled while a request of theirs is under way.
IdleButtons == ~acting

ActOn(a) ==
  /\ a \in Acts(kindOf) /\ IdleButtons
  /\ acting' = TRUE /\ AskCluster(DetailRequest(a, 0, 0))
  /\ UNCHANGED <<kindOf, version, view, ed, due, mishaps, changes>>

\* What the panel has changed, its view is to show (history).
Raised(l, i) == [view EXCEPT ![l].floor = asks[i].got]

\* Slip: the history stays as it is.
SlipAfterUndo(i) == view' = Raised("history", i) /\ asks' = Without(i)
\* A rollback is followed by a load of the history, and has ended when that has.
AfterUndo(i) ==
  /\ view' = Begun("history")
  /\ asks' = Append(Without(i), DetailRequest("history", view["history"].last + 1, 1))

\* A trigger is followed by a load of the jobs after a second; scaling, cordoning
\* and draining by nothing.
ActedOn(a, i) ==
  /\ AnswerTo(i, a)
  /\ acting' = (a = "undo" /\ asks[i].state = "ok")
  /\ IF asks[i].state = "error" \/ a \notin {"undo", "trigger"}
     THEN asks' = Without(i) /\ UNCHANGED <<view, due>>
     ELSE IF a = "undo" THEN AfterUndo(i) /\ UNCHANGED due
     ELSE due' = TRUE /\ asks' = Without(i) /\ view' = Raised("jobs", i)
  /\ UNCHANGED <<kindOf, version, ed, mishaps, asked, changes>>

JobsTimer ==
  /\ due /\ due' = FALSE
  /\ view' = Begun("jobs") /\ asks' = Append(asks, DetailRequest("jobs", view["jobs"].last + 1, 0))
  /\ UNCHANGED <<kindOf, version, ed, acting, mishaps, asked, changes>>

--------------------------------------------------------------------------
(* The editor                                                              *)

OpenYAML ==
  /\ ed.shows = "nothing" /\ kindOf # "hpa"
  /\ AskCluster(DetailRequest("manifest", ed.id + 1, 0))
  /\ ed' = [ed EXCEPT !.shows = "loading", !.id = @ + 1, !.saving = FALSE, !.refused = FALSE,
                      !.floor = version, !.result = "none"]
  /\ mishaps' = mishaps \cup (IF OpenAsks("save") # {} THEN {"openedWhileSaving"} ELSE {})
  /\ UNCHANGED <<kindOf, version, view, acting, due, changes>>

\* Slip: the number is not compared.
SlipCurrentYAML(id) == TRUE
CurrentYAML(id) == id = ed.id

ManifestArrives(i) ==
  /\ AnswerTo(i, "manifest")
  /\ asks' = Without(i)
  /\ ed' = IF ~CurrentYAML(asks[i].id) THEN ed
           ELSE IF asks[i].state = "error" THEN [ed EXCEPT !.shows = "error"]
           ELSE [ed EXCEPT !.shows = "yaml", !.base = asks[i].got]
  /\ UNCHANGED <<kindOf, version, view, acting, due, mishaps, asked, changes>>

\* Closing makes everything under way outdated.
CloseYAML ==
  /\ ed.shows # "nothing" /\ asked < MaxAsked
  /\ ed' = [ed EXCEPT !.shows = "nothing", !.id = @ + 1, !.saving = FALSE, !.refused = FALSE]
  /\ UNCHANGED <<kindOf, version, asks, view, acting, due, mishaps, asked, changes>>

\* handleSave, by its button or by Cmd+S; where the panel has an editor of its own
\* the save counts as a newer request of it.
SaveYAML ==
  /\ ed.shows = "yaml" /\ ~ed.saving
  /\ LET id == IF kindOf \in OwnEditor THEN ed.id + 1 ELSE ed.id
     IN  /\ ed' = [ed EXCEPT !.saving = TRUE, !.refused = FALSE, !.id = id]
         /\ AskCluster(DetailRequest("save", id, ed.base))
  /\ UNCHANGED <<kindOf, version, view, acting, due, mishaps, changes>>

\* The viewer reports an error and stays; it is another viewer if the editor has
\* been closed since.
EditorRefused(id) == IF CurrentYAML(id) THEN [ed EXCEPT !.saving = FALSE, !.refused = TRUE] ELSE ed

\* Slip: the hook's editor stays open with the old manifest.
SlipEditorSaved == [ed EXCEPT !.saving = FALSE]
\* The hook takes the manifest on display away, whichever it is.
EditorSaved == IF ed.shows = "yaml" THEN [ed EXCEPT !.shows = "nothing", !.saving = FALSE]
               ELSE ed

SaveAnswered(i) ==
  /\ AnswerTo(i, "save")
  /\ LET r == asks[i]
         ok == r.state # "error"
     IN  /\ asks' = IF ok /\ kindOf \in OwnEditor /\ CurrentYAML(r.id)
                    THEN Append(Without(i), DetailRequest("reread", r.id, 0)) ELSE Without(i)
         /\ ed' = LET e == IF ~ok THEN EditorRefused(r.id)
                           ELSE IF kindOf \in OwnEditor THEN ed ELSE EditorSaved
                  IN  IF r.id # ed.id THEN e
                      ELSE [e EXCEPT !.result = IF ok THEN "ok" ELSE "error"]
         /\ mishaps' = mishaps \cup
              (IF ok /\ kindOf \notin OwnEditor /\ ed.shows = "yaml" /\ ~CurrentYAML(r.id)
               THEN {"anotherClosed"} ELSE {})
  /\ UNCHANGED <<kindOf, version, view, acting, due, asked, changes>>

\* The manifest after the save.  An error here is shown as one of the save, but by
\* an ingress, whose editor closes.
Reread(i) ==
  /\ AnswerTo(i, "reread")
  /\ asks' = Without(i)
  /\ LET r == asks[i]
     IN  ed' = IF ~CurrentYAML(r.id) THEN ed
               ELSE IF r.state # "error" THEN [ed EXCEPT !.base = r.got, !.saving = FALSE]
               ELSE IF kindOf = "ingress" THEN [ed EXCEPT !.shows = "nothing", !.saving = FALSE]
               ELSE EditorRefused(r.id)
  /\ mishaps' = mishaps \cup (IF asks[i].state = "error" THEN {"rereadFailed"} ELSE {})
  /\ UNCHANGED <<kindOf, version, view, acting, due, asked, changes>>

DetailNext ==
  \/ ChangedByOthers \/ JobsTimer \/ OpenYAML \/ CloseYAML \/ SaveYAML
  \/ \E i \in DOMAIN asks :
        \/ ClusterServes(i) \/ ManifestArrives(i) \/ SaveAnswered(i) \/ Reread(i)
        \/ \E l \in AllLoads : ViewAnswered(l, i)
        \/ \E a \in AllActs : ActedOn(a, i)
  \/ \E l \in AllLoads : LoadView(l)
  \/ \E a \in AllActs : ActOn(a)

DetailSpec == DetailInit /\ [][DetailNext]_detailVars

--------------------------------------------------------------------------
(* Properties                                                              *)

\* A view that is not loading shows the object as it was when it was last asked
\* for, or later, and what the panel's own rollback or trigger has changed: unless
\* that failed, two polls of an HPA overlapped, or the timer after a trigger has
\* not run out.
ViewsAreNewest ==
  \A l \in AllLoads :
    view[l].last > 0 /\ ~view[l].waits /\ ~view[l].bad /\ view[l].v < view[l].floor =>
       "pollsOverlap" \in mishaps \/ due

\* The manifest in the editor is not older than the editor, and an error that the
\* editor shows is of a save of its own: or of reading the object again after it.
\* Once a save of its own has succeeded it does not go on with what was before it.
EditorTells ==
  /\ ed.shows = "yaml" => ed.base >= ed.floor
  /\ ed.refused => ed.result = "error" \/ "rereadFailed" \in mishaps
  /\ ed.shows = "yaml" /\ ~ed.saving /\ ed.result = "ok" /\ "rereadFailed" \notin mishaps =>
       ed.base > ed.floor

\* An editor goes away with edits in it, by the answer to a save of an earlier one,
\* only if it was opened while that was under way.
EditsKept == "anotherClosed" \in mishaps => "openedWhileSaving" \in mishaps

\* A panel never has two of its changes under way.
OneChangeAtATime == Cardinality({i \in DOMAIN asks : asks[i].what \in AllActs}) <= 1

\* Panels show what they were asked to show, and say what became of a change.
DetailsTrue ==
  DetailTypeOK /\ ViewsAreNewest /\ EditorTells /\ EditsKept /\ OneChangeAtATime

=============================================================================
