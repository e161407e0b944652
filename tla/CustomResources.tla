--------------------------- MODULE CustomResources ---------------------------
(***************************************************************************)
(* The panels of custom resources: the list of a kind, as a section        *)
(* (ProviderResourcePanel.tsx) or under its definition (CRDDetail.tsx,     *)
(* GenericCRDPanel.tsx), the detail of an object of it                     *)
(* (GenericCRDDetail.tsx), and the editor of a manifest (YAMLViewer.tsx).  *)
(*                                                                         *)
(* The sidecar is taken to be in the context that is selected.             *)
(***************************************************************************)
EXTENDS Naturals, FiniteSets

CONSTANTS
  Panels,       \* hosts: "section", "definition"
  Spots,        \* [kind, ctx, ns]: what can be shown
  FirstSpot,
  CustomNames,  \* [name, ns]: the objects of every kind in every cluster
  Guarded,      \* contexts marked as production
  MaxSpotMoves, \* bound: changes of what is shown
  MaxSaves,     \* bound: saves
  MaxReads,     \* bound: manifests asked for, and refreshes
  MaxCustomOdd, \* bound: what is out of the ordinary before the user stops
  NoCustom

EveryNamespace == "_all"
SpotContexts == {s.ctx : s \in Spots}
Kinds == {s.kind : s \in Spots}
Customs == {[kind |-> k, ctx |-> c, name |-> n.name, ns |-> n.ns] :
              k \in Kinds, c \in SpotContexts, n \in CustomNames}

\* A cluster has finitely many objects, NoCustom is none, and a spot is its kind, its
\* context and its namespace.
ASSUME CustomAssumption ==
  /\ IsFiniteSet(Customs) /\ NoCustom \notin Customs \cup Spots /\ FirstSpot \in Spots
  /\ \A s \in Spots, t \in Spots : s.kind = t.kind /\ s.ctx = t.ctx /\ s.ns = t.ns => s = t

VARIABLES
  hostOf,       \* the host
  spot,        \* what it is to show
  items,        \* [n, of, count, loading, error]: items, as the spot they were asked for
  lists,       \* lists under way: [n, of, dead, saved]
  lastList,
  customObject,      \* selected: an object, or NoCustom
  pickedFrom,  \* the list it was picked from
  manifest,    \* the detail: [mount, tab, fetched, text, loading, error]
  manifests,   \* reads under way: [n, mount, of]
  viewer,      \* the YAMLViewer: [mount, text, edited, seen, diff, confirm, saving, said]
  saves,       \* applies under way: [n, mount, editor, text, spot, latest]
  revision,    \* external: object -> how often it was applied
  definition,  \* the modal of the definition: [id, state, wanted]; wanted is history
  definitionAsks,
  applied,     \* history: [text, edited, seen, ctx] of each apply
  customOdd,   \* history: what has happened out of the ordinary
  spotMoves, saveCount, readCount

objectVars      == <<customObject, pickedFrom>>
listVarsOfSpot  == <<items, lists, lastList>>
manifestVars    == <<manifest, manifests, readCount>>
editorVars      == <<viewer, saves, saveCount, applied, revision>>
definitionVars  == <<definition, definitionAsks>>
customVars == <<hostOf, spot, listVarsOfSpot, objectVars, manifestVars, editorVars,
                definitionVars, customOdd, spotMoves>>

\* A section whose kind is of the cluster asks for every namespace.
ItemsOf(s) ==
  {o \in Customs : o.kind = s.kind /\ o.ctx = s.ctx /\ s.ns \in {EveryNamespace, o.ns}}
Text(o) == [of |-> o, rev |-> revision[o]]
NewDetail(mount) == [mount |-> mount, tab |-> "metadata", fetched |-> FALSE, text |-> NoCustom,
                     loading |-> FALSE, error |-> FALSE]
NoEditor(mount) ==
  [mount |-> mount, text |-> NoCustom, edited |-> FALSE, seen |-> FALSE, diff |-> FALSE,
   confirm |-> FALSE, saving |-> FALSE, said |-> "nothing"]
\* A mount that no request under way belongs to.
FreshMount ==
  CHOOSE m \in 1..(1 + Cardinality(manifests) + Cardinality(saves)) :
    \A k \in manifests \cup saves : k.mount # m
FreshEditor == CHOOSE m \in 1..(1 + Cardinality(saves)) : \A k \in saves : k.editor # m
NewList(n, s) == [n |-> n, of |-> s, dead |-> FALSE, saved |-> FALSE]

CustomTypeOK ==
  /\ hostOf \in Panels /\ spot \in Spots /\ customObject \in Customs \cup {NoCustom}
  /\ items.of \in Spots \cup {NoCustom} /\ {items.loading, items.error} \subseteq BOOLEAN
  /\ manifest.tab \in {"metadata", "spec", "yaml"}
  /\ viewer.said \in {"nothing", "applied", "failed"}
  /\ definition.state \in {"none", "loading", "shown", "error"}
  /\ revision \in [Customs -> Nat]

CustomInit ==
  /\ hostOf \in Panels /\ spot = FirstSpot
  /\ items = [n |-> 0, of |-> NoCustom, count |-> 0, loading |-> TRUE, error |-> FALSE]
  /\ lists = {NewList(1, FirstSpot)} /\ lastList = 1
  /\ customObject = NoCustom /\ pickedFrom = 0 /\ manifest = NewDetail(1) /\ manifests = {}
  /\ viewer = NoEditor(1) /\ saves = {} /\ revision = [o \in Customs |-> 0]
  /\ definition = [id |-> 0, state |-> "none", wanted |-> FALSE] /\ definitionAsks = {}
  /\ applied = {} /\ customOdd = {} /\ spotMoves = 0 /\ saveCount = 0 /\ readCount = 0

--------------------------------------------------------------------------
(* The list                                                                *)

Listable == ~items.loading /\ ~items.error /\ items.of # NoCustom

\* The section takes an answer of its context and namespace, whatever its kind; the
\* panel of a definition one that it has not cancelled.
\* Slip: the namespace is not compared.
SlipTakenList(k) ==
  IF hostOf = "section" THEN k.of.ctx = spot.ctx ELSE ~k.dead
TakenList(k) ==
  IF hostOf = "section" THEN k.of.ctx = spot.ctx /\ k.of.ns = spot.ns ELSE ~k.dead

ListArrives ==
  /\ \E k \in lists, ok \in BOOLEAN :
       /\ lists' = lists \ {k}
       /\ items' = CASE TakenList(k) /\ ok ->
                         [n |-> k.n, of |-> k.of, count |-> Cardinality(ItemsOf(k.of)),
                          loading |-> FALSE, error |-> items.error]
                    [] TakenList(k) /\ ~ok -> [items EXCEPT !.loading = FALSE, !.error = TRUE]
                    [] ~TakenList(k) -> items
  /\ UNCHANGED <<hostOf, spot, lastList, objectVars, manifestVars, editorVars,
                 definitionVars, customOdd, spotMoves>>

AskList ==
  /\ items' = [items EXCEPT !.loading = TRUE, !.error = FALSE]
  /\ lastList' = lastList + 1

\* The refresh button of a section.
RefreshList ==
  /\ hostOf = "section" /\ ~items.loading /\ readCount < MaxReads /\ readCount' = readCount + 1
  /\ AskList /\ lists' = lists \cup {NewList(lastList', spot)}
  /\ UNCHANGED <<hostOf, spot, objectVars, manifest, manifests, editorVars,
                 definitionVars, customOdd, spotMoves>>

\* Slip: the object stays selected.
SlipObjectAfter == customObject
\* The effect of another kind, context or namespace closes the detail.
ObjectAfter == NoCustom

\* Another section, context or namespace; the panel of a definition cancels its list. It
\* is another for another kind or context.
ChooseSpot(s) ==
  /\ s # spot /\ definition.state = "none"
  /\ hostOf = "definition" => s.kind = spot.kind /\ s.ctx = spot.ctx
  /\ spotMoves < MaxSpotMoves /\ spotMoves' = spotMoves + 1 /\ spot' = s
  /\ AskList
  /\ lists' = {IF k.saved THEN k ELSE [k EXCEPT !.dead = TRUE] : k \in lists} \cup
                {NewList(lastList', s)}
  /\ customObject' = ObjectAfter /\ manifest' = NewDetail(FreshMount)
  /\ viewer' = NoEditor(FreshEditor)
  /\ customOdd' = customOdd \cup
       (IF hostOf = "section" /\ s.kind # spot.kind /\ lists # {}
        THEN {"leftDuringList"} ELSE {}) \cup
       (IF saves # {} \/ \E k \in lists : k.saved THEN {"leftDuringSave"} ELSE {})
  /\ UNCHANGED <<hostOf, pickedFrom, manifests, readCount, saves, saveCount, applied, revision,
                 definitionVars>>

--------------------------------------------------------------------------
(* The detail of an object                                                 *)

EditorOn(m) == m.tab = "yaml" /\ m.text # NoCustom /\ ~m.loading
\* The editor is mounted with the manifest, takes another, and is gone with the tab.
EditorFor(m) ==
  CASE ~EditorOn(m) -> NoEditor(IF EditorOn(manifest) THEN FreshEditor ELSE viewer.mount)
    [] EditorOn(m) /\ viewer.text = NoCustom -> [viewer EXCEPT !.text = m.text]
    [] EditorOn(m) /\ viewer.text = m.text -> viewer
    [] OTHER -> [viewer EXCEPT !.text = m.text, !.edited = FALSE, !.seen = FALSE]
Show(m) == manifest' = m /\ viewer' = EditorFor(m)

\* Slip: the manifest stays.
SlipOfObject(o) == manifest
\* What was read is forgotten for an object of another name.
OfObject(o) ==
  IF o.name = customObject.name THEN manifest
  ELSE [manifest EXCEPT !.text = NoCustom, !.error = FALSE, !.loading = FALSE, !.fetched = FALSE]

\* A section knows the row by the list it was picked from.
Again(o) == o = customObject /\ (hostOf = "section" => pickedFrom = items.n)

\* A click on a row: the detail stays mounted from object to object.
PickObject(o) ==
  /\ Listable /\ o \in ItemsOf(items.of) /\ definition.state = "none"
  /\ IF Again(o)
     THEN /\ customObject' = NoCustom /\ manifest' = NewDetail(FreshMount)
          /\ viewer' = NoEditor(FreshEditor) /\ UNCHANGED <<pickedFrom, customOdd>>
     ELSE /\ customObject' = o /\ pickedFrom' = items.n
          /\ IF customObject = NoCustom THEN UNCHANGED <<manifest, viewer>> ELSE Show(OfObject(o))
          /\ customOdd' = customOdd \cup
               (IF \E k \in manifests : k.mount = manifest.mount
                THEN {"pickedDuringRead"} ELSE {}) \cup
               (IF \E k \in saves : k.mount = manifest.mount THEN {"pickedDuringSave"}
                     ELSE {})
               \cup (IF customObject # NoCustom /\ o # customObject /\ o.name = customObject.name
                      /\ (manifest.fetched \/ manifest.text # NoCustom)
                     THEN {"sameName"} ELSE {})
  /\ UNCHANGED <<hostOf, spot, listVarsOfSpot, manifests, readCount, saves, saveCount, applied,
                 revision, definitionVars, spotMoves>>

\* handleOpenYAMLTab: read once.
ChooseManifestTab(t) ==
  /\ customObject # NoCustom /\ t # manifest.tab
  /\ IF t = "yaml" /\ ~manifest.fetched
     THEN /\ readCount < MaxReads /\ readCount' = readCount + 1
          /\ Show([manifest EXCEPT !.tab = t, !.fetched = TRUE, !.loading = TRUE, !.error = FALSE])
          /\ manifests' = manifests \cup
               {[n |-> readCount + 1, mount |-> manifest.mount, of |-> customObject]}
     ELSE Show([manifest EXCEPT !.tab = t]) /\ UNCHANGED <<manifests, readCount>>
  /\ UNCHANGED <<hostOf, spot, listVarsOfSpot, objectVars, saves, saveCount, applied, revision,
                 definitionVars, customOdd, spotMoves>>

ManifestAnswers ==
  /\ \E k \in manifests, ok \in BOOLEAN :
       /\ manifests' = manifests \ {k}
       /\ IF k.mount # manifest.mount THEN UNCHANGED <<manifest, viewer>>
          ELSE Show(IF ok THEN [manifest EXCEPT !.text = Text(k.of), !.loading = FALSE]
                    ELSE [manifest EXCEPT !.error = TRUE, !.loading = FALSE, !.fetched = FALSE])
  /\ UNCHANGED <<hostOf, spot, listVarsOfSpot, objectVars, readCount, saves, saveCount, applied,
                 revision, definitionVars, customOdd, spotMoves>>

--------------------------------------------------------------------------
(* The editor                                                              *)

EditorChanges(e) ==
  /\ viewer.text # NoCustom /\ viewer' = e
  /\ UNCHANGED <<hostOf, spot, listVarsOfSpot, objectVars, manifestVars, saves,
                 saveCount, applied,
                 revision, definitionVars, customOdd, spotMoves>>

\* The side that can be typed in of the difference does not tell the panel.
TypeInEditor == EditorChanges([viewer EXCEPT !.seen = TRUE, !.edited = @ \/ ~viewer.diff])
ToggleDiff   == EditorChanges([viewer EXCEPT !.diff = ~@, !.seen = viewer.edited])
MouseLeaves  == viewer.confirm /\ EditorChanges([viewer EXCEPT !.confirm = FALSE])

\* Slip: the confirmation is not asked for.
SlipAsksFirst == FALSE
AsksFirst == spot.ctx \in Guarded /\ ~viewer.confirm

\* handleSave: the button, or its key; a second click in production.
SaveClick ==
  /\ viewer.text # NoCustom /\ ~viewer.saving
  /\ IF AsksFirst
     THEN /\ viewer' = [viewer EXCEPT !.confirm = TRUE]
          /\ UNCHANGED <<saves, saveCount, applied>>
     ELSE /\ saveCount < MaxSaves /\ saveCount' = saveCount + 1
          /\ viewer' = [viewer EXCEPT !.confirm = FALSE, !.saving = TRUE]
          /\ saves' = {IF k.mount = manifest.mount THEN [k EXCEPT !.latest = FALSE] ELSE k :
                         k \in saves} \cup
                       {[n |-> saveCount', mount |-> manifest.mount, editor |-> viewer.mount,
                         text |-> viewer.text, spot |-> spot, latest |-> TRUE]}
          /\ applied' = applied \cup
               {[of |-> viewer.text.of, edited |-> viewer.edited, seen |-> viewer.seen,
                 ctx |-> spot.ctx, asked |-> viewer.confirm]}
  /\ UNCHANGED <<hostOf, spot, listVarsOfSpot, objectVars, manifestVars, revision,
                 definitionVars,
                 customOdd, spotMoves>>

\* The detail takes the text and loads the list, also when it is gone; a list that is loaded
\* so is not cancelled.  A refusal is shown by the detail, and the editor is told of none.
SaveEnds ==
  /\ \E k \in saves, ok \in BOOLEAN :
       LET here  == k.mount = manifest.mount
           after == [manifest EXCEPT !.text = [k.text EXCEPT !.rev = revision'[k.text.of]],
                                     !.tab = "metadata", !.fetched = FALSE]
           told  == IF viewer.mount = k.editor
                    THEN [viewer EXCEPT !.saving = FALSE, !.said = "applied"] ELSE viewer
       IN  /\ saves' = saves \ {k}
           /\ revision' = IF ok THEN [revision EXCEPT ![k.text.of] = @ + 1] ELSE revision
           /\ IF ok /\ k.latest
              THEN /\ IF here THEN Show(after) ELSE UNCHANGED <<manifest, viewer>>
                   /\ AskList
                   /\ lists' = lists \cup {[NewList(lastList', k.spot) EXCEPT !.saved = TRUE]}
              ELSE /\ manifest' = IF here /\ k.latest /\ ~ok THEN [manifest EXCEPT !.error = TRUE]
                                  ELSE manifest
                   /\ viewer' = told /\ UNCHANGED listVarsOfSpot
  /\ UNCHANGED <<hostOf, spot, objectVars, manifests, readCount, saveCount, applied,
                 definitionVars, customOdd, spotMoves>>

--------------------------------------------------------------------------
(* The definition                                                          *)

AroundDefinition ==
  /\ hostOf = "definition"
  /\ UNCHANGED <<hostOf, spot, listVarsOfSpot, objectVars, manifest, manifests,
                 editorVars, customOdd, spotMoves>>

ViewDefinition ==
  /\ definition.state = "none" /\ readCount < MaxReads /\ readCount' = readCount + 1
  /\ definition' = [id |-> definition.id + 1, state |-> "loading", wanted |-> TRUE]
  /\ definitionAsks' = definitionAsks \cup {[id |-> definition'.id, what |-> "get"]}
  /\ AroundDefinition

\* Slip: closing does not outdate what is under way.
SlipClosedDefinition == [definition EXCEPT !.state = "none", !.wanted = FALSE]
ClosedDefinition == [id |-> definition.id + 1, state |-> "none", wanted |-> FALSE]

CloseDefinition ==
  /\ definition.state # "none" /\ definition' = ClosedDefinition
  /\ AroundDefinition /\ UNCHANGED <<definitionAsks, readCount>>

ApplyDefinition ==
  /\ definition.state = "shown" /\ readCount < MaxReads /\ readCount' = readCount + 1
  /\ ~ \E k \in definitionAsks : k.what = "apply" /\ k.id = definition.id
  /\ definition' = [definition EXCEPT !.id = @ + 1]
  /\ definitionAsks' = definitionAsks \cup {[id |-> definition'.id, what |-> "apply"]}
  /\ AroundDefinition

DefinitionAnswers ==
  /\ \E k \in definitionAsks, ok \in BOOLEAN :
       /\ definitionAsks' = definitionAsks \ {k}
       /\ definition' =
            CASE k.id = definition.id /\ k.what = "get" ->
                   [definition EXCEPT !.state = IF ok THEN "shown" ELSE "error"]
              [] k.id = definition.id /\ k.what = "apply" /\ ok ->
                   [definition EXCEPT !.state = "none", !.wanted = FALSE]
              [] OTHER -> definition
  /\ AroundDefinition /\ UNCHANGED readCount

\* Rows and details; saves; the definition.  Nothing is done any more some steps after what
\* is out of the ordinary: a bound.
Ordinary == Cardinality(customOdd) <= MaxCustomOdd
Browsing ==
  /\ Ordinary
  /\ \/ \E s \in Spots : ChooseSpot(s)
     \/ \E o \in Customs : PickObject(o)
     \/ \E t \in {"metadata", "yaml"} : ChooseManifestTab(t)
Editing == Ordinary /\ (TypeInEditor \/ ToggleDiff \/ MouseLeaves \/ SaveClick)

CustomNext == Browsing \/ ListArrives \/ RefreshList \/ ManifestAnswers
SaveNext   == Browsing \/ Editing \/ ListArrives \/ ManifestAnswers \/ SaveEnds
ModalNext  == ViewDefinition \/ CloseDefinition \/ ApplyDefinition \/ DefinitionAnswers

CustomSpec == CustomInit /\ [][CustomNext \/ SaveNext \/ ModalNext]_customVars

--------------------------------------------------------------------------
(* Properties                                                              *)

\* The rows are those of the kind, the context and the namespace shown, unless the
\* section was left while a list was under way (its answer names no kind) or while a
\* manifest was saved (the list is then loaded for what was left).
RowsOfSpot ==
  Listable /\ {"leftDuringList", "leftDuringSave"} \cap customOdd = {} =>
     /\ items.of = spot /\ items.count = Cardinality(ItemsOf(spot))
     /\ customObject # NoCustom => customObject \in ItemsOf(spot)

\* The spinner ends with a list that the panel takes.
ListEnds ==
  items.loading /\ "leftDuringSave" \notin customOdd => \E k \in lists : TakenList(k)

\* The manifest shown is of the object selected, unless the object was changed while one
\* was read or saved, or for another of its name.
ManifestOfObject ==
  /\ viewer.text # NoCustom
  /\ {"pickedDuringRead", "pickedDuringSave", "sameName"} \cap customOdd = {}
  => viewer.text.of = customObject

\* What is applied was read in the context it is applied in, is what the editor showed,
\* unless that was typed into the difference, and was asked for twice in production.
AppliedAsMeant ==
  \A a \in applied :
     /\ {"leftDuringList", "leftDuringSave"} \cap customOdd = {} => a.of.ctx = a.ctx
     /\ a.edited => a.seen
     /\ a.ctx \in Guarded => a.asked

\* The editor says "Applied!" only beside the error of the detail: the detail tells it of no
\* refusal, and what was applied closes it.
SaidTrue == viewer.said = "applied" => manifest.error

\* A definition that was closed is not shown by an answer that comes late, and one that
\* loads is answered.
DefinitionTrue ==
  /\ definition.state # "none" <=> definition.wanted
  /\ definition.state = "loading" =>
       \E k \in definitionAsks : k.id = definition.id /\ k.what = "get"

CustomTrue ==
  /\ CustomTypeOK /\ RowsOfSpot /\ ListEnds /\ ManifestOfObject /\ AppliedAsMeant /\ SaidTrue
  /\ DefinitionTrue
=============================================================================
