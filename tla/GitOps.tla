------------------------------- MODULE GitOps -------------------------------
(***************************************************************************)
(* The GitOps panel (GitOpsPanel.tsx): the Flux and Argo objects of a      *)
(* context and a namespace, the detail of one with its actions, and the    *)
(* editor of its manifest, while both change.                              *)
(*                                                                         *)
(* The same objects are followed in every cluster with a controller.  The  *)
(* requests reach the cluster that the sidecar is in, which follows a      *)
(* change of context later.                                                *)
(***************************************************************************)
EXTENDS Naturals, FiniteSets

CONSTANTS
  Places,         \* [ctx, ns]: what the menus of the window can choose
  FirstPlace,
  Deliveries,     \* the objects: [kind, ns]
  Verdicts,       \* what the sidecar may say of one: [ready, status]
  Controlled,     \* contexts whose cluster has a controller, and the objects
  MaxHubActs,     \* bound: what the user does in the panel
  MaxHubOdd,      \* bound: odd things after which the user does no more
  MaxHubMoves,    \* bound: changes of context or namespace
  NoDelivery

AnyNamespace == "_all"
HubContexts == {p.ctx : p \in Places}

VARIABLES
  place,       \* selectedContext and selectedNamespace
  servedFrom,     \* the context the sidecar is in
  fleet,       \* external: context -> object -> [ready, status, suspended]
  hub,         \* [data, busy, error]: data, loading, loadError
  hubAsks,     \* lists under way: [n, place, read]
  lastHubAsk,
  sieve,       \* the objects that the kind and the search let through
  detail,      \* selected: a row, or NoDelivery
  actions,       \* reconciliations and suspensions under way
  lastAction,    \* actionGenRef
  pending,     \* actionPending: an object, or NoDelivery
  toast,       \* actionFeedback: [of, ctx, ok], or NoDelivery
  reload,      \* reloadTimerRef: the place its load is for, or NoDelivery
  modal,       \* [id, target, ctx, state, content]: yamlFetchIdRef and the editor
  modalAsks,   \* its requests: [id, what, of, ctx, place]
  userChose,      \* history: the object the user has chosen last, or NoDelivery
  doneTo,        \* history: [meant, on] of what was done to an object
  hubOdd,      \* history: what has happened out of the ordinary
  hubActs, hubMoves

listVarsOfHub == <<hub, hubAsks, lastHubAsk>>
deedVars  == <<actions, lastAction, pending, toast, reload>>
modalVars == <<modal, modalAsks>>
placeVars == <<place, servedFrom, hubMoves>>
hubVars   == <<listVarsOfHub, deedVars, modalVars, placeVars, fleet, sieve, detail, userChose,
               doneTo, hubOdd, hubActs>>

Row(d, c) == [of |-> d, ctx |-> c, state |-> fleet[c][d]]
\* What the sidecar lists of a namespace, of the cluster it is in.
ListedOf(p) ==
  [place |-> p, ctx |-> servedFrom, tools |-> servedFrom \in Controlled,
   rows |-> {Row(d, servedFrom) : d \in {e \in Deliveries :
               servedFrom \in Controlled /\ p.ns \in {AnyNamespace, e.ns}}}]
ClosedModal(id) == [id |-> id, target |-> NoDelivery, ctx |-> NoDelivery, state |-> "none",
               content |-> NoDelivery]

HubTypeOK ==
  /\ place \in Places /\ servedFrom \in HubContexts /\ sieve \subseteq Deliveries
  /\ hub.busy \in BOOLEAN /\ hub.error \in BOOLEAN
  /\ pending \in Deliveries \cup {NoDelivery} /\ userChose \in Deliveries \cup {NoDelivery}
  /\ reload \in Places \cup {NoDelivery} /\ modal.state \in {"none", "loading", "shown", "error"}
  /\ hubActs \in 0..MaxHubActs /\ hubMoves \in 0..MaxHubMoves

\* The panel opens: the effects start a load, and clear its mark.
GitOpsInit ==
  /\ place = FirstPlace /\ servedFrom = FirstPlace.ctx
  /\ fleet = [c \in HubContexts |->
                [d \in Deliveries |-> [ready |-> TRUE, status |-> "Healthy",
                                       suspended |-> FALSE]]]
  /\ hub = [data |-> NoDelivery, busy |-> FALSE, error |-> FALSE]
  /\ hubAsks = {[n |-> 1, place |-> FirstPlace, read |-> NoDelivery]} /\ lastHubAsk = 1
  /\ sieve = Deliveries /\ detail = NoDelivery /\ actions = {} /\ lastAction = 0
  /\ pending = NoDelivery /\ toast = NoDelivery /\ reload = NoDelivery
  /\ modal = ClosedModal(0) /\ modalAsks = {}
  /\ userChose = NoDelivery /\ doneTo = {} /\ hubOdd = {} /\ hubActs = 0 /\ hubMoves = 0

HubAct ==
  hubActs < MaxHubActs /\ Cardinality(hubOdd) < MaxHubOdd /\ hubActs' = hubActs + 1

--------------------------------------------------------------------------
(* What is on screen                                                       *)

Rows == IF hub.data = NoDelivery THEN {} ELSE hub.data.rows
Filtered == {r \in Rows : r.of \in sieve}
NoControllers == hub.data # NoDelivery /\ ~hub.error /\ ~hub.data.tools /\ Rows = {}
Body ==
  CASE hub.busy -> "spinner" [] ~hub.busy /\ hub.error -> "error"
    [] ~hub.busy /\ ~hub.error /\ NoControllers -> "no controllers" [] OTHER -> "table"
ModalShown == modal.target # NoDelivery /\ modal.state # "none"

isHealthy(s)     == s.ready \/ s.status \in {"Healthy", "Synced", "Ready"}
isProgressing(s) == s.status \in {"Progressing", "Pending"}
isDegraded(s)    == ~s.ready /\ ~isProgressing(s) /\ s.status # "Unknown"
\* The dot of a row, when it is not suspended.
Dot(s) ==
  CASE s.status = "Unknown" -> "unknown" [] s.status # "Unknown" /\ isHealthy(s) -> "healthy"
    [] ~isHealthy(s) /\ isProgressing(s) -> "progressing" [] OTHER -> "degraded"
\* The legend of the overview.
Legend ==
  LET count(is(_)) == Cardinality({r \in Rows : is(r.state)})
  IN  [healthy |-> count(isHealthy), progressing |-> count(isProgressing),
       degraded |-> count(isDegraded), unknown |-> count(LAMBDA s : s.status = "Unknown")]

\* Slip: a suspended object is offered to be reconciled.
SlipOffersReconcile(r) == pending # r.of
OffersReconcile(r) == pending # r.of /\ ~r.state.suspended
OffersSuspend(r) == pending # r.of /\ r.of.kind # "AppProject"

--------------------------------------------------------------------------
(* The list                                                                *)

\* load, with the context and the namespace it was made for.
StartLoad(p, quiet) ==
  /\ hub' = [hub EXCEPT !.busy = ~quiet, !.error = FALSE]
  /\ lastHubAsk' = lastHubAsk + 1
  /\ hubAsks' = hubAsks \cup {[n |-> lastHubAsk + 1, place |-> p, read |-> NoDelivery]}
OddLoad(p, now) ==
  (IF p # now THEN {"old reload"} ELSE {}) \cup
  (IF \E k \in hubAsks : k.place = p THEN {"lists crossed"} ELSE {}) \cup
  (IF servedFrom # now.ctx THEN {"asked early"} ELSE {})

RefreshHub ==
  /\ ~hub.busy /\ ~ModalShown /\ HubAct /\ StartLoad(place, FALSE)
  /\ UNCHANGED <<placeVars, deedVars, modalVars, fleet, sieve, detail, userChose, doneTo>>
  /\ hubOdd' = hubOdd \cup OddLoad(place, place)

ListRead ==
  /\ \E k \in hubAsks :
       /\ k.read = NoDelivery
       /\ hubAsks' = (hubAsks \ {k}) \cup {[k EXCEPT !.read = ListedOf(k.place)]}
       /\ hubOdd' = hubOdd \cup (IF servedFrom # k.place.ctx THEN {"asked early"} ELSE {})
  /\ UNCHANGED <<placeVars, deedVars, modalVars, fleet, sieve, detail, userChose, doneTo, hub,
                 lastHubAsk, hubActs>>

\* Slip: an answer is taken whatever has been chosen since.
SlipLive(k) == TRUE
Live(k) == k.place = place

ListAnswered ==
  /\ \E k \in hubAsks :
       /\ hubAsks' = hubAsks \ {k}
       /\ \/ /\ k.read # NoDelivery
             /\ hub' = IF Live(k) THEN [hub EXCEPT !.data = k.read, !.busy = FALSE] ELSE hub
          \/ /\ k.read = NoDelivery
             /\ hub' = IF Live(k) THEN [data |-> NoDelivery, busy |-> FALSE, error |-> TRUE]
                       ELSE hub
  /\ UNCHANGED <<placeVars, deedVars, modalVars, fleet, sieve, detail, userChose, doneTo,
                 lastHubAsk, hubOdd, hubActs>>

\* The timer of an action loads for the place the action was taken in.
ReloadFires ==
  /\ reload # NoDelivery /\ reload' = NoDelivery /\ StartLoad(reload, FALSE)
  /\ UNCHANGED <<placeVars, actions, lastAction, pending, toast, modalVars, fleet, sieve, detail,
                 userChose, doneTo, hubActs>>
  /\ hubOdd' = hubOdd \cup OddLoad(reload, place)

--------------------------------------------------------------------------
(* The context and the namespace                                           *)

\* Slip: what is selected stays.
SlipCleared == [detail |-> detail, modal |-> ClosedModal(modal.id)]
\* The second effect clears what belongs to the place that is left, and the mark
\* of the load that the first has just started; the rows stay.
Cleared == [detail |-> NoDelivery, modal |-> ClosedModal(modal.id)]

ChoosePlace(p) ==
  /\ p # place /\ hubMoves < MaxHubMoves /\ hubMoves' = hubMoves + 1
  /\ p.ctx # place.ctx => servedFrom = place.ctx
  /\ place' = p /\ UNCHANGED servedFrom
  /\ StartLoad(p, TRUE)
  /\ detail' = Cleared.detail /\ userChose' = NoDelivery
  /\ modal' = Cleared.modal /\ pending' = NoDelivery /\ toast' = NoDelivery
  /\ UNCHANGED <<actions, lastAction, reload, modalAsks, fleet, sieve, doneTo, hubActs>>
  /\ hubOdd' = hubOdd \cup OddLoad(p, p) \cup
       (IF \E d \in actions : d.sel # NoDelivery THEN {"chose during a suspension"} ELSE {})

SidecarSwitches ==
  /\ servedFrom # place.ctx /\ servedFrom' = place.ctx
  /\ UNCHANGED <<place, hubMoves, listVarsOfHub, deedVars, modalVars, fleet, sieve, detail,
                 userChose, doneTo, hubOdd, hubActs>>

\* What a controller does to its object.
Reported(d, v) ==
  /\ HubAct /\ place.ctx \in Controlled
  /\ fleet' = [fleet EXCEPT ![place.ctx][d].ready = v.ready, ![place.ctx][d].status = v.status]
  /\ fleet' # fleet
  /\ UNCHANGED <<placeVars, listVarsOfHub, deedVars, modalVars, sieve, detail, userChose, doneTo,
                 hubOdd>>

--------------------------------------------------------------------------
(* Rows and actions                                                        *)

ChooseSieve(s) ==
  /\ Rows # {} /\ ~ModalShown /\ s # sieve /\ HubAct /\ sieve' = s
  /\ UNCHANGED <<placeVars, listVarsOfHub, deedVars, modalVars, fleet, detail, userChose, doneTo,
                 hubOdd>>

TakeRow(r) ==
  /\ detail' = r /\ userChose' = IF r = NoDelivery THEN NoDelivery ELSE r.of
  /\ hubOdd' = hubOdd \cup
       (IF \E d \in actions : d.sel # NoDelivery THEN {"chose during a suspension"} ELSE {}) \cup
       (IF r # NoDelivery /\ r.state.suspended # fleet[r.ctx][r.of].suspended
        THEN {"stale row"} ELSE {})
  /\ UNCHANGED <<placeVars, listVarsOfHub, deedVars, modalVars, fleet, sieve, doneTo>>

\* A click on the row of what is selected closes it.
PickRow(r) ==
  /\ Body = "table" /\ r \in Filtered /\ ~ModalShown
  /\ TakeRow(IF detail # NoDelivery /\ detail.of = r.of THEN NoDelivery ELSE r)
CloseDetail ==
  Body = "table" /\ detail # NoDelivery /\ ~ModalShown /\ HubAct /\ TakeRow(NoDelivery)

\* handleReconcile and handleSuspend.  The button of a row asks nothing of what is
\* pending.
StartDeed(r, what, sel) ==
  /\ lastAction' = lastAction + 1 /\ pending' = r.of /\ toast' = NoDelivery
  /\ actions' = actions \cup {[gen |-> lastAction + 1, what |-> what, row |-> r, place |-> place,
                           sel |-> sel]}
  /\ hubOdd' = hubOdd \cup (IF r.ctx # place.ctx THEN {"acted on old rows"} ELSE {})
                      \cup (IF actions # {} THEN {"deeds crossed"} ELSE {})
  /\ UNCHANGED <<placeVars, listVarsOfHub, modalVars, reload, fleet, sieve, detail, userChose,
                 doneTo>>

ReconcileRow(r) ==
  /\ Body = "table" /\ r \in Filtered /\ ~ModalShown /\ ~r.state.suspended /\ HubAct
  /\ StartDeed(r, "reconcile", NoDelivery)
ReconcileDetail ==
  /\ Body = "table" /\ detail # NoDelivery /\ ~ModalShown /\ OffersReconcile(detail) /\ HubAct
  /\ StartDeed(detail, "reconcile", NoDelivery)
SuspendDetail ==
  /\ Body = "table" /\ detail # NoDelivery /\ ~ModalShown /\ OffersSuspend(detail) /\ HubAct
  /\ StartDeed(detail, IF detail.state.suspended THEN "resume" ELSE "suspend", detail)

\* The object that is suspended is the one that was selected at the click; it is
\* selected again.
\* Slip: the detail is left as it was.
SlipAfterDeed(d) == detail
AfterDeed(d) ==
  IF d.sel = NoDelivery THEN detail
  ELSE [d.sel EXCEPT !.state.suspended = (d.what = "suspend")]

DeedSucceeds(d) ==
  /\ d \in actions /\ servedFrom \in Controlled /\ actions' = actions \ {d}
  /\ fleet' = IF d.what = "reconcile" THEN fleet
              ELSE [fleet EXCEPT ![servedFrom][d.row.of].suspended = (d.what = "suspend")]
  /\ doneTo' = doneTo \cup {[meant |-> d.row.ctx, on |-> servedFrom]}
  /\ pending' = IF d.gen = lastAction THEN NoDelivery ELSE pending
  /\ IF place.ctx = d.place.ctx
     THEN /\ toast' = [of |-> d.row.of, ctx |-> servedFrom, ok |-> TRUE]
          /\ reload' = d.place /\ detail' = AfterDeed(d)
     ELSE UNCHANGED <<toast, reload, detail>>
  /\ hubOdd' = hubOdd \cup (IF servedFrom # d.place.ctx THEN {"served elsewhere"} ELSE {})
                      \cup (IF place # d.place THEN {"left during a deed"} ELSE {})
  /\ UNCHANGED <<placeVars, listVarsOfHub, modalVars, lastAction, sieve, userChose, hubActs>>

DeedFails(d) ==
  /\ d \in actions /\ actions' = actions \ {d}
  /\ pending' = IF d.gen = lastAction THEN NoDelivery ELSE pending
  /\ toast' = IF place.ctx = d.place.ctx
              THEN [of |-> d.row.of, ctx |-> d.row.ctx, ok |-> FALSE] ELSE toast
  /\ UNCHANGED <<placeVars, listVarsOfHub, modalVars, lastAction, reload, fleet, sieve, detail,
                 userChose, doneTo, hubOdd, hubActs>>

--------------------------------------------------------------------------
(* The manifest                                                            *)

ModalAsk(what, of, ctx) == [id |-> modal.id + 1, what |-> what, of |-> of, ctx |-> ctx,
                            place |-> place]
AroundModal == UNCHANGED <<placeVars, actions, lastAction, pending, toast, reload, fleet, sieve,
                           detail, userChose>>

\* handleEditYAML: what is under way for another object is outdated.
EditManifestOf ==
  /\ Body = "table" /\ detail # NoDelivery /\ ~ModalShown /\ HubAct
  /\ modal' = [ClosedModal(modal.id + 1) EXCEPT !.target = detail.of, !.ctx = place.ctx,
                                           !.state = "loading"]
  /\ modalAsks' = modalAsks \cup {ModalAsk("get", detail.of, place.ctx)}
  /\ AroundModal /\ UNCHANGED <<listVarsOfHub, doneTo, hubOdd>>

\* Slip: closing makes what is under way current.
SlipCurrent(k) == TRUE
Current(k) == k.id = modal.id

ManifestRead ==
  /\ \E k \in modalAsks :
       /\ k.what = "get" /\ modalAsks' = modalAsks \ {k}
       /\ \E ok \in BOOLEAN :
            modal' = IF ~Current(k) THEN modal
                     ELSE [modal EXCEPT !.state = IF ok THEN "shown" ELSE "error",
                             !.content = IF ok THEN [of |-> k.of, ctx |-> servedFrom]
                                         ELSE NoDelivery]
       /\ hubOdd' = hubOdd \cup (IF servedFrom # k.ctx THEN {"served elsewhere"} ELSE {})
  /\ AroundModal /\ UNCHANGED <<listVarsOfHub, doneTo, hubActs>>

\* closeYaml does not outdate a read.
CloseModal ==
  /\ ModalShown /\ modal' = ClosedModal(modal.id)
  /\ AroundModal /\ UNCHANGED <<listVarsOfHub, modalAsks, doneTo, hubOdd, hubActs>>

ApplyManifest ==
  /\ ModalShown /\ modal.state = "shown" /\ ~ \E k \in modalAsks : k.what = "apply" /\ Current(k)
  /\ HubAct
  /\ modal' = [modal EXCEPT !.id = @ + 1]
  /\ modalAsks' = modalAsks \cup {ModalAsk("apply", modal.content.of, modal.ctx)}
  /\ AroundModal /\ UNCHANGED <<listVarsOfHub, doneTo, hubOdd>>

\* One that another has replaced neither closes the editor nor loads the list.
ManifestApplied ==
  /\ \E k \in modalAsks :
       /\ k.what = "apply" /\ modalAsks' = modalAsks \ {k}
       /\ doneTo' = doneTo \cup {[meant |-> k.ctx, on |-> servedFrom]}
       /\ IF Current(k)
          THEN /\ modal' = ClosedModal(modal.id) /\ StartLoad(k.place, FALSE)
               /\ hubOdd' = hubOdd \cup OddLoad(k.place, place) \cup
                    (IF servedFrom # k.ctx THEN {"served elsewhere"} ELSE {}) \cup
                    (IF k.id < modal.id THEN {"closed another"} ELSE {})
          ELSE /\ UNCHANGED <<modal, listVarsOfHub>>
               /\ hubOdd' = hubOdd \cup
                    (IF servedFrom # k.ctx THEN {"served elsewhere"} ELSE {})
  /\ AroundModal /\ UNCHANGED hubActs

ManifestRefused ==
  /\ \E k \in modalAsks : k.what = "apply" /\ modalAsks' = modalAsks \ {k}
  /\ AroundModal /\ UNCHANGED <<listVarsOfHub, modal, doneTo, hubOdd, hubActs>>

--------------------------------------------------------------------------
(* The actions, the manifests and what the controllers report do not touch *)
(* one another: three instances, over the list and the place.              *)

ListSteps ==
  \/ ListRead \/ ListAnswered \/ SidecarSwitches \/ \E p \in Places : ChoosePlace(p)
ActionsNext ==
  \/ ListSteps \/ ReloadFires \/ CloseDetail \/ ReconcileDetail \/ SuspendDetail
  \/ \E r \in Rows : (PickRow(r) /\ HubAct) \/ ReconcileRow(r)
  \/ \E d \in actions : DeedSucceeds(d) \/ DeedFails(d)
EditorNext ==
  \/ ListSteps \/ EditManifestOf \/ ManifestRead \/ CloseModal \/ ApplyManifest
  \/ ManifestApplied \/ ManifestRefused
  \/ \E r \in Rows : PickRow(r) /\ UNCHANGED hubActs
ReportNext ==
  \/ ListSteps \/ RefreshHub
  \/ \E d \in Deliveries, v \in Verdicts : Reported(d, v)
  \/ \E s \in {Deliveries} \cup {{d} : d \in Deliveries} : ChooseSieve(s)

GitOpsSpec == GitOpsInit /\ [][ActionsNext \/ EditorNext \/ ReportNext]_hubVars

--------------------------------------------------------------------------
(* Properties                                                              *)

\* Once the list of a place is answered its rows are those of that place; until
\* then the rows of the place that was left are shown.  A list that the sidecar
\* read before it followed is of the cluster that was left.
RowsOfPlace ==
  hub.data # NoDelivery /\ ~(\E k \in hubAsks : k.place = place) =>
     /\ hub.data.place = place
     /\ "asked early" \notin hubOdd => hub.data.ctx = place.ctx

\* When nothing is under way the rows tell what is suspended, unless two lists
\* crossed, or the place was left before an action ended.
RowsCurrent ==
  hubAsks = {} /\ actions = {} /\ reload = NoDelivery /\ hub.data # NoDelivery /\
  hubOdd \cap {"lists crossed", "asked early", "left during a deed",
               "served elsewhere", "old reload"} = {} =>
     \A r \in Rows : r.state.suspended = fleet[r.ctx][r.of].suspended

\* The spinner ends with a list of the place shown, unless the timer or the editor of
\* a place that was left has started it.
SpinnerEnds ==
  "old reload" \notin hubOdd /\ hub.busy => \E k \in hubAsks : k.place = place

\* The detail is of the object the user chose last, unless it was chosen while a
\* suspension was under way: its end selects the earlier one again.
SelectionOwn ==
  "chose during a suspension" \notin hubOdd =>
     userChose = IF detail = NoDelivery THEN NoDelivery ELSE detail.of

\* The detail tells whether its object is suspended, once no action is under way and
\* if it was picked from a row that did.
DetailTrue ==
  detail # NoDelivery /\ actions = {} /\
  hubOdd \cap {"stale row", "served elsewhere", "chose during a suspension",
               "left during a deed", "deeds crossed", "acted on old rows"} = {} =>
     detail.state.suspended = fleet[detail.ctx][detail.of].suspended

\* An object is acted on in the cluster its row came from, unless the sidecar had not
\* followed a switch or the rows shown were those of the cluster that was left.
DeedsMeant ==
  hubOdd \cap {"served elsewhere", "acted on old rows", "asked early"} = {} =>
     \A d \in doneTo : d.meant = d.on

\* A button is disabled for an action that is under way, the latest one; what is said
\* of an action is of the cluster it was taken in; no suspended object is reconciled
\* from the detail.
ActionsTrue ==
  /\ pending # NoDelivery => \E d \in actions : d.gen = lastAction /\ d.row.of = pending
  /\ toast # NoDelivery /\ toast.ok
     /\ hubOdd \cap {"served elsewhere", "acted on old rows", "asked early"} = {} =>
        toast.ctx = place.ctx
  /\ \A d \in actions : d.what = "reconcile" => ~d.row.state.suspended

\* The editor shows the manifest of the object it names, from the context it will be
\* applied in, and the end of an apply closes no editor that was opened after it.
EditorTrue ==
  /\ ModalShown /\ modal.state = "shown" =>
       /\ modal.content.of = modal.target
       /\ "served elsewhere" \notin hubOdd => modal.content.ctx = modal.ctx
  /\ "closed another" \notin hubOdd

\* The legend counts every object once, under the class of its dot, but for one of
\* which only "Synced" is known: it is healthy and degraded.
LegendTrue ==
  (\A r \in Rows : ~(r.state.status = "Synced" /\ ~r.state.ready)) =>
     \A c \in DOMAIN Legend : Legend[c] = Cardinality({r \in Rows : Dot(r.state) = c})

GitOpsTrue ==
  /\ HubTypeOK /\ RowsOfPlace /\ RowsCurrent /\ SpinnerEnds /\ SelectionOwn /\ DetailTrue
  /\ DeedsMeant /\ ActionsTrue /\ EditorTrue /\ LegendTrue
=============================================================================
