----------------------------- MODULE ListActions -----------------------------
(***************************************************************************)
(* What the user does to the rows of a list (ResourceList.tsx, the dialogs *)
(* DeleteConfirm and ScaleDialog, operationSlice): menus, dialogs, ticked  *)
(* rows and the requests they send, while the section or the context       *)
(* changes under them.                                                     *)
(*                                                                         *)
(* An object is [kind, name, ctx]: requests name the kind and the name, and *)
(* go to the context selected when they are sent.  A list is loaded at     *)
(* once here; late loads are the subject of Sections.                      *)
(* The list of port forwards and its dialog, a part of its own, come last. *)
(***************************************************************************)
EXTENDS Naturals, Sequences, FiniteSets, SequencesExt

CONSTANTS
  Objects,      \* those of all contexts
  ListContexts, FirstListContext,
  Production,   \* contexts marked as production
  Elsewhere,    \* the sections that are not lists
  NoTarget,
  MaxChoices,   \* bound: menus opened and keys pressed
  MaxTurns      \* bound: changes of section or context

KindsShown == {o.kind : o \in Objects}
Asking == {"delete", "bulk", "yaml", "scale", "forward"}

VARIABLES
  screen,    \* [ctx, section]: selectedContext and section
  living,    \* the objects there are
  shown,     \* the rows of the list
  dirty,     \* history: objects changed since the list was loaded
  unasked,   \* history: why dirty objects may stay on display
  ticked,    \* selectedUids
  opened,    \* selectedResource
  dialog,    \* dialog -> [on, screen when it was opened], or NoTarget
  jobs,      \* handlers under way
  deeds,     \* history: what was done
  young,     \* a refresh was made less than two seconds ago
  choices, turns

listVars == <<screen, living, shown, dirty, unasked, ticked, opened, dialog, jobs, deeds,
              young, choices, turns>>

Target(o) == [on |-> o, at |-> screen]
Targets == [on: Objects \cup {NoTarget},
            at: [ctx: ListContexts, section: KindsShown \cup {Elsewhere}]]

\* A handler under way: the objects it has still to act on, the first of which it
\* has sent a request for; the screen when it was called, and the one when the user
\* chose it; whether the name was typed.
Job(act, todo, typed, began) ==
  [act |-> act, todo |-> todo, at |-> screen, typed |-> typed, began |-> began,
   sent |-> NoTarget]

ListTypeOK ==
  /\ screen \in [ctx: ListContexts, section: KindsShown \cup {Elsewhere}]
  /\ living \subseteq Objects /\ shown \subseteq Objects /\ dirty \subseteq Objects
  /\ ticked \subseteq Objects /\ opened \in Objects \cup {NoTarget}
  /\ unasked \subseteq {"within two seconds", "scaled", "failed", "elsewhere"}
  /\ dialog \in [Asking -> Targets \cup {NoTarget}]
  /\ \A i \in DOMAIN jobs : jobs[i].act \in Asking \cup {"restart"} /\ jobs[i].todo # <<>>
  /\ young \in BOOLEAN /\ choices \in 0..MaxChoices /\ turns \in 0..MaxTurns

RowsOf(objects, s) == {o \in objects : o.kind = s.section /\ o.ctx = s.ctx}

ListInit ==
  /\ screen \in [ctx: {FirstListContext}, section: KindsShown]
  /\ living = Objects /\ shown = RowsOf(living, screen) /\ dirty = {} /\ unasked = {}
  /\ ticked = {} /\ opened = NoTarget /\ dialog = [d \in Asking |-> NoTarget]
  /\ jobs = <<>> /\ deeds = {} /\ young = FALSE /\ choices = 0 /\ turns = 0

IsProduction == screen.ctx \in Production

--------------------------------------------------------------------------
(* Choosing                                                                *)

Choose ==
  /\ choices < MaxChoices /\ choices' = choices + 1
  /\ screen.section # Elsewhere
  /\ UNCHANGED <<screen, living, shown, dirty, unasked, young, turns>>

OpenDialog(d, o) == dialog' = [dialog EXCEPT ![d] = Target(o)] /\ UNCHANGED <<jobs, deeds>>

\* Slip: the kind is the one of the section on display.
SlipKindAsked(job) == screen.section
\* kindLabel(section), of the render in which the handler was called.
KindAsked(job) == job.at.section

\* What a request names: the name, a kind and the context of now.  A forward is to
\* a service or else to a pod; the YAML has its kind in it.
Named(job) ==
  LET o == Head(job.todo)
      kind == CASE job.act \in {"delete", "bulk"} -> KindAsked(job)
                [] job.act = "forward" ->
                     IF screen.section = "services" THEN "services" ELSE "pods"
                [] OTHER -> o.kind
  IN  [kind |-> kind, name |-> o.name, ctx |-> screen.ctx]

Deed(job) ==
  [act |-> job.act, on |-> Named(job), meant |-> Head(job.todo), typed |-> job.typed,
   began |-> job.began, at |-> screen]

Launch(job) ==
  /\ jobs' = Append(jobs, [job EXCEPT !.sent = Named(job)])
  /\ deeds' = deeds \cup {Deed(job)}
Run(act, todo) == Launch(Job(act, todo, FALSE, screen))

Toggle(o) ==
  /\ Choose /\ o \in shown
  /\ ticked' = IF o \in ticked THEN ticked \ {o} ELSE ticked \cup {o}
  /\ UNCHANGED <<opened, dialog, jobs, deeds>>

\* All are ticked when as many are ticked as there are rows.
ToggleAll ==
  /\ Choose /\ shown # {}
  /\ ticked' = IF Cardinality(ticked) = Cardinality(shown) THEN {} ELSE shown
  /\ UNCHANGED <<opened, dialog, jobs, deeds>>

OpenRow(o) ==
  /\ Choose /\ o \in shown
  /\ opened' = IF opened = o THEN NoTarget ELSE o
  /\ UNCHANGED <<ticked, dialog, jobs, deeds>>

\* Slip: deletion is confirmed nowhere.
SlipDelete(o) == Run("delete", <<o>>) /\ UNCHANGED dialog
\* confirmIfProduction.
Delete(o) ==
  IF IsProduction THEN OpenDialog("delete", o) ELSE Run("delete", <<o>>) /\ UNCHANGED dialog

MenuDelete(o) == Choose /\ o \in shown /\ Delete(o) /\ UNCHANGED <<ticked, opened>>

\* The ticked rows of the list, in some order.
BulkTargets ==
  LET wanted == ticked \cap shown
  IN  {s \in [1..Cardinality(wanted) -> wanted] :
         \A i, j \in DOMAIN s : s[i] = s[j] => i = j}

BulkButton ==
  /\ Choose /\ ticked \cap shown # {} /\ ~\E i \in DOMAIN jobs : jobs[i].act = "bulk"
  /\ IF IsProduction THEN OpenDialog("bulk", NoTarget)
     ELSE UNCHANGED dialog /\ \E s \in BulkTargets : Run("bulk", s)
  /\ UNCHANGED <<ticked, opened>>

\* Delete or Backspace asks always, and asks no verdict of RBAC.
DeleteKey ==
  /\ Choose
  /\ \/ ticked # {} /\ OpenDialog("bulk", NoTarget)
     \/ ticked = {} /\ opened # NoTarget /\ OpenDialog("delete", opened)
  /\ UNCHANGED <<ticked, opened>>

\* Scale, Port Forward and View / Edit YAML open a dialog; the YAML is the one read
\* last, from the context of then.
MenuDialog(d, o) ==
  /\ Choose /\ o \in shown
  /\ d = "scale" => o.kind = "deployments"
  /\ d = "forward" => o.kind = "services"
  /\ OpenDialog(d, o)
  /\ UNCHANGED <<ticked, opened>>

MenuRestart(o) ==
  /\ Choose /\ o \in shown /\ o.kind = "deployments"
  /\ Run("restart", <<o>>)
  /\ UNCHANGED <<ticked, opened, dialog>>

Cancel(d) ==
  /\ dialog[d] # NoTarget /\ dialog' = [dialog EXCEPT ![d] = NoTarget]
  /\ UNCHANGED <<screen, living, shown, dirty, unasked, ticked, opened, jobs, deeds, young,
                 choices, turns>>

\* Confirming calls the handler with the section and the rows of now; the delete
\* dialogs have the name typed.
Confirm(d) ==
  /\ dialog[d] # NoTarget /\ screen.section # Elsewhere
  /\ ~\E i \in DOMAIN jobs : jobs[i].act = d
  /\ IF d = "bulk" THEN ticked \cap shown # {} /\ \E s \in BulkTargets :
                          Launch(Job(d, s, TRUE, screen))
     ELSE Launch(Job(d, <<dialog[d].on>>, d = "delete", dialog[d].at))
  /\ UNCHANGED <<screen, living, shown, dirty, unasked, ticked, opened, dialog, young,
                 choices, turns>>

--------------------------------------------------------------------------
(* The handlers                                                            *)

\* The cluster does it, or refuses: what is not there cannot be changed.
Deletes(job) == job.act \in {"delete", "bulk"}

\* Slip: no reload follows.
SlipReload(now) == UNCHANGED <<shown, young, unasked>> /\ dirty' = now
\* refresh(), refused within two seconds of the last.
Reload(now) ==
  IF screen.section = Elsewhere
  THEN UNCHANGED <<shown, young>> /\ dirty' = now /\ unasked' = unasked \cup {"elsewhere"}
  ELSE IF young
  THEN UNCHANGED <<shown, young>> /\ dirty' = now /\ unasked' = unasked \cup {"within two seconds"}
  ELSE shown' = RowsOf(living', screen) /\ young' = TRUE /\ dirty' = {} /\ unasked' = {}

\* No reload, or one that the 30 seconds of loadSection refuse.
NoReload(now, why) ==
  /\ UNCHANGED <<shown, young>>
  /\ dirty' = now /\ unasked' = IF now = {} THEN unasked ELSE unasked \cup {why}

\* The object that a job has acted on, or tried to, is done with; a bulk deletion
\* goes on with the next one, in the context of now.
Onward(i, rest) ==
  LET next == [jobs[i] EXCEPT !.todo = rest]
  IN  IF rest = <<>>
      THEN /\ jobs' = SelectSeq([jobs EXCEPT ![i].act = "over"], LAMBDA j : j.act # "over")
           /\ UNCHANGED deeds
      ELSE /\ jobs' = [jobs EXCEPT ![i] = [next EXCEPT !.sent = Named(next)]]
           /\ deeds' = deeds \cup {Deed(next)}

\* What follows the last answer: refresh(), but not after scaling or forwarding,
\* nor where the error leaves the handler first.
Conclude(job, ok, now) ==
  CASE job.act \in {"scale", "forward"} -> NoReload(now, "scaled")
    [] ~ok /\ (job.act \in {"yaml", "restart"} \/ (job.typed /\ job.act = "delete")) ->
         NoReload(now, "failed")
    [] OTHER -> Reload(now)

\* An answer.  deleteResource clears the selection if the context is still the same;
\* a dialog closes, unless its request has failed.
Answered(i, ok) ==
  LET job == jobs[i]
      last == Len(job.todo) = 1
      now == dirty \cup (IF ok /\ job.sent \in shown THEN {job.sent} ELSE {})
  IN  /\ ok => job.sent \in living
      /\ living' = IF ok /\ Deletes(job) THEN living \ {job.sent} ELSE living
      /\ opened' = IF Deletes(job) /\ ok /\ job.sent.ctx = screen.ctx THEN NoTarget
                   ELSE opened
      /\ ticked' = IF last /\ job.act = "bulk" THEN {} ELSE ticked
      /\ dialog' = IF last /\ job.act \in Asking /\ (ok \/ job.act = "bulk")
                   THEN [dialog EXCEPT ![job.act] = NoTarget] ELSE dialog
      /\ Onward(i, Tail(job.todo))
      /\ IF last THEN Conclude(job, ok, now) ELSE NoReload(now, "failed")
      /\ UNCHANGED <<screen, choices, turns>>

--------------------------------------------------------------------------
(* The screen changes                                                      *)

Turn ==
  /\ turns < MaxTurns /\ turns' = turns + 1
  /\ opened' = NoTarget /\ dirty' = {} /\ unasked' = {} /\ shown' = RowsOf(living, screen')
  /\ UNCHANGED <<living, jobs, deeds, young, choices>>

\* Slip: the ticks stay.
SlipTicksAfter(s) == ticked
TicksAfter(s) == {}

\* The list stays mounted from one list section to another, and its dialogs with it.
GoTo(s) ==
  /\ s # screen.section
  /\ screen' = [screen EXCEPT !.section = s]
  /\ ticked' = TicksAfter(s)
  /\ dialog' = IF s = Elsewhere THEN [d \in Asking |-> NoTarget] ELSE dialog
  /\ Turn

SwitchList(c) ==
  /\ c # screen.ctx
  /\ screen' = [screen EXCEPT !.ctx = c]
  /\ UNCHANGED <<ticked, dialog>>
  /\ Turn

\* The poll of every 30 seconds.
Poll ==
  /\ ~young /\ dirty # {} /\ UNCHANGED living
  /\ Reload({})
  /\ UNCHANGED <<screen, ticked, opened, dialog, jobs, deeds, choices, turns>>

Later ==
  /\ young /\ young' = FALSE
  /\ UNCHANGED <<screen, living, shown, dirty, unasked, ticked, opened, dialog, jobs, deeds,
                 choices, turns>>

ListNext ==
  \/ \E o \in Objects : Toggle(o) \/ OpenRow(o) \/ MenuDelete(o) \/ MenuRestart(o)
  \/ \E o \in Objects, d \in {"yaml", "scale", "forward"} : MenuDialog(d, o)
  \/ ToggleAll \/ BulkButton \/ DeleteKey
  \/ \E d \in Asking : Cancel(d) \/ Confirm(d)
  \/ \E i \in DOMAIN jobs, ok \in BOOLEAN : Answered(i, ok)
  \/ \E s \in KindsShown \cup {Elsewhere} : GoTo(s)
  \/ \E c \in ListContexts : SwitchList(c)
  \/ Poll \/ Later

ListSpec == ListInit /\ [][ListNext]_listVars

--------------------------------------------------------------------------
(* Properties                                                              *)

\* A request is about the object the user chose: unless the context was switched
\* between the choice and the request, which then goes to the new one, or the
\* section was left with the dialog to delete or to forward open, which takes the
\* kind of the section on display.
ActsOnChosen ==
  \A d \in deeds :
    /\ d.on.ctx # d.meant.ctx => d.began.ctx # d.at.ctx
    /\ d.on.kind # d.meant.kind =>
         d.act \in {"delete", "forward"} /\ d.began.section # d.at.section

\* In a production context nothing is deleted that was not confirmed by typing:
\* except by a bulk deletion begun in another context.
ProductionConfirmed ==
  \A d \in deeds :
    d.act \in {"delete", "bulk"} /\ d.at.ctx \in Production /\ ~d.typed =>
      d.act = "bulk" /\ d.began.ctx \notin Production

\* When nothing is under way, the list shows what has been changed: unless the
\* reload was refused within two seconds of another, or not asked for, as after
\* scaling and after some errors.
ChangesShown == jobs = <<>> /\ dirty # {} => unasked # {}

\* Ticks do not carry over from one list to another.
TicksOfSection == \A o \in ticked : o.kind = screen.section

\* Rows, ticks, dialogs and requests agree on what is acted upon.
ListActionsTrue ==
  ListTypeOK /\ ActsOnChosen /\ ProductionConfirmed /\ ChangesShown /\ TicksOfSection

--------------------------------------------------------------------------
(* New port forwards (PortForwardPanel.tsx), apart from the list above: the *)
(* dialog reads what a namespace offers, fills in the ports, and starts a  *)
(* forward; a switch of context stops them all.                            *)

CONSTANTS
  Offers,      \* what can be forwarded to: [type, ns, name, ctx, ports]
  TypedPorts,  \* texts that are typed as ports
  NoOffer,
  MaxFormActs, MaxFormAsks, MaxSeatTurns   \* bounds

VARIABLES
  seat,     \* [ctx, serves, stage, turns]: the selected context, the sidecar's, and
            \* how far selectContext is: "none", "cancelling", "asked"
  draft,     \* the form of the dialog, or NoOffer; strayed (history): another cluster
             \* than that of its context was asked what there is
  offersAsked,    \* requests for what there is, on their way
  forwards, \* portForwards, each with the context it was started for
  formActs, asksMade

forwardVars == <<seat, draft, offersAsked, forwards, formActs, asksMade>>

Types == {"pod", "service"}
NamespacesOf(c) == {o.ns : o \in {f \in Offers : f.ctx = c}}
PortTexts == TypedPorts \cup UNION {ToSet(o.ports) : o \in Offers}

\* Ports that an earlier container of the pod has as well are passed over.
extractPodPorts(o) ==
  FoldLeft(LAMBDA found, p : IF p \in ToSet(found) THEN found ELSE Append(found, p),
           <<>>, o.ports)
extractServicePorts(o) == o.ports
PortsOffered(o) == IF o.type = "pod" THEN extractPodPorts(o) ELSE extractServicePorts(o)

ForwardInit ==
  /\ seat = [ctx |-> FirstListContext, serves |-> FirstListContext, stage |-> "none", turns |-> 0]
  /\ draft = NoOffer /\ offersAsked = {} /\ forwards = {} /\ formActs = 0 /\ asksMade = 0

ForwardTypeOK ==
  /\ seat.ctx \in ListContexts /\ seat.serves \in ListContexts /\ seat.turns \in 0..MaxSeatTurns
  /\ draft # NoOffer => /\ draft.type \in Types /\ draft.loading \in BOOLEAN
                       /\ {draft.remote, draft.local} \subseteq PortTexts
                       /\ draft.offers \subseteq Offers
  /\ \A q \in offersAsked : q.found \subseteq Offers /\ q.step \in {"sent", "read", "failed"}
  /\ formActs \in 0..MaxFormActs /\ asksMade \in 0..MaxFormAsks

\* Slip: an older answer is taken as well.
SlipInForce(q) == draft # NoOffer
\* The effect that asked has not been cleaned up since.
InForce(q) == draft # NoOffer /\ draft.ask = q.id

\* The effect for a type, a namespace and a context: the fields are cleared.
AskOffers(f, c) ==
  /\ asksMade < MaxFormAsks /\ asksMade' = asksMade + 1
  /\ draft' = [f EXCEPT !.name = "", !.remote = "", !.local = "", !.loading = TRUE,
                       !.ask = asksMade + 1]
  /\ offersAsked' = offersAsked \cup {[id |-> asksMade + 1, type |-> f.type, ns |-> f.ns, ctx |-> c,
                           step |-> "sent", found |-> {}, strayed |-> FALSE]}

FormAct == formActs < MaxFormActs /\ formActs' = formActs + 1

\* The namespaces are gone while a switch is under way, and none is then chosen.
OpenForm ==
  /\ FormAct /\ draft = NoOffer /\ seat.stage = "none"
  /\ \E n \in NamespacesOf(seat.ctx) :
       AskOffers([type |-> "pod", ns |-> n, name |-> "", remote |-> "", local |-> "",
                  offers |-> {}, loading |-> FALSE, ask |-> 0, strayed |-> FALSE], seat.ctx)
  /\ UNCHANGED <<seat, forwards>>

ChangeForm ==
  /\ FormAct /\ draft # NoOffer
  /\ \/ \E t \in Types \ {draft.type} : AskOffers([draft EXCEPT !.type = t], seat.ctx)
     \/ seat.stage = "none" /\ \E n \in NamespacesOf(seat.ctx) \ {draft.ns} :
          AskOffers([draft EXCEPT !.ns = n], seat.ctx)
  /\ UNCHANGED <<seat, forwards>>

\* The cluster that is served answers, or an error comes back.
OffersRead(q) ==
  /\ q.step = "sent"
  /\ \E r \in {[q EXCEPT !.step = "failed"],
               [q EXCEPT !.step = "read", !.strayed = q.ctx # seat.serves, !.found =
                  {o \in Offers : o.type = q.type /\ o.ns = q.ns /\ o.ctx = seat.serves}]} :
       offersAsked' = (offersAsked \ {q}) \cup {r}
  /\ UNCHANGED <<seat, draft, forwards, formActs, asksMade>>

OffersTaken(q) ==
  /\ q.step \in {"read", "failed"} /\ offersAsked' = offersAsked \ {q}
  /\ draft' = IF InForce(q) THEN [draft EXCEPT !.offers = q.found, !.strayed = q.strayed,
                                             !.loading = FALSE]
             ELSE draft
  /\ UNCHANGED <<seat, forwards, formActs, asksMade>>

\* The ports filled in when a name is chosen: its first one, if it has any.
Chosen(o) ==
  LET ports == PortsOffered(o)
      first == IF ports = <<>> THEN "" ELSE ports[1]
  IN  [draft EXCEPT !.name = o.name, !.remote = first, !.local = first]

ChooseName ==
  /\ FormAct /\ draft # NoOffer /\ ~draft.loading
  /\ \E o \in draft.offers : o.name # draft.name /\ draft' = Chosen(o)
  /\ UNCHANGED <<seat, offersAsked, forwards, asksMade>>

Ports == UNION {ToSet(PortsOffered(o)) : o \in {f \in draft.offers : f.name = draft.name}}

\* Slip: any port can be typed.
SlipRemoteChoices == TypedPorts
\* Of several ports one is picked; else one is typed.
RemoteChoices == IF Cardinality(Ports) > 1 THEN Ports ELSE TypedPorts

\* Changing the remote port changes the local one with it.
ChangePort ==
  /\ FormAct /\ draft # NoOffer /\ draft.name # ""
  /\ \/ \E p \in RemoteChoices : draft' = [draft EXCEPT !.remote = p, !.local = p]
     \/ \E p \in TypedPorts : draft' = [draft EXCEPT !.local = p]
  /\ UNCHANGED <<seat, offersAsked, forwards, asksMade>>

CloseForm ==
  /\ draft # NoOffer /\ draft' = NoOffer
  /\ UNCHANGED <<seat, offersAsked, forwards, formActs, asksMade>>

canStart == "" \notin {draft.name, draft.ns, draft.remote, draft.local}

\* handleStart of the dialog and of the panel.
StartForward ==
  /\ draft # NoOffer /\ canStart
  /\ forwards' = forwards \cup
       {[type |-> draft.type, ns |-> draft.ns, name |-> draft.name,
         local |-> draft.local, remote |-> draft.remote,
         ctx |-> seat.ctx, strayed |-> draft.strayed, midway |-> seat.stage # "none"]}
  /\ draft' = NoOffer
  /\ UNCHANGED <<seat, offersAsked, formActs, asksMade>>

StopForward ==
  /\ \E f \in forwards : forwards' = forwards \ {f}
  /\ UNCHANGED <<seat, draft, offersAsked, formActs, asksMade>>

\* The effect runs again for the new context, and keeps the namespace.
LeaveSeat(c) ==
  /\ seat.stage = "none" /\ seat.turns < MaxSeatTurns /\ c # seat.ctx
  /\ seat' = [seat EXCEPT !.ctx = c, !.stage = "cancelling", !.turns = @ + 1]
  /\ IF draft = NoOffer THEN UNCHANGED <<draft, offersAsked, asksMade>> ELSE AskOffers(draft, c)
  /\ UNCHANGED <<forwards, formActs>>

\* Slip: the forwards stay.
SlipStopAllForwards ==
  /\ seat.stage = "cancelling" /\ seat' = [seat EXCEPT !.stage = "asked"]
  /\ UNCHANGED <<draft, offersAsked, forwards, formActs, asksMade>>
\* All are stopped before the sidecar is asked to switch.
StopAllForwards ==
  /\ seat.stage = "cancelling" /\ seat' = [seat EXCEPT !.stage = "asked"]
  /\ forwards' = {}
  /\ UNCHANGED <<draft, offersAsked, formActs, asksMade>>

\* The sidecar has switched, or the context is taken back, but not the forwards.
SeatServed ==
  /\ seat.stage = "asked"
  /\ \/ /\ seat' = [seat EXCEPT !.stage = "none", !.serves = seat.ctx]
        /\ UNCHANGED <<draft, offersAsked, asksMade>>
     \/ /\ seat' = [seat EXCEPT !.stage = "none", !.ctx = seat.serves]
        /\ IF draft = NoOffer THEN UNCHANGED <<draft, offersAsked, asksMade>>
           ELSE AskOffers(draft, seat.serves)
  /\ UNCHANGED <<forwards, formActs>>

ForwardNext ==
  \/ OpenForm \/ ChangeForm \/ ChooseName \/ ChangePort \/ CloseForm
  \/ StartForward \/ StopForward \/ StopAllForwards \/ SeatServed
  \/ \E q \in offersAsked : OffersRead(q) \/ OffersTaken(q)
  \/ \E c \in ListContexts : LeaveSeat(c)

ForwardSpec == ForwardInit /\ [][ForwardNext]_forwardVars

\* A name that is chosen is one of those last read for what the draft says now.
NameOffered ==
  draft # NoOffer /\ draft.name # "" =>
    \E o \in draft.offers :
      /\ o.name = draft.name /\ o.type = draft.type /\ o.ns = draft.ns
      /\ o.ctx = seat.ctx \/ draft.strayed

\* A forward goes to a pod or service that its context has, at one of its ports if
\* it has several: unless the draft was filled from another cluster, which happens
\* while a switch is under way and is not put right after it.
ForwardsOffered ==
  \A f \in forwards : f.strayed \/
    \E o \in Offers :
      /\ o.type = f.type /\ o.ns = f.ns /\ o.name = f.name /\ o.ctx = f.ctx
      /\ Cardinality(ToSet(o.ports)) > 1 => f.remote \in ToSet(o.ports)

\* No forward outlives its context, unless it was started while a switch was under way.
ForwardsHere ==
  \A f \in forwards : f.ctx = seat.ctx \/ f.midway \/ seat.stage = "cancelling"

\* What is forwarded is what the dialog offered, in the context on display.
ForwardsTrue == ForwardTypeOK /\ NameOffered /\ ForwardsOffered /\ ForwardsHere

=============================================================================
