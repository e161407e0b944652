--------------------------- MODULE RendererSwitch ---------------------------
(***************************************************************************)
(* The renderer's side of a context switch: selectContext of clusterSlice  *)
(* and loadSection of resourceSlice, run by one JavaScript thread, against *)
(* a sidecar that serves whatever context it was last switched to (the IPC *)
(* layer drops the context argument of every list request).                *)
(*                                                                         *)
(* Every action is the code between two awaits, or a step of the sidecar.  *)
(* Displayed data is known by the cluster it came from; one section stands *)
(* for all, its in-flight key and its freshness for the two maps.          *)
(***************************************************************************)
EXTENDS Naturals

CONSTANTS
  Contexts,  \* names in the kubeconfig
  MaxCalls,  \* bound: selectContext calls, numbered in the order made
  Viewers,   \* loads of the section asked for by panels, one at a time each
  Nil

ASSUME ConstantsAssumption ==
  /\ MaxCalls \in Nat
  /\ Nil \notin Contexts
  /\ Viewers \cap (1..MaxCalls) = {}

VARIABLES
  selectedContext,        \* selectedContext
  contextSwitchSeq,       \* contextSwitchSeq
  inflightSwitchTarget,   \* inflightSwitchTarget
  inflightSwitchPromise,  \* inflightSwitchPromise: the call that published it
  contextSwitchStatus,    \* a switch is shown in progress (and loadingNamespaces)
  namespaces,             \* the namespace list on display
  resources,              \* the section's list on display
  sectionLoadedAt,        \* the list is younger than SECTION_TTL
  inFlightSections,       \* the section's key is in inFlightSections
  call,                   \* selectContext calls
  fetch,                  \* loads of the section, a call's own included
  request,                \* /config/switch requests, one slot per call
  sent,                   \* switch requests sent since a switch began at rest
  sidecarContext,         \* the context the sidecar serves
  latestServed,           \* the latest of those that was carried out
  causes                  \* history: see Causes; since a switch began at rest

claimVars   == <<inflightSwitchTarget, inflightSwitchPromise>>
shownVars   == <<selectedContext, contextSwitchStatus, namespaces>>
sectionVars == <<resources, sectionLoadedAt, inFlightSections, fetch>>
sidecarVars == <<request, sent, sidecarContext, latestServed>>
vars == <<contextSwitchSeq, claimVars, shownVars, sectionVars, sidecarVars,
          call, causes>>

Calls    == 1..MaxCalls
Fetchers == Calls \cup Viewers

\* What can set the store and the sidecar apart: the latest call's switch
\* failed; its rollback's switch failed; the sidecar carried out a request
\* after a later one; a call wrote its rollback over a later call.
Causes == {"switchFailed", "rollbackFailed", "crossed", "staleRollback"}

CallStates == {"idle", "cancelling", "switching", "listing", "rollback",
               "loading", "waiting", "done"}

\* A list on display: where it came from, and whether that is in doubt.
Blank   == [of |-> Nil, doubt |-> FALSE]
NoCall  == [pc |-> "idle", name |-> Nil, seq |-> 0, previous |-> Nil,
            restore |-> Blank, of |-> Nil, on |-> Nil]
Ended   == [NoCall EXCEPT !.pc = "done"]
NoFetch == [pc |-> "idle", ctx |-> Nil, seq |-> 0, early |-> FALSE, of |-> Nil]
NoRequest == [state |-> "none", ctx |-> Nil, n |-> 0, retried |-> FALSE]

Latest(c)    == call[c].seq = contextSwitchSeq
InSwitch(c)  == call[c].pc \in {"cancelling", "switching"}
Running(c)   == InSwitch(c) \/ call[c].pc \in {"listing", "rollback", "loading"}
Quiet == \A c \in Calls : ~Running(c) /\ request[c].state = "none"

\* The latest call has selected a context the sidecar may not serve yet.
SidecarBehind ==
  \E c \in Calls : Latest(c) /\ (InSwitch(c) \/ call[c].pc = "rollback")

\* The next call to be made.
Unmade(c) == call[c].pc = "idle" /\ \A b \in 1..(c - 1) : call[b].pc # "idle"

End(c) == call' = [call EXCEPT ![c] = Ended]

\* init() has chosen a context and its own call has ended, well or not.
Init ==
  /\ selectedContext \in Contexts
  /\ contextSwitchSeq = 0
  /\ inflightSwitchTarget = Nil
  /\ inflightSwitchPromise = Nil
  /\ contextSwitchStatus = FALSE
  /\ namespaces = Blank
  /\ resources = Blank
  /\ sectionLoadedAt = FALSE
  /\ inFlightSections = FALSE
  /\ call = [c \in Calls |-> NoCall]
  /\ fetch = [l \in Fetchers |-> NoFetch]
  /\ request = [c \in Calls |-> NoRequest]
  /\ sent = 0
  /\ sidecarContext \in Contexts
  /\ latestServed = 0
  /\ causes = IF selectedContext = sidecarContext THEN {} ELSE {"switchFailed"}

-----------------------------------------------------------------------------
(* Slips: a definition below as a plausible mistake would have it.  No     *)
(* specification uses them.                                                *)

\* The fetched list is not checked against the selection.
SlipNoCheck(l) == TRUE

\* The finally block leaves the settled promise in place.
SlipUnclaimTarget(c) ==
  /\ inflightSwitchTarget' = IF inflightSwitchTarget = call[c].name
                             THEN Nil ELSE inflightSwitchTarget
  /\ UNCHANGED inflightSwitchPromise

\* The outer catch shows the error and leaves the overlay.
SlipGiveUpShown(c) ==
  /\ inflightSwitchTarget' = Nil
  /\ inflightSwitchPromise' = Nil
  /\ End(c)
  /\ causes' = IF Latest(c) THEN causes \cup {"switchFailed"} ELSE causes
  /\ UNCHANGED <<contextSwitchSeq, shownVars, sectionVars, sent,
                 sidecarContext, latestServed>>

\* The namespace list is not raced against the timer.
SlipListingUntimed(c) == call[c].pc = "listing" /\ call[c].of # Nil

\* There is nothing to go back to.
SlipNoPrevious(c) == Nil

\* The store goes back, the sidecar is not told.
SlipRollBackStoreOnly(c) ==
  /\ call[c].pc = "listing"
  /\ Latest(c)
  /\ selectedContext' = call[c].previous
  /\ namespaces' = call[c].restore
  /\ contextSwitchStatus' = FALSE
  /\ End(c)
  /\ UNCHANGED <<contextSwitchSeq, claimVars, sectionVars, sidecarVars, causes>>

-----------------------------------------------------------------------------
(* The section.                                                            *)

\* loadSection up to its first await: fresh data or a fetch under way end it.
Blocked == sectionLoadedAt \/ inFlightSections

SendFetch(l) ==
  /\ fetch' = [fetch EXCEPT ![l] =
       [pc |-> "sent", ctx |-> selectedContext, seq |-> contextSwitchSeq,
        early |-> FALSE, of |-> Nil]]
  /\ inFlightSections' = TRUE

\* A panel loads the section, or its fresh data grows old.
LoadSection(l) ==
  /\ fetch[l].pc = "idle"
  /\ ~Blocked
  /\ SendFetch(l)
  /\ UNCHANGED <<contextSwitchSeq, claimVars, shownVars, resources,
                 sectionLoadedAt, sidecarVars, call, causes>>

GrowStale ==
  /\ sectionLoadedAt
  /\ sectionLoadedAt' = FALSE
  /\ UNCHANGED <<contextSwitchSeq, claimVars, shownVars, resources, fetch,
                 inFlightSections, sidecarVars, call, causes>>

\* refresh() drops both guards and loads.
Refresh(l) ==
  /\ fetch[l].pc = "idle"
  /\ sectionLoadedAt' = FALSE
  /\ SendFetch(l)
  /\ UNCHANGED <<contextSwitchSeq, claimVars, shownVars, resources,
                 sidecarVars, call, causes>>

\* The sidecar reads the list from the context it serves.
ServeFetch(l) ==
  /\ fetch[l].pc = "sent"
  /\ fetch' = [fetch EXCEPT ![l].pc = "served", ![l].of = sidecarContext,
                            ![l].early = SidecarBehind]
  /\ UNCHANGED <<contextSwitchSeq, claimVars, shownVars, resources,
                 sectionLoadedAt, inFlightSections, sidecarVars, call, causes>>

\* The finally block: the key is free, also when a later fetch holds it.
EndFetch(l) ==
  /\ fetch' = [fetch EXCEPT ![l] = NoFetch]
  /\ inFlightSections' = FALSE
  /\ UNCHANGED <<contextSwitchSeq, claimVars, shownVars, sidecarVars, call,
                 causes>>

StillSelected(l) == selectedContext = fetch[l].ctx

\* A denied list is emptied, unless the selection changed; any other failure
\* leaves the list.
FetchFails(l) ==
  /\ fetch[l].pc = "sent"
  /\ \/ UNCHANGED resources
     \/ StillSelected(l) /\ resources' = Blank
  /\ UNCHANGED sectionLoadedAt
  /\ EndFetch(l)

DiscardFetch(l) ==
  /\ fetch[l].pc = "served"
  /\ ~StillSelected(l)
  /\ EndFetch(l)
  /\ UNCHANGED <<resources, sectionLoadedAt>>

\* History: what puts the label of a committed list in doubt.  It was read
\* while a switch was on its way to the sidecar; the selection went away and
\* came back since it was asked for; store and sidecar were apart.
Doubtful(l) ==
  \/ fetch[l].early
  \/ fetch[l].seq # contextSwitchSeq /\ selectedContext = fetch[l].ctx
  \/ causes # {}

\* An empty list is shown but not taken for fresh.
CommitFetch(l) ==
  /\ fetch[l].pc = "served"
  /\ StillSelected(l)
  /\ \/ /\ resources' = [of |-> fetch[l].of, doubt |-> Doubtful(l)]
        /\ sectionLoadedAt' = TRUE
     \/ /\ resources' = Blank
        /\ UNCHANGED sectionLoadedAt
  /\ EndFetch(l)

-----------------------------------------------------------------------------
(* selectContext.                                                          *)

\* The call claims its target and clears what the store shows of the context
\* being left.
BeginSwitch(c, name) ==
  /\ Unmade(c)
  /\ inflightSwitchTarget # name
  /\ inflightSwitchTarget' = name
  /\ contextSwitchSeq' = contextSwitchSeq + 1
  /\ call' = [call EXCEPT ![c] =
       [NoCall EXCEPT !.pc = "cancelling", !.name = name,
          !.seq = contextSwitchSeq + 1,
          !.previous = selectedContext, !.restore = namespaces]]
  /\ selectedContext' = name
  /\ contextSwitchStatus' = TRUE
  /\ namespaces' = Blank
  /\ resources' = Blank
  /\ sectionLoadedAt' = FALSE
  /\ inFlightSections' = FALSE
  /\ IF Quiet THEN causes' = {} /\ sent' = 0 /\ latestServed' = 0
              ELSE UNCHANGED <<causes, sent, latestServed>>
  /\ UNCHANGED <<inflightSwitchPromise, fetch, request, sidecarContext>>

\* A call for the claimed target changes nothing; it waits if the claim's
\* promise is published.
JoinSwitch(c, name) ==
  /\ Unmade(c)
  /\ inflightSwitchTarget = name
  /\ IF inflightSwitchPromise = Nil
     THEN End(c)
     ELSE call' = [call EXCEPT ![c].pc = "waiting",
                               ![c].on = inflightSwitchPromise]
  /\ UNCHANGED <<contextSwitchSeq, claimVars, shownVars, sectionVars,
                 sidecarVars, causes>>

StopWaiting(c) ==
  /\ call[c].pc = "waiting"
  /\ ~InSwitch(call[c].on)
  /\ End(c)
  /\ UNCHANGED <<contextSwitchSeq, claimVars, shownVars, sectionVars,
                 sidecarVars, causes>>

Send(c, ctx) ==
  /\ sent' = sent + 1
  /\ request' = [request EXCEPT ![c] =
       [state |-> "sent", ctx |-> ctx, n |-> sent + 1, retried |-> FALSE]]

\* cancelAllStreams answers calls in the order they were made.
SendSwitch(c) ==
  /\ call[c].pc = "cancelling"
  /\ \A b \in 1..(c - 1) : call[b].pc # "cancelling"
  /\ call' = [call EXCEPT ![c].pc = "switching"]
  /\ Send(c, call[c].name)
  /\ inflightSwitchPromise' = c
  /\ UNCHANGED <<contextSwitchSeq, inflightSwitchTarget, shownVars,
                 sectionVars, sidecarContext, latestServed, causes>>

\* The finally block around the race of the switch and the 15 s timer.
Unclaim(c) ==
  /\ inflightSwitchTarget' = IF inflightSwitchTarget = call[c].name
                             THEN Nil ELSE inflightSwitchTarget
  /\ inflightSwitchPromise' = Nil

Consume(c) == request' = [request EXCEPT ![c] = NoRequest]

SwitchSucceeds(c) ==
  /\ call[c].pc = "switching"
  /\ request[c].state = "ok"
  /\ Consume(c)
  /\ Unclaim(c)
  /\ IF Latest(c) THEN call' = [call EXCEPT ![c].pc = "listing"] ELSE End(c)
  /\ UNCHANGED <<contextSwitchSeq, shownVars, sectionVars, sent,
                 sidecarContext, latestServed, causes>>

\* The outer catch: the selection stays at the context that was not reached.
GiveUpSwitch(c) ==
  /\ Unclaim(c)
  /\ End(c)
  /\ IF Latest(c)
     THEN /\ contextSwitchStatus' = FALSE
          /\ causes' = causes \cup {"switchFailed"}
     ELSE UNCHANGED <<contextSwitchStatus, causes>>
  /\ UNCHANGED <<contextSwitchSeq, selectedContext, namespaces, sectionVars,
                 sent, sidecarContext, latestServed>>

SwitchFails(c) ==
  /\ call[c].pc = "switching"
  /\ request[c].state = "error"
  /\ Consume(c)
  /\ GiveUpSwitch(c)

\* The timer fires first; the request stays with the sidecar.
SwitchTimesOut(c) ==
  /\ call[c].pc = "switching"
  /\ UNCHANGED request
  /\ GiveUpSwitch(c)

ServeNamespaces(c) ==
  /\ call[c].pc = "listing"
  /\ call[c].of = Nil
  /\ call' = [call EXCEPT ![c].of = sidecarContext]
  /\ UNCHANGED <<contextSwitchSeq, claimVars, shownVars, sectionVars,
                 sidecarVars, causes>>

\* The list arrives in time: the latest call shows it and loads the section,
\* unless the list is empty.
ListingSucceeds(c) ==
  /\ call[c].pc = "listing"
  /\ call[c].of # Nil
  /\ Latest(c)
  /\ \/ /\ namespaces' = [of |-> call[c].of, doubt |-> causes # {}]
        /\ call' = [call EXCEPT ![c].pc = "loading"]
        /\ IF Blocked THEN UNCHANGED <<fetch, inFlightSections>>
                      ELSE SendFetch(c)
        /\ UNCHANGED contextSwitchStatus
     \/ /\ namespaces' = Blank
        /\ contextSwitchStatus' = FALSE
        /\ End(c)
        /\ UNCHANGED <<fetch, inFlightSections>>
  /\ UNCHANGED <<contextSwitchSeq, claimVars, selectedContext, resources,
                 sectionLoadedAt, sidecarVars, causes>>

\* The list may fail, or the timer fire, at any time.
ListingFailed(c) == call[c].pc = "listing"

PreviousContext(c) == call[c].previous

\* The latest call switches the sidecar back.
RollBack(c) ==
  /\ ListingFailed(c)
  /\ Latest(c)
  /\ call' = [call EXCEPT ![c].pc = "rollback"]
  /\ Send(c, PreviousContext(c))
  /\ UNCHANGED <<contextSwitchSeq, claimVars, shownVars, sectionVars,
                 sidecarContext, latestServed, causes>>

\* A later call was made: this one returns at its next check.
Superseded(c) ==
  /\ \/ call[c].pc = "listing"
     \/ call[c].pc = "loading" /\ fetch[c].pc = "idle"
  /\ ~Latest(c)
  /\ End(c)
  /\ UNCHANGED <<contextSwitchSeq, claimVars, shownVars, sectionVars,
                 sidecarVars, causes>>

\* Whatever came of switching back, and whoever called since, the store shows
\* the context this call left.
FinishRollback(c) ==
  /\ call[c].pc = "rollback"
  /\ request[c].state \in {"ok", "error"}
  /\ Consume(c)
  /\ selectedContext' = PreviousContext(c)
  /\ namespaces' = call[c].restore
  /\ contextSwitchStatus' = FALSE
  /\ resources' = [resources EXCEPT !.doubt = resources.of # Nil]
  /\ causes' = causes
       \cup (IF request[c].state = "error" THEN {"rollbackFailed"} ELSE {})
       \cup (IF Latest(c) THEN {} ELSE {"staleRollback"})
  /\ End(c)
  /\ UNCHANGED <<contextSwitchSeq, claimVars, sectionLoadedAt,
                 inFlightSections, fetch, sent, sidecarContext, latestServed>>

FinishSwitch(c) ==
  /\ call[c].pc = "loading"
  /\ fetch[c].pc = "idle"
  /\ Latest(c)
  /\ End(c)
  /\ contextSwitchStatus' = FALSE
  /\ UNCHANGED <<contextSwitchSeq, claimVars, selectedContext, namespaces,
                 sectionVars, sidecarVars, causes>>

-----------------------------------------------------------------------------
(* The sidecar and the main process between.                               *)

\* Requests on their way are carried out in any order.
CarryOut(c) ==
  /\ request[c].state = "sent"
  /\ request' = [request EXCEPT ![c].state = "ok"]
  /\ sidecarContext' = request[c].ctx
  /\ IF request[c].n < latestServed
     THEN causes' = causes \cup {"crossed"} /\ UNCHANGED latestServed
     ELSE latestServed' = request[c].n /\ UNCHANGED causes
  /\ UNCHANGED <<contextSwitchSeq, claimVars, shownVars, sectionVars, sent, call>>

Refuse(c) ==
  /\ request[c].state = "sent"
  /\ request' = [request EXCEPT ![c].state = "error"]
  /\ UNCHANGED <<contextSwitchSeq, claimVars, shownVars, sectionVars, sent,
                 sidecarContext, latestServed, call, causes>>

\* The socket is reset before the answer: sidecarFetch sends the request
\* again.  Bound: once per request.
SendAgain(c) ==
  /\ request[c].state = "ok"
  /\ ~request[c].retried
  /\ request' = [request EXCEPT ![c].state = "sent", ![c].retried = TRUE]
  /\ UNCHANGED <<contextSwitchSeq, claimVars, shownVars, sectionVars, sent,
                 sidecarContext, latestServed, call, causes>>

\* The answer finds a call that timed out.
DropAnswer(c) ==
  /\ request[c].state \in {"ok", "error"}
  /\ call[c].pc = "done"
  /\ Consume(c)
  /\ UNCHANGED <<contextSwitchSeq, claimVars, shownVars, sectionVars, sent,
                 sidecarContext, latestServed, call, causes>>

-----------------------------------------------------------------------------
UserStep ==
  \/ \E c \in Calls, name \in Contexts : BeginSwitch(c, name) \/ JoinSwitch(c, name)
  \/ \E l \in Viewers : LoadSection(l) \/ Refresh(l)
  \/ GrowStale

\* What answers, timers and the event loop make of a call.
CallStep(c) ==
  \/ StopWaiting(c) \/ SendSwitch(c)
  \/ SwitchSucceeds(c) \/ SwitchFails(c) \/ SwitchTimesOut(c)
  \/ ListingSucceeds(c) \/ RollBack(c) \/ Superseded(c)
  \/ FinishRollback(c) \/ FinishSwitch(c)

FetchStep(l) ==
  ServeFetch(l) \/ FetchFails(l) \/ DiscardFetch(l) \/ CommitFetch(l)

SidecarStep(c) == CarryOut(c) \/ Refuse(c)

Next ==
  \/ UserStep
  \/ \E c \in Calls : \/ CallStep(c) \/ SidecarStep(c)
                      \/ ServeNamespaces(c) \/ SendAgain(c) \/ DropAnswer(c)
  \/ \E l \in Fetchers : FetchStep(l)

Spec == Init /\ [][Next]_vars

\* Timers fire and the event loop runs; the sidecar answers switch and list
\* requests.  Namespaces may never come, nor the user.
FairSpec ==
  /\ Spec
  /\ \A c \in Calls : WF_vars(CallStep(c)) /\ WF_vars(SidecarStep(c))
  /\ \A l \in Fetchers : WF_vars(FetchStep(l))

-----------------------------------------------------------------------------
(* Properties.                                                             *)

Label == [of : Contexts \cup {Nil}, doubt : BOOLEAN]

CallRecord ==
  [pc : CallStates, name : Contexts \cup {Nil}, seq : 0..MaxCalls,
   previous : Contexts \cup {Nil}, restore : Label, of : Contexts \cup {Nil},
   on : Calls \cup {Nil}]
FetchRecord ==
  [pc : {"idle", "sent", "served"}, ctx : Contexts \cup {Nil},
   seq : 0..MaxCalls, early : BOOLEAN, of : Contexts \cup {Nil}]
RequestRecord ==
  [state : {"none", "sent", "ok", "error"}, ctx : Contexts \cup {Nil},
   n : 0..(2 * MaxCalls), retried : BOOLEAN]

\* Types, and request numbers the sidecar has seen were sent.
TypeOK ==
  /\ selectedContext \in Contexts
  /\ contextSwitchSeq \in 0..MaxCalls
  /\ inflightSwitchTarget \in Contexts \cup {Nil}
  /\ inflightSwitchPromise \in Calls \cup {Nil}
  /\ contextSwitchStatus \in BOOLEAN
  /\ namespaces \in Label
  /\ resources \in Label
  /\ sectionLoadedAt \in BOOLEAN
  /\ inFlightSections \in BOOLEAN
  /\ call \in [Calls -> CallRecord]
  /\ fetch \in [Fetchers -> FetchRecord]
  /\ request \in [Calls -> RequestRecord]
  /\ sent \in 0..(2 * MaxCalls)
  /\ sidecarContext \in Contexts
  /\ latestServed \in 0..sent
  /\ causes \subseteq Causes

\* Once every call and request has ended, the context the store names is the
\* one the sidecar acts on (a delete in the window goes where the window
\* says), unless since the last switch begun at rest one of the four causes
\* happened: there is no fifth way to part them.
SplitExplained ==
  Quiet /\ selectedContext # sidecarContext
    => causes # {}

\* A list on display came from the context the store names, unless it carries
\* a doubt (Doubtful, or a rollback since): the check after loadSection's
\* fetch and the resets of a switch leave no other way to mislabel a list.
MislabelExplained ==
  \A list \in {resources, namespaces} :
    list.of \notin {Nil, selectedContext} => list.doubt

\* The claim that sends a second click away belongs to the latest call, and
\* nobody is told to wait for a promise that was settled: a selection is
\* ignored only while the same one is on its way.
ClaimsAreLive ==
  /\ inflightSwitchTarget # Nil =>
       \E c \in Calls : /\ InSwitch(c) /\ Latest(c)
                        /\ call[c].name = inflightSwitchTarget
  /\ inflightSwitchPromise # Nil => InSwitch(inflightSwitchPromise)

\* The switch overlay never outlives the calls, by whichever return they end.
OverlayFollowsCalls ==
  contextSwitchStatus => \E c \in Calls : Running(c) /\ Latest(c)

\* The marks a call leaves in the store are taken back when it ends.
CallsSettle == TypeOK /\ ClaimsAreLive /\ OverlayFollowsCalls

\* Every selectContext call returns, though the cluster never answers.
EveryCallReturns ==
  \A c \in Calls : (Running(c) \/ call[c].pc = "waiting") ~> call[c].pc = "done"

\* Expected by the test "stale first call is discarded when second wins": a
\* call overtaken by another writes no selection.  A rollback's end writes one.
StaleCallDiscarded ==
  [][selectedContext' # selectedContext =>
       \/ contextSwitchSeq' # contextSwitchSeq
       \/ \E c \in Calls : Latest(c) /\ Running(c) /\ call'[c].pc = "done"]_vars
=============================================================================
