------------------------ MODULE RendererSwitchProofs ------------------------
(* Context switches in the renderer: what the store says is what the       *)
(* sidecar serves, unless something it knows of has come between, for any  *)
(* number of calls, contexts and panels.                                   *)
EXTENDS RendererSwitch, FiniteSetTheorems, TLAPS

-----------------------------------------------------------------------------
(* The calls.                                                              *)

Pending(c) == request[c].state # "none"

\* Calls are made in order, and numbered in that order.
Ordered ==
  /\ \A c \in Calls : call[c].pc = "idle" => contextSwitchSeq < c
  /\ \A b, c \in Calls : b < c /\ call[b].pc = "idle" => call[c].pc = "idle"
  /\ \A c \in Calls : Running(c) => call[c].seq \in 1 .. contextSwitchSeq
  /\ \A b, c \in Calls : b < c /\ Running(b) /\ Running(c) => call[b].seq < call[c].seq

\* A call that runs, and a request, have a context.
Named ==
  /\ \A c \in Calls : Running(c) => call[c].name \in Contexts /\ call[c].previous \in Contexts
  /\ \A c \in Calls : Pending(c) => request[c].ctx \in Contexts

\* Switch requests are sent in the order of the calls.
SentInOrder ==
  \A b, c \in Calls : b < c /\ call[b].pc = "cancelling" /\ Running(c) => call[c].pc = "cancelling"

\* Requests have numbers of their own, up to the number of the latest.
Numbered ==
  /\ latestServed <= sent
  /\ \A c \in Calls : Pending(c) => request[c].n \in 1 .. sent
  /\ \A b, c \in Calls : b # c /\ Pending(b) /\ Pending(c) => request[b].n # request[c].n

\* The latest call's request is the latest.
LatestSent ==
  \A c \in Calls : Latest(c) /\ call[c].pc \in {"switching", "rollback"} =>
     /\ Pending(c) /\ request[c].n = sent
     /\ request[c].ctx = IF call[c].pc = "switching" THEN call[c].name ELSE call[c].previous

\* While a call has yet to send its request, so has the latest.
LatestCancels ==
  (\E b \in Calls : call[b].pc = "cancelling") =>
     \E c \in Calls : Latest(c) /\ call[c].pc = "cancelling"

CallInv == Ordered /\ Named /\ SentInOrder /\ Numbered /\ LatestSent

\* Switches that calls may still send, numbered two by two.
Budget ==
  {k \in 1 .. 2 * MaxCalls :
     \E c \in Calls : \/ k = 2 * c - 1 /\ call[c].pc \in {"idle", "cancelling"}
                      \/ k = 2 * c /\ call[c].pc \in {"idle", "cancelling", "switching", "listing"}}

BudgetInv == sent + Cardinality(Budget) <= 2 * MaxCalls

-----------------------------------------------------------------------------
(* The store and the sidecar, as long as nothing has set them apart.       *)

\* The request last served is the one that set the sidecar's context.
ServedInOrder ==
  causes = {} => \A c \in Calls : Pending(c) /\ request[c].n = latestServed =>
                    request[c].ctx = sidecarContext

\* The latest call's answered switch is the last that was served.
LatestServed ==
  causes = {} => \A c \in Calls :
     Latest(c) /\ call[c].pc \in {"switching", "rollback"} /\ request[c].state = "ok" =>
        latestServed = sent

\* The store shows the latest call's target while it runs.
Selected ==
  causes = {} => \A c \in Calls : Latest(c) /\ Running(c) => selectedContext = call[c].name

\* The sidecar has caught up, once the latest call's switch has been answered.
CaughtUp == causes = {} /\ ~SidecarBehind => latestServed = sent /\ sidecarContext = selectedContext

SplitInv == ServedInOrder /\ LatestServed /\ Selected /\ CaughtUp

-----------------------------------------------------------------------------
(* The lists on display.                                                   *)

Honest(list, ctx) == list.of \notin {Nil, ctx} => list.doubt

\* What a call goes back to was the list of the context it goes back to.
RestoresHonest == \A c \in Calls : Running(c) => Honest(call[c].restore, call[c].previous)

\* The namespaces the latest call has read are those of the selected context.
ListingHonest ==
  /\ \A c \in Calls : InSwitch(c) => call[c].of = Nil
  /\ causes = {} => \A c \in Calls :
       Latest(c) /\ call[c].pc = "listing" => call[c].of \in {Nil, selectedContext}

\* A list asked for since the latest switch began was asked for its context.
AskedForSelected ==
  /\ \A l \in Fetchers : fetch[l].seq <= contextSwitchSeq
  /\ causes = {} => \A l \in Fetchers : \A c \in Calls :
        fetch[l].pc # "idle" /\ fetch[l].seq = contextSwitchSeq /\ Latest(c) /\ Running(c) =>
           fetch[l].ctx = selectedContext

\* A list without a doubt that is about to be shown is that of the selected context.
FetchHonest ==
  causes = {} => \A l \in Fetchers :
     fetch[l].pc = "served" /\ ~fetch[l].early /\ fetch[l].seq = contextSwitchSeq
     /\ fetch[l].ctx = selectedContext => fetch[l].of = selectedContext

ListsHonest == Honest(resources, selectedContext) /\ Honest(namespaces, selectedContext)

LabelInv == RestoresHonest /\ ListingHonest /\ AskedForSelected /\ FetchHonest /\ ListsHonest

-----------------------------------------------------------------------------
(* Types.                                                                  *)

\* The records a call, a load and a request start from and end as.
LEMMA Records ==
  /\ Blank \in Label /\ NoCall \in CallRecord /\ Ended \in CallRecord
  /\ NoFetch \in FetchRecord /\ NoRequest \in RequestRecord
<1>1. Blank \in Label
  BY DEF Blank, Label
<1>2. NoCall \in CallRecord
  BY <1>1, ConstantsAssumption DEF NoCall, CallRecord, CallStates
<1>3. Ended \in CallRecord
  BY <1>2 DEF Ended, NoCall, CallRecord, CallStates
<1> QED
  BY <1>1, <1>2, <1>3, ConstantsAssumption DEF NoFetch, FetchRecord, NoRequest, RequestRecord

\* A request as it is sent.
LEMMA SentRequest ==
  ASSUME TypeOK, sent + 1 \in 0 .. 2 * MaxCalls, NEW x \in Contexts \cup {Nil}
  PROVE  [state |-> "sent", ctx |-> x, n |-> sent + 1, retried |-> FALSE] \in RequestRecord
BY DEF RequestRecord

\* A load as it is asked for.
LEMMA SentFetch ==
  ASSUME TypeOK
  PROVE  [pc |-> "sent", ctx |-> selectedContext, seq |-> contextSwitchSeq, early |-> FALSE,
          of |-> Nil] \in FetchRecord
BY DEF FetchRecord, TypeOK

\* Each step keeps the types, as long as calls and requests are numbered and
\* named as they should be.
LEMMA TypeStep ==
  ASSUME TypeOK, Ordered, Named, Numbered, sent' \in 0 .. 2 * MaxCalls, [Next]_vars
  PROVE  TypeOK'
<1>a. Calls \subseteq Fetchers /\ Viewers \subseteq Fetchers
  BY DEF Fetchers
<1> USE <1>a, ConstantsAssumption, Records
<1> USE DEF TypeOK, claimVars, shownVars, sectionVars, sidecarVars
<1>1. ASSUME NEW c \in Calls, StopWaiting(c) PROVE TypeOK'
  <2>1. call' \in [Calls -> CallRecord]
    BY <1>1 DEF StopWaiting, End, CallRecord, CallStates
  <2> QED
    BY <1>1, <2>1 DEF StopWaiting, End
<1>2. ASSUME NEW c \in Calls, SendSwitch(c) PROVE TypeOK'
  <2>1. call' \in [Calls -> CallRecord]
    BY <1>2 DEF SendSwitch, Send, CallRecord, CallStates
  <2>2. call[c].name \in Contexts \cup {Nil} /\ sent + 1 \in 0 .. 2 * MaxCalls
    BY <1>2 DEF SendSwitch, Send, CallRecord
  <2>3. request' \in [Calls -> RequestRecord]
    BY <1>2, <2>2, SentRequest DEF SendSwitch, Send
  <2> QED
    BY <1>2, <2>1, <2>2, <2>3 DEF SendSwitch, Send
<1>3. ASSUME NEW c \in Calls, SwitchSucceeds(c) PROVE TypeOK'
  <2>1. call' \in [Calls -> CallRecord]
    BY <1>3 DEF SwitchSucceeds, Consume, Unclaim, End, CallRecord, CallStates
  <2>2. request' \in [Calls -> RequestRecord]
    BY <1>3 DEF SwitchSucceeds, Consume, Unclaim, End, RequestRecord
  <2> QED
    BY <1>3, <2>1, <2>2 DEF SwitchSucceeds, Consume, Unclaim, End
<1>4. ASSUME NEW c \in Calls, SwitchFails(c) PROVE TypeOK'
  <2>1. call' \in [Calls -> CallRecord]
    BY <1>4 DEF SwitchFails, Consume, GiveUpSwitch, Unclaim, End, CallRecord, CallStates
  <2>2. request' \in [Calls -> RequestRecord]
    BY <1>4 DEF SwitchFails, Consume, GiveUpSwitch, Unclaim, End, RequestRecord
  <2>3. causes' \subseteq Causes
    BY <1>4 DEF SwitchFails, Consume, GiveUpSwitch, Unclaim, End, Causes
  <2>4. contextSwitchStatus' \in BOOLEAN
    BY <1>4, Zenon DEF SwitchFails, Consume, GiveUpSwitch, Unclaim, End
  <2>5. inflightSwitchTarget' \in Contexts \cup {Nil}
    BY <1>4 DEF SwitchFails, Consume, GiveUpSwitch, Unclaim, End
  <2> QED
    BY <1>4, <2>1, <2>2, <2>3, <2>4, <2>5 DEF SwitchFails, Consume, GiveUpSwitch, Unclaim, End
<1>5. ASSUME NEW c \in Calls, SwitchTimesOut(c) PROVE TypeOK'
  <2>1. call' \in [Calls -> CallRecord]
    BY <1>5 DEF SwitchTimesOut, GiveUpSwitch, Unclaim, End, CallRecord, CallStates
  <2>2. causes' \subseteq Causes
    BY <1>5 DEF SwitchTimesOut, GiveUpSwitch, Unclaim, End, Causes
  <2>3. contextSwitchStatus' \in BOOLEAN
    BY <1>5, Zenon DEF SwitchTimesOut, GiveUpSwitch, Unclaim, End
  <2>4. inflightSwitchTarget' \in Contexts \cup {Nil}
    BY <1>5 DEF SwitchTimesOut, GiveUpSwitch, Unclaim, End
  <2> QED
    BY <1>5, <2>1, <2>2, <2>3, <2>4 DEF SwitchTimesOut, GiveUpSwitch, Unclaim, End
<1>6. ASSUME NEW c \in Calls, ListingSucceeds(c) PROVE TypeOK'
  <2>1. call' \in [Calls -> CallRecord]
    BY <1>6 DEF ListingSucceeds, SendFetch, End, CallRecord, CallStates
  <2>2. fetch' \in [Fetchers -> FetchRecord]
    BY <1>6, SentFetch DEF ListingSucceeds, SendFetch, End
  <2>3. call[c].of \in Contexts \cup {Nil}
    BY <1>6 DEF ListingSucceeds, SendFetch, End, CallRecord
  <2>4. (causes # {}) \in BOOLEAN
    BY <1>6, Zenon DEF ListingSucceeds, SendFetch, End
  <2>5. (\E d \in BOOLEAN : namespaces' = [of |-> call[c].of, doubt |-> d]) \/ namespaces' = Blank
    BY <1>6, <2>4, Zenon DEF ListingSucceeds
  <2>6. namespaces' \in Label
    BY <2>3, <2>5 DEF Label
  <2>7. contextSwitchStatus' \in BOOLEAN /\ inFlightSections' \in BOOLEAN
    BY <1>6 DEF ListingSucceeds, SendFetch, End
  <2> QED
    BY <1>6, <2>1, <2>2, <2>3, <2>4, <2>6, <2>7 DEF ListingSucceeds, SendFetch, End
<1>7. ASSUME NEW c \in Calls, RollBack(c) PROVE TypeOK'
  <2>1. call' \in [Calls -> CallRecord]
    BY <1>7 DEF RollBack, Send, PreviousContext, CallRecord, CallStates
  <2>2. call[c].previous \in Contexts \cup {Nil} /\ sent + 1 \in 0 .. 2 * MaxCalls
    BY <1>7 DEF RollBack, Send, PreviousContext, CallRecord
  <2>3. request' \in [Calls -> RequestRecord]
    BY <1>7, <2>2, SentRequest DEF RollBack, Send, PreviousContext
  <2> QED
    BY <1>7, <2>1, <2>2, <2>3 DEF RollBack, Send, PreviousContext
<1>8. ASSUME NEW c \in Calls, Superseded(c) PROVE TypeOK'
  <2>1. call' \in [Calls -> CallRecord]
    BY <1>8 DEF Superseded, End, CallRecord, CallStates
  <2> QED
    BY <1>8, <2>1 DEF Superseded, End
<1>9. ASSUME NEW c \in Calls, FinishRollback(c) PROVE TypeOK'
  <2>1. call' \in [Calls -> CallRecord]
    BY <1>9 DEF FinishRollback, Consume, PreviousContext, End, CallRecord, CallStates
  <2>2. request' \in [Calls -> RequestRecord]
    BY <1>9 DEF FinishRollback, Consume, PreviousContext, End, RequestRecord
  <2>3. causes' \subseteq Causes
    BY <1>9 DEF FinishRollback, Consume, PreviousContext, End, Causes
  <2>4. resources' \in Label /\ namespaces' \in Label
    BY <1>9 DEF FinishRollback, Consume, PreviousContext, End, CallRecord, Label
  <2>5. selectedContext' \in Contexts
    BY <1>9 DEF FinishRollback, Consume, PreviousContext, End, Named, Running
  <2> QED
    BY <1>9, <2>1, <2>2, <2>3, <2>4, <2>5 DEF FinishRollback, Consume, PreviousContext, End
<1>10. ASSUME NEW c \in Calls, FinishSwitch(c) PROVE TypeOK'
  <2>1. call' \in [Calls -> CallRecord]
    BY <1>10 DEF FinishSwitch, End, CallRecord, CallStates
  <2> QED
    BY <1>10, <2>1 DEF FinishSwitch, End
<1>11. ASSUME NEW c \in Calls, ServeNamespaces(c) PROVE TypeOK'
  <2>1. call' \in [Calls -> CallRecord]
    BY <1>11 DEF ServeNamespaces, CallRecord, CallStates
  <2> QED
    BY <1>11, <2>1 DEF ServeNamespaces
<1>12. ASSUME NEW c \in Calls, CarryOut(c) PROVE TypeOK'
  <2>1. request' \in [Calls -> RequestRecord]
    BY <1>12 DEF CarryOut, RequestRecord
  <2>2. causes' \subseteq Causes
    BY <1>12 DEF CarryOut, Causes
  <2>3. sidecarContext' \in Contexts
    BY <1>12 DEF CarryOut, Named, Pending
  <2>4. latestServed' \in 0 .. sent
    BY <1>12 DEF CarryOut, Numbered, Pending
  <2> QED
    BY <1>12, <2>1, <2>2, <2>3, <2>4 DEF CarryOut
<1>13. ASSUME NEW c \in Calls, Refuse(c) PROVE TypeOK'
  <2>1. request' \in [Calls -> RequestRecord]
    BY <1>13 DEF Refuse, RequestRecord
  <2> QED
    BY <1>13, <2>1 DEF Refuse
<1>14. ASSUME NEW c \in Calls, SendAgain(c) PROVE TypeOK'
  <2>1. request' \in [Calls -> RequestRecord]
    BY <1>14 DEF SendAgain, RequestRecord
  <2> QED
    BY <1>14, <2>1 DEF SendAgain
<1>15. ASSUME NEW c \in Calls, DropAnswer(c) PROVE TypeOK'
  <2>1. request' \in [Calls -> RequestRecord]
    BY <1>15 DEF DropAnswer, Consume, RequestRecord
  <2> QED
    BY <1>15, <2>1 DEF DropAnswer, Consume
<1>16. ASSUME NEW l \in Fetchers, ServeFetch(l) PROVE TypeOK'
  <2> DEFINE f == [fetch[l] EXCEPT !.pc = "served", !.of = sidecarContext, !.early = SidecarBehind]
  <2>1. SidecarBehind \in BOOLEAN
    BY Zenon DEF SidecarBehind
  <2>2. f \in FetchRecord
    BY <2>1 DEF FetchRecord
  <2>3. fetch' = [fetch EXCEPT ![l] = f]
    BY <1>16 DEF ServeFetch
  <2>4. fetch' \in [Fetchers -> FetchRecord]
    BY <2>2, <2>3
  <2> QED
    BY <1>16, <2>4 DEF ServeFetch
<1>17. ASSUME NEW l \in Fetchers, FetchFails(l) PROVE TypeOK'
  <2>1. fetch' \in [Fetchers -> FetchRecord]
    BY <1>17 DEF FetchFails, EndFetch, FetchRecord
  <2> QED
    BY <1>17, <2>1 DEF FetchFails, EndFetch
<1>18. ASSUME NEW l \in Fetchers, DiscardFetch(l) PROVE TypeOK'
  <2>1. fetch' \in [Fetchers -> FetchRecord]
    BY <1>18 DEF DiscardFetch, EndFetch, FetchRecord
  <2> QED
    BY <1>18, <2>1 DEF DiscardFetch, EndFetch
<1>19. ASSUME NEW l \in Fetchers, CommitFetch(l) PROVE TypeOK'
  <2>1. fetch' \in [Fetchers -> FetchRecord]
    BY <1>19 DEF CommitFetch, EndFetch, FetchRecord
  <2>2. fetch[l].of \in Contexts \cup {Nil}
    BY <1>19 DEF CommitFetch, EndFetch, FetchRecord
  <2>3. Doubtful(l) \in BOOLEAN
    BY <1>19, Zenon DEF CommitFetch, EndFetch, Doubtful
  <2>4. resources' \in Label
    BY <1>19, <2>2, <2>3 DEF CommitFetch, EndFetch, Label
  <2>5. sectionLoadedAt' \in BOOLEAN
    BY <1>19, Zenon DEF CommitFetch, EndFetch
  <2> QED
    BY <1>19, <2>1, <2>2, <2>3, <2>4, <2>5 DEF CommitFetch, EndFetch
<1>20. ASSUME NEW l \in Viewers, LoadSection(l) PROVE TypeOK'
  <2>1. fetch' \in [Fetchers -> FetchRecord]
    BY <1>20 DEF LoadSection, SendFetch, FetchRecord
  <2> QED
    BY <1>20, <2>1 DEF LoadSection, SendFetch
<1>21. ASSUME NEW l \in Viewers, Refresh(l) PROVE TypeOK'
  <2>1. fetch' \in [Fetchers -> FetchRecord]
    BY <1>21 DEF Refresh, SendFetch, FetchRecord
  <2> QED
    BY <1>21, <2>1 DEF Refresh, SendFetch
<1>22. ASSUME NEW c \in Calls, NEW name \in Contexts, BeginSwitch(c, name) PROVE TypeOK'
  <2>1. contextSwitchSeq + 1 \in 0 .. MaxCalls
    BY <1>22 DEF BeginSwitch, Unmade, Ordered, Calls
  <2>2. call' \in [Calls -> CallRecord]
    BY <1>22, <2>1 DEF BeginSwitch, CallRecord, CallStates
  <2>3. causes' \subseteq Causes /\ sent' \in 0 .. 2 * MaxCalls /\ latestServed' \in 0 .. sent'
    BY <1>22 DEF BeginSwitch
  <2> QED
    BY <1>22, <2>1, <2>2, <2>3 DEF BeginSwitch
<1>23. ASSUME NEW c \in Calls, NEW name \in Contexts, JoinSwitch(c, name) PROVE TypeOK'
  <2>1. call' \in [Calls -> CallRecord]
    BY <1>23 DEF JoinSwitch, End, CallRecord, CallStates
  <2> QED
    BY <1>23, <2>1 DEF JoinSwitch
<1>24. ASSUME GrowStale PROVE TypeOK'
  BY <1>24 DEF GrowStale
<1>25. CASE UNCHANGED vars
  BY <1>25 DEF vars
<1> HIDE DEF TypeOK
<1> QED
  BY <1>1, <1>2, <1>3, <1>4, <1>5, <1>6, <1>7, <1>8, <1>9, <1>10, <1>11, <1>12, <1>13, <1>14,
     <1>15, <1>16, <1>17, <1>18, <1>19, <1>20, <1>21, <1>22, <1>23, <1>24, <1>25
  DEF Next, UserStep, CallStep, FetchStep, SidecarStep

-----------------------------------------------------------------------------
(* The calls' order, and their requests.                                   *)

\* What a step makes of a call that is under way or is sent away: no other
\* call moves, and it does not start again.
GoesOn(c) ==
  /\ contextSwitchSeq' = contextSwitchSeq
  /\ \A b \in Calls \ {c} : call'[b] = call[b]
  /\ call'[c].pc \notin {"idle", "cancelling"}
  /\ \A b \in Calls : b < c => call[b].pc # "idle"
  /\ \A b \in Calls : b < c /\ Running(c)' => call[b].pc # "cancelling"
  /\ call'[c].pc \in {"switching", "listing"} =>
       call[c].pc \in {"cancelling", "switching", "listing"}
  /\ Running(c)' => /\ Running(c)
                    /\ call'[c].restore = call[c].restore
                    /\ call'[c].seq = call[c].seq
                    /\ call'[c].name = call[c].name
                    /\ call'[c].previous = call[c].previous

\* Such a step keeps the order of the calls.
LEMMA OrderKept ==
  ASSUME Ordered, Named, SentInOrder, NEW c \in Calls, GoesOn(c)
  PROVE  /\ Ordered' /\ SentInOrder'
         /\ \A b \in Calls :
              (Running(b) => call[b].name \in Contexts /\ call[b].previous \in Contexts)'
<1> USE ConstantsAssumption DEF Running, InSwitch, Calls
<1>1. \A b \in Calls : call'[b].pc = "idle" => call[b].pc = "idle"
  BY DEF GoesOn
<1>2. \A b \in Calls : Running(b)' => Running(b) /\ call'[b].seq = call[b].seq
  BY DEF GoesOn
<1>3. \A b \in Calls : call[b].pc = "idle" /\ call'[b].pc # "idle" => b = c
  BY DEF GoesOn
<1>4. Ordered'
  <2>1. \A b \in Calls : (call[b].pc = "idle" => contextSwitchSeq < b)'
    BY <1>1 DEF GoesOn, Ordered
  <2>2. \A b, d \in Calls : (b < d /\ call[b].pc = "idle" => call[d].pc = "idle")'
    BY <1>1, <1>3 DEF GoesOn, Ordered
  <2>3. \A b \in Calls : (Running(b) => call[b].seq \in 1 .. contextSwitchSeq)'
    BY <1>2 DEF GoesOn, Ordered
  <2>4. \A b, d \in Calls : (b < d /\ Running(b) /\ Running(d) => call[b].seq < call[d].seq)'
    BY <1>2 DEF Ordered
  <2> QED
    BY <2>1, <2>2, <2>3, <2>4 DEF Ordered
<1>5. SentInOrder'
  BY DEF GoesOn, SentInOrder
<1> QED
  BY <1>4, <1>5 DEF GoesOn, Named

\* The first step of a call: it gets the next number, after all that run.
Begins(c) ==
  /\ contextSwitchSeq' = contextSwitchSeq + 1
  /\ \A b \in Calls \ {c} : call'[b] = call[b]
  /\ \A b \in Calls : b < c => call[b].pc # "idle"
  /\ call[c].pc = "idle" /\ call'[c].pc = "cancelling"
  /\ call'[c].seq = contextSwitchSeq + 1

\* A new call keeps it, too.
LEMMA OrderBegins ==
  ASSUME contextSwitchSeq \in Nat, Ordered, SentInOrder, NEW c \in Calls, Begins(c)
  PROVE  Ordered' /\ SentInOrder'
<1> USE ConstantsAssumption DEF Running, InSwitch, Calls
<1>1. \A b \in Calls : c < b => call[b].pc = "idle" /\ call'[b].pc = "idle"
  BY DEF Begins, Ordered
<1>2. \A b \in Calls : b < c => call'[b] = call[b]
  BY DEF Begins
<1>3. Ordered'
  <2>1. \A b \in Calls : (call[b].pc = "idle" => contextSwitchSeq < b)'
    BY <1>1, <1>2 DEF Begins, Ordered
  <2>2. \A b, d \in Calls : (b < d /\ call[b].pc = "idle" => call[d].pc = "idle")'
    BY <1>1, <1>2 DEF Begins, Ordered
  <2>3. \A b \in Calls : (Running(b) => call[b].seq \in 1 .. contextSwitchSeq)'
    BY <1>1, <1>2 DEF Begins, Ordered
  <2>4. \A b, d \in Calls : (b < d /\ Running(b) /\ Running(d) => call[b].seq < call[d].seq)'
    BY <1>1, <1>2 DEF Begins, Ordered
  <2> QED
    BY <2>1, <2>2, <2>3, <2>4 DEF Ordered
<1>4. SentInOrder'
  BY <1>1, <1>2 DEF Begins, SentInOrder
<1> QED
  BY <1>3, <1>4

\* The latest of the running calls is one.
LEMMA OneLatest ==
  ASSUME TypeOK, Ordered, NEW b \in Calls, NEW c \in Calls,
         Running(b), Running(c), Latest(b), Latest(c)
  PROVE  b = c
BY DEF Ordered, Latest, TypeOK, Calls

\* No call made after it runs.
LEMMA NoneAfter ==
  ASSUME TypeOK, Ordered, NEW b \in Calls, NEW c \in Calls, Running(b), Running(c), Latest(b)
  PROVE  ~(b < c)
BY DEF Ordered, Latest, TypeOK

\* The steps of a call once it is made, and of one that is sent away.
CallMoves(c) ==
  CallStep(c) \/ ServeNamespaces(c) \/ \E name \in Contexts : JoinSwitch(c, name)

\* Each step of a call but its first is of that kind.
LEMMA CallGoesOn ==
  ASSUME TypeOK, Ordered, SentInOrder, NEW c \in Calls, CallMoves(c)
  PROVE  GoesOn(c)
<1> USE ConstantsAssumption DEF TypeOK, claimVars, shownVars, sectionVars, sidecarVars
<1> USE DEF Running, InSwitch, Calls, CallRecord
<1>1. CASE StopWaiting(c)
  BY <1>1 DEF StopWaiting, End, Ended, NoCall, GoesOn, Ordered, SentInOrder
<1>2. CASE SendSwitch(c)
  BY <1>2 DEF SendSwitch, GoesOn, Ordered, SentInOrder
<1>3. CASE SwitchSucceeds(c)
  BY <1>3 DEF SwitchSucceeds, Consume, NoRequest, End, Ended, NoCall, GoesOn, Ordered, SentInOrder
<1>4. CASE SwitchFails(c)
  BY <1>4 DEF SwitchFails, Consume, NoRequest, GiveUpSwitch, End, Ended, NoCall, GoesOn, Ordered,
     SentInOrder
<1>5. CASE SwitchTimesOut(c)
  BY <1>5 DEF SwitchTimesOut, GiveUpSwitch, End, Ended, NoCall, GoesOn, Ordered, SentInOrder
<1>6. CASE ListingSucceeds(c)
  BY <1>6 DEF ListingSucceeds, End, Ended, NoCall, GoesOn, Ordered, SentInOrder
<1>7. CASE RollBack(c)
  BY <1>7 DEF RollBack, ListingFailed, PreviousContext, GoesOn, Ordered, SentInOrder
<1>8. CASE Superseded(c)
  BY <1>8 DEF Superseded, End, Ended, NoCall, GoesOn, Ordered, SentInOrder
<1>9. CASE FinishRollback(c)
  BY <1>9 DEF FinishRollback, Consume, NoRequest, End, Ended, NoCall, GoesOn, Ordered, SentInOrder
<1>10. CASE FinishSwitch(c)
  BY <1>10 DEF FinishSwitch, End, Ended, NoCall, GoesOn, Ordered, SentInOrder
<1>11. CASE ServeNamespaces(c)
  BY <1>11 DEF ServeNamespaces, GoesOn, Ordered, SentInOrder
<1>12. ASSUME NEW name \in Contexts, JoinSwitch(c, name) PROVE GoesOn(c)
  BY <1>12 DEF JoinSwitch, Unmade, End, Ended, NoCall, GoesOn, Ordered
<1> HIDE DEF TypeOK
<1> QED
  BY <1>1, <1>2, <1>3, <1>4, <1>5, <1>6, <1>7, <1>8, <1>9, <1>10, <1>11, <1>12 DEF CallMoves,
     CallStep

\* And its first is of this one.
LEMMA CallBegins ==
  ASSUME TypeOK, NEW c \in Calls, NEW name \in Contexts, BeginSwitch(c, name)
  PROVE  Begins(c)
BY ConstantsAssumption DEF TypeOK, Calls, CallRecord, BeginSwitch, Unmade, NoCall, Begins

\* A request that is sent takes the next number.
LEMMA NumberedBySend ==
  ASSUME sent \in Nat, latestServed \in Nat, Numbered, NEW c \in Calls,
         sent' = sent + 1, latestServed' = latestServed, request'[c].n = sent + 1,
         \A b \in Calls : b # c => request'[b] = request[b]
  PROVE  Numbered'
<1>1. \A b \in Calls : b # c /\ Pending(b)' => Pending(b) /\ request'[b].n \in 1 .. sent
  BY DEF Numbered, Pending
<1>2. \A b \in Calls : (Pending(b) => request[b].n \in 1 .. sent)'
  BY <1>1
<1>3. \A b, d \in Calls : (b # d /\ Pending(b) /\ Pending(d) => request[b].n # request[d].n)'
  <2> SUFFICES ASSUME NEW b \in Calls, NEW d \in Calls, b # d, Pending(b)', Pending(d)'
               PROVE  request'[b].n # request'[d].n
    OBVIOUS
  <2>1. CASE b = c \/ d = c
    BY <1>1, <2>1
  <2>2. CASE b # c /\ d # c
    BY <1>1, <2>2 DEF Numbered
  <2> QED
    BY <2>1, <2>2
<1> QED
  BY <1>2, <1>3 DEF Numbered

\* The latest request stays the latest while none is sent.
LEMMA LatestSentKept ==
  ASSUME TypeOK, LatestSent, NEW c \in Calls, GoesOn(c), UNCHANGED <<request, sent>>,
         call'[c].pc \notin {"switching", "rollback"}
  PROVE  LatestSent'
BY DEF LatestSent, GoesOn, Latest, Pending

\* Every step keeps the calls and their requests in order.
LEMMA CallsOn ==
  ASSUME TypeOK, CallInv, TypeOK', [Next]_vars
  PROVE  CallInv'
<1> USE ConstantsAssumption DEF TypeOK, claimVars, shownVars, sectionVars, sidecarVars
<1> USE DEF Latest, Running, InSwitch, Pending, Calls, CallRecord, RequestRecord
<1>a. Ordered /\ Named /\ SentInOrder /\ Numbered /\ LatestSent
  BY DEF CallInv
<1>1. ASSUME NEW c \in Calls, StopWaiting(c) PROVE CallInv'
  <2>1. GoesOn(c)
    BY <1>a, <1>1, CallGoesOn DEF CallMoves, CallStep
  <2>2. Ordered' /\ SentInOrder'
    BY <1>a, <2>1, OrderKept
  <2>3. Named'
    BY <1>a, <1>1, <2>1, OrderKept DEF StopWaiting, End, Ended, NoCall, Named
  <2>4. Numbered'
    BY <1>a, <1>1 DEF StopWaiting, End, Ended, NoCall, Numbered
  <2>5. LatestSent'
    BY <1>a, <1>1 DEF StopWaiting, End, Ended, NoCall, LatestSent
  <2> QED
    BY <2>2, <2>3, <2>4, <2>5 DEF CallInv
<1>2. ASSUME NEW c \in Calls, SendSwitch(c) PROVE CallInv'
  <2>1. GoesOn(c)
    BY <1>a, <1>2, CallGoesOn DEF CallMoves, CallStep
  <2>2. Ordered' /\ SentInOrder'
    BY <1>a, <2>1, OrderKept
  <2>3. Named'
    BY <1>a, <1>2, <2>1, OrderKept DEF SendSwitch, Send, Named
  <2>4. Numbered'
    <3>1. /\ request'[c].n = sent + 1 /\ sent' = sent + 1 /\ latestServed' = latestServed
          /\ \A b \in Calls : b # c => request'[b] = request[b]
      BY <1>2 DEF SendSwitch, Send
    <3> QED
      BY <1>a, <3>1, NumberedBySend
  <2>5. ASSUME NEW b \in Calls, Latest(b)', call'[b].pc \in {"switching", "rollback"} PROVE b = c
    <3> SUFFICES ASSUME b # c PROVE FALSE
      OBVIOUS
    <3>1. call[c].pc = "cancelling" /\ call'[b] = call[b] /\ contextSwitchSeq' = contextSwitchSeq
      BY <1>2, <2>1 DEF SendSwitch, GoesOn
    <3>2. Running(b) /\ Latest(b) /\ call[b].pc # "cancelling" /\ Running(c)
      BY <2>5, <3>1
    <3>3. ~(c < b)
      BY <1>a, <3>1, <3>2 DEF SentInOrder
    <3>4. ~(b < c)
      BY <1>a, <3>2, NoneAfter
    <3> QED
      BY <3>3, <3>4
  <2>6. LatestSent'
    BY <1>2, <2>5 DEF SendSwitch, Send, LatestSent
  <2> QED
    BY <2>2, <2>3, <2>4, <2>6 DEF CallInv
<1>3. ASSUME NEW c \in Calls, SwitchSucceeds(c) PROVE CallInv'
  <2>1. GoesOn(c)
    BY <1>a, <1>3, CallGoesOn DEF CallMoves, CallStep
  <2>2. Ordered' /\ SentInOrder'
    BY <1>a, <2>1, OrderKept
  <2>3. Named'
    BY <1>a, <1>3, <2>1, OrderKept DEF SwitchSucceeds, Consume, NoRequest, End, Ended, NoCall, Named
  <2>4. Numbered'
    BY <1>a, <1>3 DEF SwitchSucceeds, Consume, NoRequest, End, Ended, NoCall, Numbered
  <2>5. LatestSent'
    BY <1>a, <1>3 DEF SwitchSucceeds, Consume, NoRequest, End, Ended, NoCall, LatestSent
  <2> QED
    BY <2>2, <2>3, <2>4, <2>5 DEF CallInv
<1>4. ASSUME NEW c \in Calls, SwitchFails(c) PROVE CallInv'
  <2>1. GoesOn(c)
    BY <1>a, <1>4, CallGoesOn DEF CallMoves, CallStep
  <2>2. Ordered' /\ SentInOrder'
    BY <1>a, <2>1, OrderKept
  <2>3. Named'
    BY <1>a, <1>4, <2>1, OrderKept DEF SwitchFails, Consume, NoRequest, GiveUpSwitch, End, Ended,
       NoCall, Named
  <2>4. Numbered'
    BY <1>a, <1>4 DEF SwitchFails, Consume, NoRequest, GiveUpSwitch, End, Ended, NoCall, Numbered
  <2>5. LatestSent'
    BY <1>a, <1>4 DEF SwitchFails, Consume, NoRequest, GiveUpSwitch, End, Ended, NoCall, LatestSent
  <2> QED
    BY <2>2, <2>3, <2>4, <2>5 DEF CallInv
<1>5. ASSUME NEW c \in Calls, SwitchTimesOut(c) PROVE CallInv'
  <2>1. GoesOn(c)
    BY <1>a, <1>5, CallGoesOn DEF CallMoves, CallStep
  <2>2. Ordered' /\ SentInOrder'
    BY <1>a, <2>1, OrderKept
  <2>3. Named'
    BY <1>a, <1>5, <2>1, OrderKept DEF SwitchTimesOut, GiveUpSwitch, End, Ended, NoCall, Named
  <2>4. Numbered'
    BY <1>a, <1>5 DEF SwitchTimesOut, GiveUpSwitch, End, Ended, NoCall, Numbered
  <2>5. LatestSent'
    BY <1>a, <1>5 DEF SwitchTimesOut, GiveUpSwitch, End, Ended, NoCall, LatestSent
  <2> QED
    BY <2>2, <2>3, <2>4, <2>5 DEF CallInv
<1>6. ASSUME NEW c \in Calls, ListingSucceeds(c) PROVE CallInv'
  <2>1. GoesOn(c)
    BY <1>a, <1>6, CallGoesOn DEF CallMoves, CallStep
  <2>2. Ordered' /\ SentInOrder'
    BY <1>a, <2>1, OrderKept
  <2>3. Named'
    BY <1>a, <1>6, <2>1, OrderKept DEF ListingSucceeds, End, Ended, NoCall, Named
  <2>4. Numbered'
    BY <1>a, <1>6 DEF ListingSucceeds, End, Ended, NoCall, Numbered
  <2>5. LatestSent'
    <3>1. call'[c].pc \notin {"switching", "rollback"} /\ UNCHANGED <<request, sent>>
      BY <1>6 DEF ListingSucceeds, End, Ended, NoCall
    <3> QED
      BY <1>a, <2>1, <3>1, LatestSentKept
  <2> QED
    BY <2>2, <2>3, <2>4, <2>5 DEF CallInv
<1>7. ASSUME NEW c \in Calls, RollBack(c) PROVE CallInv'
  <2>1. GoesOn(c)
    BY <1>a, <1>7, CallGoesOn DEF CallMoves, CallStep
  <2>2. Ordered' /\ SentInOrder'
    BY <1>a, <2>1, OrderKept
  <2>3. Named'
    BY <1>a, <1>7, <2>1, OrderKept DEF RollBack, ListingFailed, Send, PreviousContext, Named
  <2>4. Numbered'
    <3>1. /\ request'[c].n = sent + 1 /\ sent' = sent + 1 /\ latestServed' = latestServed
          /\ \A b \in Calls : b # c => request'[b] = request[b]
      BY <1>7 DEF RollBack, Send
    <3> QED
      BY <1>a, <3>1, NumberedBySend
  <2>5. ASSUME NEW b \in Calls, Latest(b)', call'[b].pc \in {"switching", "rollback"} PROVE b = c
    <3> SUFFICES ASSUME b # c PROVE FALSE
      OBVIOUS
    <3>1. call'[b] = call[b] /\ contextSwitchSeq' = contextSwitchSeq /\ Running(c) /\ Latest(c)
      BY <1>7, <2>1 DEF RollBack, ListingFailed, GoesOn
    <3>2. Running(b) /\ Latest(b)
      BY <2>5, <3>1
    <3> QED
      BY <1>a, <3>1, <3>2, OneLatest
  <2>6. LatestSent'
    BY <1>7, <2>5 DEF RollBack, ListingFailed, Send, PreviousContext, LatestSent
  <2> QED
    BY <2>2, <2>3, <2>4, <2>6 DEF CallInv
<1>8. ASSUME NEW c \in Calls, Superseded(c) PROVE CallInv'
  <2>1. GoesOn(c)
    BY <1>a, <1>8, CallGoesOn DEF CallMoves, CallStep
  <2>2. Ordered' /\ SentInOrder'
    BY <1>a, <2>1, OrderKept
  <2>3. Named'
    BY <1>a, <1>8, <2>1, OrderKept DEF Superseded, End, Ended, NoCall, Named
  <2>4. Numbered'
    BY <1>a, <1>8 DEF Superseded, End, Ended, NoCall, Numbered
  <2>5. LatestSent'
    BY <1>a, <1>8 DEF Superseded, End, Ended, NoCall, LatestSent
  <2> QED
    BY <2>2, <2>3, <2>4, <2>5 DEF CallInv
<1>9. ASSUME NEW c \in Calls, FinishRollback(c) PROVE CallInv'
  <2>1. GoesOn(c)
    BY <1>a, <1>9, CallGoesOn DEF CallMoves, CallStep
  <2>2. Ordered' /\ SentInOrder'
    BY <1>a, <2>1, OrderKept
  <2>3. Named'
    BY <1>a, <1>9, <2>1, OrderKept DEF FinishRollback, Consume, NoRequest, End, Ended, NoCall, Named
  <2>4. Numbered'
    BY <1>a, <1>9 DEF FinishRollback, Consume, NoRequest, End, Ended, NoCall, Numbered
  <2>5. LatestSent'
    BY <1>a, <1>9 DEF FinishRollback, Consume, NoRequest, End, Ended, NoCall, LatestSent
  <2> QED
    BY <2>2, <2>3, <2>4, <2>5 DEF CallInv
<1>10. ASSUME NEW c \in Calls, FinishSwitch(c) PROVE CallInv'
  <2>1. GoesOn(c)
    BY <1>a, <1>10, CallGoesOn DEF CallMoves, CallStep
  <2>2. Ordered' /\ SentInOrder'
    BY <1>a, <2>1, OrderKept
  <2>3. Named'
    BY <1>a, <1>10, <2>1, OrderKept DEF FinishSwitch, End, Ended, NoCall, Named
  <2>4. Numbered'
    BY <1>a, <1>10 DEF FinishSwitch, End, Ended, NoCall, Numbered
  <2>5. LatestSent'
    BY <1>a, <1>10 DEF FinishSwitch, End, Ended, NoCall, LatestSent
  <2> QED
    BY <2>2, <2>3, <2>4, <2>5 DEF CallInv
<1>11. ASSUME NEW c \in Calls, ServeNamespaces(c) PROVE CallInv'
  <2>1. GoesOn(c)
    BY <1>a, <1>11, CallGoesOn DEF CallMoves, CallStep
  <2>2. Ordered' /\ SentInOrder'
    BY <1>a, <2>1, OrderKept
  <2>3. Named'
    BY <1>a, <1>11, <2>1, OrderKept DEF ServeNamespaces, Named
  <2>4. Numbered'
    BY <1>a, <1>11 DEF ServeNamespaces, Numbered
  <2>5. LatestSent'
    BY <1>a, <1>11 DEF ServeNamespaces, LatestSent
  <2> QED
    BY <2>2, <2>3, <2>4, <2>5 DEF CallInv
<1>12. ASSUME NEW c \in Calls, CarryOut(c) PROVE CallInv'
  <2>1. Ordered' /\ SentInOrder' /\ Named'
    BY <1>a, <1>12 DEF CarryOut, Ordered, SentInOrder, Named
  <2>2. Numbered' /\ LatestSent'
    BY <1>a, <1>12 DEF CarryOut, Numbered, LatestSent
  <2> QED
    BY <2>1, <2>2 DEF CallInv
<1>13. ASSUME NEW c \in Calls, Refuse(c) PROVE CallInv'
  <2>1. Ordered' /\ SentInOrder' /\ Named'
    BY <1>a, <1>13 DEF Refuse, Ordered, SentInOrder, Named
  <2>2. Numbered' /\ LatestSent'
    BY <1>a, <1>13 DEF Refuse, Numbered, LatestSent
  <2> QED
    BY <2>1, <2>2 DEF CallInv
<1>14. ASSUME NEW c \in Calls, SendAgain(c) PROVE CallInv'
  <2>1. Ordered' /\ SentInOrder' /\ Named'
    BY <1>a, <1>14 DEF SendAgain, Ordered, SentInOrder, Named
  <2>2. Numbered' /\ LatestSent'
    BY <1>a, <1>14 DEF SendAgain, Numbered, LatestSent
  <2> QED
    BY <2>1, <2>2 DEF CallInv
<1>15. ASSUME NEW c \in Calls, DropAnswer(c) PROVE CallInv'
  <2>1. Ordered' /\ SentInOrder' /\ Named'
    BY <1>a, <1>15 DEF DropAnswer, Consume, NoRequest, Ordered, SentInOrder, Named
  <2>2. Numbered' /\ LatestSent'
    BY <1>a, <1>15 DEF DropAnswer, Consume, NoRequest, Numbered, LatestSent
  <2> QED
    BY <2>1, <2>2 DEF CallInv
<1>16. ASSUME NEW c \in Calls, NEW name \in Contexts, BeginSwitch(c, name) PROVE CallInv'
  <2>1. Begins(c)
    BY <1>16, CallBegins
  <2>2. Ordered' /\ SentInOrder'
    BY <1>a, <2>1, OrderBegins
  <2>3. Named'
    BY <1>a, <1>16 DEF BeginSwitch, NoCall, Named
  <2>4. Numbered'
    BY <1>a, <1>16 DEF BeginSwitch, Quiet, Numbered
  <2>5. LatestSent'
    BY <1>a, <1>16 DEF BeginSwitch, NoCall, LatestSent, Ordered
  <2> QED
    BY <2>2, <2>3, <2>4, <2>5 DEF CallInv
<1>17. ASSUME NEW c \in Calls, NEW name \in Contexts, JoinSwitch(c, name) PROVE CallInv'
  <2>1. GoesOn(c)
    BY <1>a, <1>17, CallGoesOn DEF CallMoves, CallStep
  <2>2. Ordered' /\ SentInOrder'
    BY <1>a, <2>1, OrderKept
  <2>3. Named'
    BY <1>a, <1>17, <2>1, OrderKept DEF JoinSwitch, Unmade, End, Ended, NoCall, Named
  <2>4. Numbered'
    BY <1>a, <1>17 DEF JoinSwitch, Unmade, End, Ended, NoCall, Numbered
  <2>5. LatestSent'
    <3>1. call'[c].pc \notin {"switching", "rollback"} /\ UNCHANGED <<request, sent>>
      BY <1>17 DEF JoinSwitch, Unmade, End, Ended, NoCall
    <3> QED
      BY <1>a, <2>1, <3>1, LatestSentKept
  <2> QED
    BY <2>2, <2>3, <2>4, <2>5 DEF CallInv
<1>18. ASSUME UNCHANGED <<call, contextSwitchSeq, request, sent, latestServed>> PROVE CallInv'
  BY <1>18 DEF CallInv, Ordered, Named, SentInOrder, Numbered, LatestSent
<1>19. ASSUME NEW l \in Fetchers, ServeFetch(l) PROVE CallInv'
  BY <1>19, <1>18 DEF ServeFetch
<1>20. ASSUME NEW l \in Fetchers, FetchFails(l) PROVE CallInv'
  BY <1>20, <1>18 DEF FetchFails, EndFetch
<1>21. ASSUME NEW l \in Fetchers, DiscardFetch(l) PROVE CallInv'
  BY <1>21, <1>18 DEF DiscardFetch, EndFetch
<1>22. ASSUME NEW l \in Fetchers, CommitFetch(l) PROVE CallInv'
  BY <1>22, <1>18 DEF CommitFetch, EndFetch
<1>23. ASSUME NEW l \in Viewers, LoadSection(l) PROVE CallInv'
  BY <1>23, <1>18 DEF LoadSection
<1>24. ASSUME NEW l \in Viewers, Refresh(l) PROVE CallInv'
  BY <1>24, <1>18 DEF Refresh
<1>25. ASSUME GrowStale PROVE CallInv'
  BY <1>25, <1>18 DEF GrowStale
<1>26. CASE UNCHANGED vars
  BY <1>26, <1>18 DEF vars
<1> HIDE DEF TypeOK
<1> QED
  BY <1>1, <1>2, <1>3, <1>4, <1>5, <1>6, <1>7, <1>8, <1>9, <1>10, <1>11, <1>12, <1>13, <1>14,
     <1>15, <1>16, <1>17, <1>18, <1>19, <1>20, <1>21, <1>22, <1>23, <1>24, <1>25, <1>26
  DEF Next, UserStep, CallStep, FetchStep, SidecarStep

-----------------------------------------------------------------------------
(* The number of requests.                                                 *)

\* Of two sets of numbers the smaller counts less.
LEMMA BudgetShrinks ==
  ASSUME NEW A, NEW B, A \subseteq B, B \subseteq 1 .. 2 * MaxCalls
  PROVE  Cardinality(A) \in Nat /\ Cardinality(B) \in Nat /\ Cardinality(A) <= Cardinality(B)
<1>1. 2 * MaxCalls \in Int
  BY ConstantsAssumption
<1>2. IsFiniteSet(1 .. 2 * MaxCalls)
  BY <1>1, FS_Interval
<1>3. IsFiniteSet(B)
  BY <1>2, FS_Subset
<1> QED
  BY <1>3, FS_Subset, FS_CardinalityType

\* A number taken counts one.
LEMMA BudgetSpent ==
  ASSUME NEW A, NEW B, NEW k \in B, A \subseteq B \ {k}, B \subseteq 1 .. 2 * MaxCalls
  PROVE  Cardinality(A) + 1 <= Cardinality(B)
<1>1. 2 * MaxCalls \in Int
  BY ConstantsAssumption
<1>2. IsFiniteSet(B)
  <2>1. IsFiniteSet(1 .. 2 * MaxCalls)
    BY <1>1, FS_Interval
  <2> QED
    BY <2>1, FS_Subset
<1>3. Cardinality(B \ {k}) = Cardinality(B) - 1
  BY <1>2, FS_RemoveElement
<1>4. /\ Cardinality(A) <= Cardinality(B \ {k})
      /\ Cardinality(B \ {k}) \in Nat /\ Cardinality(A) \in Nat
  BY BudgetShrinks
<1> QED
  BY <1>3, <1>4, <1>2, FS_CardinalityType

\* A call sends at most two requests: its switch and its way back.
LEMMA BudgetOn ==
  ASSUME TypeOK, Ordered, SentInOrder, BudgetInv, [Next]_vars
  PROVE  BudgetInv' /\ sent' \in 0 .. 2 * MaxCalls
<1> USE ConstantsAssumption
<1>a. sent \in Nat /\ Budget \subseteq 1 .. 2 * MaxCalls /\ Budget' \subseteq 1 .. 2 * MaxCalls
  BY DEF TypeOK, Budget
<1>b. ASSUME Budget' \subseteq Budget, sent' \in 0 .. sent
      PROVE  BudgetInv' /\ sent' \in 0 .. 2 * MaxCalls
  <2>1. /\ Cardinality(Budget') \in Nat /\ Cardinality(Budget) \in Nat
        /\ Cardinality(Budget') <= Cardinality(Budget)
    BY <1>a, <1>b, BudgetShrinks
  <2> HIDE DEF Budget
  <2> QED
    BY <1>a, <1>b, <2>1 DEF BudgetInv
<1>c. ASSUME NEW k \in Budget, Budget' \subseteq Budget \ {k}, sent' = sent + 1
      PROVE  BudgetInv' /\ sent' \in 0 .. 2 * MaxCalls
  <2>1. Cardinality(Budget') + 1 <= Cardinality(Budget)
    BY <1>a, <1>c, BudgetSpent
  <2>2. Cardinality(Budget') \in Nat /\ Cardinality(Budget) \in Nat
    BY <1>a, BudgetShrinks
  <2> HIDE DEF Budget
  <2> QED
    BY <1>a, <1>c, <2>1, <2>2 DEF BudgetInv
<1>d. ASSUME NEW c \in Calls, GoesOn(c) PROVE Budget' \subseteq Budget
  BY <1>d DEF GoesOn, Budget, Calls
<1>e. UNCHANGED call => Budget' = Budget
  BY DEF Budget
<1>1. ASSUME NEW c \in Calls, SendSwitch(c) PROVE BudgetInv' /\ sent' \in 0 .. 2 * MaxCalls
  <2>1. GoesOn(c) /\ call[c].pc = "cancelling" /\ sent' = sent + 1
    BY <1>1, CallGoesOn DEF CallMoves, CallStep, SendSwitch, Send
  <2>2. 2 * c - 1 \in Budget
    BY <2>1 DEF Budget, Calls
  <2>3. 2 * c - 1 \notin Budget'
    BY <2>1 DEF Budget, Calls, GoesOn
  <2> QED
    BY <1>c, <1>d, <2>1, <2>2, <2>3
<1>2. ASSUME NEW c \in Calls, RollBack(c) PROVE BudgetInv' /\ sent' \in 0 .. 2 * MaxCalls
  <2>1. GoesOn(c) /\ call[c].pc = "listing" /\ sent' = sent + 1
    BY <1>2, CallGoesOn DEF CallMoves, CallStep, RollBack, ListingFailed, Send
  <2>2. call'[c].pc = "rollback"
    BY <1>2 DEF RollBack, TypeOK, CallRecord
  <2>3. 2 * c \in Budget
    BY <2>1 DEF Budget, Calls
  <2>4. 2 * c \notin Budget'
    BY <2>2 DEF Budget, Calls
  <2> QED
    BY <1>c, <1>d, <2>1, <2>3, <2>4
<1>3. ASSUME NEW c \in Calls, CallMoves(c), ~SendSwitch(c), ~RollBack(c)
      PROVE  BudgetInv' /\ sent' \in 0 .. 2 * MaxCalls
  <2>1. GoesOn(c)
    BY <1>3, CallGoesOn
  <2>2. sent' = sent
    BY <1>3 DEF CallMoves, CallStep, StopWaiting, SwitchSucceeds, SwitchFails, SwitchTimesOut,
       GiveUpSwitch, ListingSucceeds, Superseded, FinishRollback, FinishSwitch, ServeNamespaces,
       JoinSwitch, sidecarVars
  <2> QED
    BY <1>a, <1>b, <1>d, <2>1, <2>2
<1>4. ASSUME NEW c \in Calls, NEW name \in Contexts, BeginSwitch(c, name)
      PROVE  BudgetInv' /\ sent' \in 0 .. 2 * MaxCalls
  <2>1. Begins(c)
    BY <1>4, CallBegins
  <2>2. Budget' \subseteq Budget
    BY <2>1 DEF Begins, Budget, Calls
  <2>3. sent' = 0 \/ sent' = sent
    BY <1>4 DEF BeginSwitch
  <2> QED
    BY <1>a, <1>b, <2>2, <2>3
<1>5. ASSUME UNCHANGED <<call, sent>> PROVE BudgetInv' /\ sent' \in 0 .. 2 * MaxCalls
  BY <1>5, <1>a, <1>b, <1>e
<1>6. ASSUME NEW c \in Calls, SidecarStep(c) \/ SendAgain(c) \/ DropAnswer(c)
      PROVE  UNCHANGED <<call, sent>>
  BY <1>6 DEF SidecarStep, CarryOut, Refuse, SendAgain, DropAnswer
<1>7. ASSUME NEW l \in Fetchers, FetchStep(l) PROVE UNCHANGED <<call, sent>>
  BY <1>7 DEF FetchStep, ServeFetch, FetchFails, DiscardFetch, CommitFetch, EndFetch, sidecarVars
<1>8. ASSUME NEW l \in Viewers, LoadSection(l) \/ Refresh(l) PROVE UNCHANGED <<call, sent>>
  BY <1>8 DEF LoadSection, Refresh, sidecarVars
<1>9. GrowStale \/ UNCHANGED vars => UNCHANGED <<call, sent>>
  BY DEF GrowStale, vars, sidecarVars
<1> QED
  BY <1>1, <1>2, <1>3, <1>4, <1>5, <1>6, <1>7, <1>8, <1>9 DEF Next, UserStep, CallMoves

-----------------------------------------------------------------------------
(* What a call leaves in the store.                                        *)

\* Only the latest call can be the last to send its request.
LEMMA CancelsOn ==
  ASSUME TypeOK, Ordered, SentInOrder, LatestCancels, [Next]_vars
  PROVE  LatestCancels'
<1> USE ConstantsAssumption DEF Latest
<1>1. ASSUME NEW c \in Calls, SendSwitch(c) PROVE LatestCancels'
  <2>a. call[c].pc = "cancelling" /\ \A b \in Calls : b < c => call[b].pc # "cancelling"
    BY <1>1 DEF SendSwitch, Calls
  <2>b. call'[c].pc = "switching"
    BY <1>1 DEF SendSwitch, TypeOK, CallRecord
  <2>1. GoesOn(c)
    BY <1>1, CallGoesOn DEF CallMoves, CallStep
  <2>2. CASE Latest(c)
    <3>1. \A b \in Calls : c < b => call[b].pc # "cancelling"
      BY <2>a, <2>2 DEF Ordered, Running, InSwitch, TypeOK, Calls
    <3> QED
      BY <2>a, <2>b, <2>1, <3>1 DEF LatestCancels, GoesOn, Calls
  <2>3. CASE ~Latest(c)
    BY <2>1, <2>3 DEF LatestCancels, GoesOn
  <2> QED
    BY <2>2, <2>3
<1>2. ASSUME NEW c \in Calls, CallMoves(c), ~SendSwitch(c) PROVE LatestCancels'
  <2>1. GoesOn(c) /\ call[c].pc # "cancelling"
    BY <1>2, CallGoesOn DEF CallMoves, CallStep, StopWaiting, SwitchSucceeds, SwitchFails,
       SwitchTimesOut, ListingSucceeds, RollBack, ListingFailed, Superseded, FinishRollback,
       FinishSwitch, ServeNamespaces, JoinSwitch, Unmade
  <2> QED
    BY <2>1 DEF LatestCancels, GoesOn
<1>3. ASSUME NEW c \in Calls, NEW name \in Contexts, BeginSwitch(c, name) PROVE LatestCancels'
  BY <1>3 DEF BeginSwitch, NoCall, LatestCancels, TypeOK
<1>4. ASSUME UNCHANGED <<call, contextSwitchSeq>> PROVE LatestCancels'
  BY <1>4 DEF LatestCancels
<1>5. ASSUME NEW c \in Calls, SidecarStep(c) \/ SendAgain(c) \/ DropAnswer(c)
      PROVE  UNCHANGED <<call, contextSwitchSeq>>
  BY <1>5 DEF SidecarStep, CarryOut, Refuse, SendAgain, DropAnswer
<1>6. ASSUME NEW l \in Fetchers, FetchStep(l) PROVE UNCHANGED <<call, contextSwitchSeq>>
  BY <1>6 DEF FetchStep, ServeFetch, FetchFails, DiscardFetch, CommitFetch, EndFetch
<1>7. ASSUME NEW l \in Viewers, LoadSection(l) \/ Refresh(l)
      PROVE  UNCHANGED <<call, contextSwitchSeq>>
  BY <1>7 DEF LoadSection, Refresh
<1>8. GrowStale \/ UNCHANGED vars => UNCHANGED <<call, contextSwitchSeq>>
  BY DEF GrowStale, vars
<1> QED
  BY <1>1, <1>2, <1>3, <1>4, <1>5, <1>6, <1>7, <1>8 DEF Next, UserStep, CallMoves

\* The claim, the promise and the overlay go when their call does.
LEMMA MarksOn ==
  ASSUME TypeOK, Ordered, SentInOrder, ClaimsAreLive, OverlayFollowsCalls, [Next]_vars
  PROVE  ClaimsAreLive' /\ OverlayFollowsCalls'
<1> USE ConstantsAssumption DEF Latest, Running, InSwitch
<1> USE DEF claimVars, shownVars, sectionVars, sidecarVars
<1>1. ASSUME NEW c \in Calls, StopWaiting(c) PROVE ClaimsAreLive' /\ OverlayFollowsCalls'
  <2>1. GoesOn(c)
    BY <1>1, CallGoesOn DEF CallMoves, CallStep
  <2>2. ClaimsAreLive'
    BY <1>1, <2>1 DEF StopWaiting, End, Ended, NoCall, GoesOn, ClaimsAreLive, TypeOK, CallRecord
  <2>3. OverlayFollowsCalls'
    BY <1>1, <2>1 DEF StopWaiting, End, Ended, NoCall, GoesOn, OverlayFollowsCalls, TypeOK,
       CallRecord
  <2> QED
    BY <2>2, <2>3
<1>2. ASSUME NEW c \in Calls, SendSwitch(c) PROVE ClaimsAreLive' /\ OverlayFollowsCalls'
  <2>1. GoesOn(c)
    BY <1>2, CallGoesOn DEF CallMoves, CallStep
  <2>2. ClaimsAreLive'
    BY <1>2, <2>1 DEF SendSwitch, GoesOn, ClaimsAreLive, TypeOK, CallRecord
  <2>3. OverlayFollowsCalls'
    BY <1>2, <2>1 DEF SendSwitch, GoesOn, OverlayFollowsCalls, TypeOK, CallRecord
  <2> QED
    BY <2>2, <2>3
<1>3. ASSUME NEW c \in Calls, SwitchSucceeds(c) PROVE ClaimsAreLive' /\ OverlayFollowsCalls'
  <2>1. GoesOn(c)
    BY <1>3, CallGoesOn DEF CallMoves, CallStep
  <2>2. ClaimsAreLive'
    BY <1>3, <2>1 DEF SwitchSucceeds, End, Ended, NoCall, Unclaim, GoesOn, ClaimsAreLive, TypeOK,
       CallRecord
  <2>3. OverlayFollowsCalls'
    BY <1>3, <2>1 DEF SwitchSucceeds, End, Ended, NoCall, Unclaim, GoesOn, OverlayFollowsCalls,
       TypeOK, CallRecord
  <2> QED
    BY <2>2, <2>3
<1>4. ASSUME NEW c \in Calls, SwitchFails(c) PROVE ClaimsAreLive' /\ OverlayFollowsCalls'
  <2>1. GoesOn(c)
    BY <1>4, CallGoesOn DEF CallMoves, CallStep
  <2>2. ClaimsAreLive'
    BY <1>4, <2>1 DEF SwitchFails, GiveUpSwitch, End, Ended, NoCall, Unclaim, GoesOn,
       ClaimsAreLive, TypeOK, CallRecord
  <2>3. OverlayFollowsCalls'
    BY <1>4, <2>1 DEF SwitchFails, GiveUpSwitch, End, Ended, NoCall, Unclaim, GoesOn,
       OverlayFollowsCalls, TypeOK, CallRecord
  <2> QED
    BY <2>2, <2>3
<1>5. ASSUME NEW c \in Calls, SwitchTimesOut(c) PROVE ClaimsAreLive' /\ OverlayFollowsCalls'
  <2>1. GoesOn(c)
    BY <1>5, CallGoesOn DEF CallMoves, CallStep
  <2>2. ClaimsAreLive'
    BY <1>5, <2>1 DEF SwitchTimesOut, GiveUpSwitch, End, Ended, NoCall, Unclaim, GoesOn,
       ClaimsAreLive, TypeOK, CallRecord
  <2>3. OverlayFollowsCalls'
    BY <1>5, <2>1 DEF SwitchTimesOut, GiveUpSwitch, End, Ended, NoCall, Unclaim, GoesOn,
       OverlayFollowsCalls, TypeOK, CallRecord
  <2> QED
    BY <2>2, <2>3
<1>6. ASSUME NEW c \in Calls, ListingSucceeds(c) PROVE ClaimsAreLive' /\ OverlayFollowsCalls'
  <2>1. GoesOn(c)
    BY <1>6, CallGoesOn DEF CallMoves, CallStep
  <2>2. ClaimsAreLive'
    BY <1>6, <2>1 DEF ListingSucceeds, End, Ended, NoCall, GoesOn, ClaimsAreLive, TypeOK, CallRecord
  <2>3. OverlayFollowsCalls'
    BY <1>6, <2>1 DEF ListingSucceeds, End, Ended, NoCall, GoesOn, OverlayFollowsCalls, TypeOK,
       CallRecord
  <2> QED
    BY <2>2, <2>3
<1>7. ASSUME NEW c \in Calls, RollBack(c) PROVE ClaimsAreLive' /\ OverlayFollowsCalls'
  <2>1. GoesOn(c)
    BY <1>7, CallGoesOn DEF CallMoves, CallStep
  <2>2. ClaimsAreLive'
    BY <1>7, <2>1 DEF RollBack, ListingFailed, GoesOn, ClaimsAreLive, TypeOK, CallRecord
  <2>3. OverlayFollowsCalls'
    BY <1>7, <2>1 DEF RollBack, ListingFailed, GoesOn, OverlayFollowsCalls, TypeOK, CallRecord
  <2> QED
    BY <2>2, <2>3
<1>8. ASSUME NEW c \in Calls, Superseded(c) PROVE ClaimsAreLive' /\ OverlayFollowsCalls'
  <2>1. GoesOn(c)
    BY <1>8, CallGoesOn DEF CallMoves, CallStep
  <2>2. ClaimsAreLive'
    BY <1>8, <2>1 DEF Superseded, End, Ended, NoCall, GoesOn, ClaimsAreLive, TypeOK, CallRecord
  <2>3. OverlayFollowsCalls'
    BY <1>8, <2>1 DEF Superseded, End, Ended, NoCall, GoesOn, OverlayFollowsCalls, TypeOK,
       CallRecord
  <2> QED
    BY <2>2, <2>3
<1>9. ASSUME NEW c \in Calls, FinishRollback(c) PROVE ClaimsAreLive' /\ OverlayFollowsCalls'
  <2>1. GoesOn(c)
    BY <1>9, CallGoesOn DEF CallMoves, CallStep
  <2>2. ClaimsAreLive'
    BY <1>9, <2>1 DEF FinishRollback, End, Ended, NoCall, GoesOn, ClaimsAreLive, TypeOK, CallRecord
  <2>3. OverlayFollowsCalls'
    BY <1>9, <2>1 DEF FinishRollback, End, Ended, NoCall, GoesOn, OverlayFollowsCalls, TypeOK,
       CallRecord
  <2> QED
    BY <2>2, <2>3
<1>10. ASSUME NEW c \in Calls, FinishSwitch(c) PROVE ClaimsAreLive' /\ OverlayFollowsCalls'
  <2>1. GoesOn(c)
    BY <1>10, CallGoesOn DEF CallMoves, CallStep
  <2>2. ClaimsAreLive'
    BY <1>10, <2>1 DEF FinishSwitch, End, Ended, NoCall, GoesOn, ClaimsAreLive, TypeOK, CallRecord
  <2>3. OverlayFollowsCalls'
    BY <1>10, <2>1 DEF FinishSwitch, End, Ended, NoCall, GoesOn, OverlayFollowsCalls, TypeOK,
       CallRecord
  <2> QED
    BY <2>2, <2>3
<1>11. ASSUME NEW c \in Calls, ServeNamespaces(c) PROVE ClaimsAreLive' /\ OverlayFollowsCalls'
  <2>1. GoesOn(c)
    BY <1>11, CallGoesOn DEF CallMoves, CallStep
  <2>2. ClaimsAreLive'
    BY <1>11, <2>1 DEF ServeNamespaces, GoesOn, ClaimsAreLive, TypeOK, CallRecord
  <2>3. OverlayFollowsCalls'
    BY <1>11, <2>1 DEF ServeNamespaces, GoesOn, OverlayFollowsCalls, TypeOK, CallRecord
  <2> QED
    BY <2>2, <2>3
<1>12. ASSUME NEW c \in Calls, NEW name \in Contexts, JoinSwitch(c, name)
       PROVE  ClaimsAreLive' /\ OverlayFollowsCalls'
  <2>1. GoesOn(c)
    BY <1>12, CallGoesOn DEF CallMoves, CallStep
  <2>2. ClaimsAreLive'
    BY <1>12, <2>1 DEF JoinSwitch, Unmade, End, Ended, NoCall, GoesOn, ClaimsAreLive, TypeOK,
       CallRecord
  <2>3. OverlayFollowsCalls'
    BY <1>12, <2>1 DEF JoinSwitch, Unmade, End, Ended, NoCall, GoesOn, OverlayFollowsCalls,
       TypeOK, CallRecord
  <2> QED
    BY <2>2, <2>3
<1>13. ASSUME NEW c \in Calls, NEW name \in Contexts, BeginSwitch(c, name)
       PROVE  ClaimsAreLive' /\ OverlayFollowsCalls'
  BY <1>13 DEF BeginSwitch, Unmade, NoCall, ClaimsAreLive, OverlayFollowsCalls, TypeOK
<1>14. ASSUME UNCHANGED <<call, contextSwitchSeq, contextSwitchStatus, claimVars>>
       PROVE  ClaimsAreLive' /\ OverlayFollowsCalls'
  BY <1>14 DEF ClaimsAreLive, OverlayFollowsCalls
<1>15. ASSUME NEW c \in Calls, SidecarStep(c) \/ SendAgain(c) \/ DropAnswer(c)
       PROVE  UNCHANGED <<call, contextSwitchSeq, contextSwitchStatus, claimVars>>
  BY <1>15 DEF SidecarStep, CarryOut, Refuse, SendAgain, DropAnswer
<1>16. ASSUME NEW l \in Fetchers, FetchStep(l)
       PROVE  UNCHANGED <<call, contextSwitchSeq, contextSwitchStatus, claimVars>>
  BY <1>16 DEF FetchStep, ServeFetch, FetchFails, DiscardFetch, CommitFetch, EndFetch
<1>17. ASSUME NEW l \in Viewers, LoadSection(l) \/ Refresh(l)
       PROVE  UNCHANGED <<call, contextSwitchSeq, contextSwitchStatus, claimVars>>
  BY <1>17 DEF LoadSection, Refresh
<1>18. GrowStale \/ UNCHANGED vars
         => UNCHANGED <<call, contextSwitchSeq, contextSwitchStatus, claimVars>>
  BY DEF GrowStale, vars
<1> HIDE DEF Latest, Running, InSwitch
<1> QED
  BY <1>1, <1>2, <1>3, <1>4, <1>5, <1>6, <1>7, <1>8, <1>9, <1>10, <1>11, <1>12, <1>13, <1>14,
     <1>15, <1>16, <1>17, <1>18 DEF Next, UserStep, CallStep

-----------------------------------------------------------------------------
(* Store and sidecar.                                                      *)

storeVars == <<request, sent, latestServed, sidecarContext, selectedContext, causes>>

\* A call moves that neither is nor comes to be on its way to the sidecar.
LEMMA SplitByMove ==
  ASSUME SplitInv, NEW c \in Calls, GoesOn(c), UNCHANGED storeVars,
         call[c].pc \notin {"cancelling", "switching", "rollback"},
         call'[c].pc \notin {"cancelling", "switching", "rollback"}
  PROVE  SplitInv'
<1> USE DEF storeVars
<1>1. \A b \in Calls : Latest(b)' /\ Running(b)' =>
         Latest(b) /\ Running(b) /\ call'[b].name = call[b].name
  BY DEF GoesOn, Latest, Running, InSwitch
<1>2. \A b \in Calls : call'[b].pc \in {"switching", "rollback"} => call'[b] = call[b]
  BY DEF GoesOn
<1>3. SidecarBehind => SidecarBehind'
  BY DEF GoesOn, SidecarBehind, Latest, InSwitch
<1>4. ServedInOrder'
  BY DEF SplitInv, ServedInOrder, Pending
<1>5. LatestServed'
  BY <1>2 DEF SplitInv, LatestServed, GoesOn, Latest
<1>6. Selected'
  BY <1>1 DEF SplitInv, Selected
<1>7. CaughtUp'
  BY <1>3 DEF SplitInv, CaughtUp
<1> QED
  BY <1>4, <1>5, <1>6, <1>7 DEF SplitInv

\* Every step keeps store and sidecar together, or names what parts them.
LEMMA SplitOn ==
  ASSUME TypeOK, CallInv, LatestCancels, LatestCancels', SplitInv, [Next]_vars
  PROVE  SplitInv'
<1> USE ConstantsAssumption DEF claimVars, shownVars, sectionVars, sidecarVars
<1>a. Ordered /\ Named /\ SentInOrder /\ Numbered /\ LatestSent
  BY DEF CallInv
<1>b. ServedInOrder /\ LatestServed /\ Selected /\ CaughtUp
  BY DEF SplitInv
<1>c. ASSUME NEW c \in Calls, Running(c), Latest(c)
      PROVE  \A b \in Calls : Running(b) /\ Latest(b) => b = c
  BY <1>a, <1>c, OneLatest
<1> USE DEF Latest, Running, InSwitch, Pending
<1>1. ASSUME NEW c \in Calls, SendSwitch(c) PROVE SplitInv'
  <2>1. GoesOn(c)
    BY <1>1, <1>a, CallGoesOn DEF CallMoves, CallStep
  <2>2. ServedInOrder'
    BY <1>1, <1>a, <1>b DEF SendSwitch, Send, ServedInOrder, Numbered, TypeOK, CallRecord,
       RequestRecord
  <2>3. LatestServed'
    <3>1. PICK d \in Calls : Latest(d) /\ call[d].pc = "cancelling"
      BY <1>1 DEF SendSwitch, LatestCancels
    <3>2. \A e \in Calls : Latest(e) /\ call[e].pc \in {"switching", "rollback"} => FALSE
      BY <3>1, <1>c
    <3>3. request'[c].state = "sent"
      BY <1>1 DEF SendSwitch, Send, TypeOK
    <3> QED
      BY <2>1, <3>2, <3>3 DEF LatestServed, GoesOn
  <2>4. Selected'
    BY <1>1, <1>a, <1>b, <1>c, <2>1 DEF SendSwitch, Send, Selected, GoesOn, TypeOK, CallRecord,
       RequestRecord
  <2>5. CaughtUp'
    BY <1>1, <1>a, <1>b, <1>c, <2>1 DEF SendSwitch, Send, CaughtUp, SidecarBehind, GoesOn,
       ServedInOrder, LatestServed, LatestSent, Selected, LatestCancels, TypeOK, CallRecord,
       RequestRecord
  <2> QED
    BY <2>2, <2>3, <2>4, <2>5 DEF SplitInv
<1>2. ASSUME NEW c \in Calls, SwitchSucceeds(c) PROVE SplitInv'
  <2>1. GoesOn(c)
    BY <1>2, <1>a, CallGoesOn DEF CallMoves, CallStep
  <2>2. ServedInOrder'
    BY <1>2, <1>a, <1>b DEF SwitchSucceeds, Consume, NoRequest, Unclaim, End, Ended, NoCall,
       ServedInOrder, Numbered, TypeOK, CallRecord, RequestRecord
  <2>3. LatestServed'
    BY <1>2, <1>a, <1>b, <1>c, <2>1 DEF SwitchSucceeds, Consume, NoRequest, Unclaim, End, Ended,
       NoCall, LatestServed, GoesOn, TypeOK, CallRecord, RequestRecord
  <2>4. Selected'
    BY <1>2, <1>a, <1>b, <1>c, <2>1 DEF SwitchSucceeds, Consume, NoRequest, Unclaim, End, Ended,
       NoCall, Selected, GoesOn, TypeOK, CallRecord, RequestRecord
  <2>5. CaughtUp'
    BY <1>2, <1>a, <1>b, <1>c, <2>1 DEF SwitchSucceeds, Consume, NoRequest, Unclaim, End, Ended,
       NoCall, CaughtUp, SidecarBehind, GoesOn, ServedInOrder, LatestServed, LatestSent, Selected,
       LatestCancels, TypeOK, CallRecord, RequestRecord
  <2> QED
    BY <2>2, <2>3, <2>4, <2>5 DEF SplitInv
<1>3. ASSUME NEW c \in Calls, SwitchFails(c) PROVE SplitInv'
  <2>1. GoesOn(c)
    BY <1>3, <1>a, CallGoesOn DEF CallMoves, CallStep
  <2>2. ServedInOrder'
    BY <1>3, <1>a, <1>b DEF SwitchFails, Consume, NoRequest, GiveUpSwitch, Unclaim, End, Ended,
       NoCall, ServedInOrder, Numbered, TypeOK, CallRecord, RequestRecord
  <2>3. LatestServed'
    BY <1>3, <1>a, <1>b, <1>c, <2>1 DEF SwitchFails, Consume, NoRequest, GiveUpSwitch, Unclaim,
       End, Ended, NoCall, LatestServed, GoesOn, TypeOK, CallRecord, RequestRecord
  <2>4. Selected'
    BY <1>3, <1>a, <1>b, <1>c, <2>1 DEF SwitchFails, Consume, NoRequest, GiveUpSwitch, Unclaim,
       End, Ended, NoCall, Selected, GoesOn, TypeOK, CallRecord, RequestRecord
  <2>5. CaughtUp'
    BY <1>3, <1>a, <1>b, <1>c, <2>1 DEF SwitchFails, Consume, NoRequest, GiveUpSwitch, Unclaim,
       End, Ended, NoCall, CaughtUp, SidecarBehind, GoesOn, ServedInOrder, LatestServed,
       LatestSent, Selected, LatestCancels, TypeOK, CallRecord, RequestRecord
  <2> QED
    BY <2>2, <2>3, <2>4, <2>5 DEF SplitInv
<1>4. ASSUME NEW c \in Calls, SwitchTimesOut(c) PROVE SplitInv'
  <2>1. GoesOn(c)
    BY <1>4, <1>a, CallGoesOn DEF CallMoves, CallStep
  <2>2. ServedInOrder'
    BY <1>4, <1>a, <1>b DEF SwitchTimesOut, GiveUpSwitch, Unclaim, End, Ended, NoCall,
       ServedInOrder, Numbered, TypeOK, CallRecord, RequestRecord
  <2>3. LatestServed'
    BY <1>4, <1>a, <1>b, <1>c, <2>1 DEF SwitchTimesOut, GiveUpSwitch, Unclaim, End, Ended, NoCall,
       LatestServed, GoesOn, TypeOK, CallRecord, RequestRecord
  <2>4. Selected'
    BY <1>4, <1>a, <1>b, <1>c, <2>1 DEF SwitchTimesOut, GiveUpSwitch, Unclaim, End, Ended, NoCall,
       Selected, GoesOn, TypeOK, CallRecord, RequestRecord
  <2>5. CaughtUp'
    BY <1>4, <1>a, <1>b, <1>c, <2>1 DEF SwitchTimesOut, GiveUpSwitch, Unclaim, End, Ended, NoCall,
       CaughtUp, SidecarBehind, GoesOn, ServedInOrder, LatestServed, LatestSent, Selected,
       LatestCancels, TypeOK, CallRecord, RequestRecord
  <2> QED
    BY <2>2, <2>3, <2>4, <2>5 DEF SplitInv
<1>5. ASSUME NEW c \in Calls, RollBack(c) PROVE SplitInv'
  <2>1. GoesOn(c)
    BY <1>5, <1>a, CallGoesOn DEF CallMoves, CallStep
  <2>2. ServedInOrder'
    BY <1>5, <1>a, <1>b DEF RollBack, ListingFailed, Send, PreviousContext, ServedInOrder,
       Numbered, TypeOK, CallRecord, RequestRecord
  <2>3. LatestServed'
    BY <1>5, <1>a, <1>b, <1>c, <2>1 DEF RollBack, ListingFailed, Send, PreviousContext,
       LatestServed, GoesOn, TypeOK, CallRecord, RequestRecord
  <2>4. Selected'
    BY <1>5, <1>a, <1>b, <1>c, <2>1 DEF RollBack, ListingFailed, Send, PreviousContext, Selected,
       GoesOn, TypeOK, CallRecord, RequestRecord
  <2>5. CaughtUp'
    BY <1>5, <1>a, <1>b, <1>c, <2>1 DEF RollBack, ListingFailed, Send, PreviousContext, CaughtUp,
       SidecarBehind, GoesOn, ServedInOrder, LatestServed, LatestSent, Selected, LatestCancels,
       TypeOK, CallRecord, RequestRecord
  <2> QED
    BY <2>2, <2>3, <2>4, <2>5 DEF SplitInv
<1>6. ASSUME NEW c \in Calls, FinishRollback(c) PROVE SplitInv'
  <2>1. GoesOn(c)
    BY <1>6, <1>a, CallGoesOn DEF CallMoves, CallStep
  <2>2. ServedInOrder'
    BY <1>6, <1>a, <1>b DEF FinishRollback, Consume, NoRequest, PreviousContext, End, Ended,
       NoCall, ServedInOrder, Numbered, TypeOK, CallRecord, RequestRecord
  <2>3. LatestServed'
    BY <1>6, <1>a, <1>b, <1>c, <2>1 DEF FinishRollback, Consume, NoRequest, PreviousContext, End,
       Ended, NoCall, LatestServed, GoesOn, TypeOK, CallRecord, RequestRecord
  <2>4. Selected'
    <3>1. SUFFICES ASSUME causes' = {}, NEW b \in Calls, Latest(b)', Running(b)'
                   PROVE  FALSE
      BY DEF Selected
    <3>2. Latest(c) /\ Running(c) /\ ~Running(c)'
      BY <1>6, <3>1 DEF FinishRollback, End, Ended, NoCall, TypeOK
    <3>3. b # c /\ Latest(b) /\ Running(b)
      BY <2>1, <3>1, <3>2 DEF GoesOn
    <3> QED
      BY <1>c, <3>2, <3>3
  <2>5. ASSUME Latest(c) PROVE CaughtUp'
    <3>1. causes' = {} => /\ causes = {} /\ request[c].state = "ok"
                         /\ selectedContext' = call[c].previous
      BY <1>6 DEF FinishRollback, PreviousContext
    <3>2. causes' = {} => latestServed = sent /\ sidecarContext = call[c].previous
      BY <1>6, <1>a, <1>b, <2>5, <3>1 DEF FinishRollback, LatestSent, LatestServed, ServedInOrder
    <3> QED
      BY <1>6, <3>1, <3>2 DEF FinishRollback, CaughtUp
  <2>6. ASSUME ~Latest(c) PROVE CaughtUp'
    BY <1>6, <2>6 DEF FinishRollback, CaughtUp
  <2>7. CaughtUp'
    BY <2>5, <2>6
  <2> QED
    BY <2>2, <2>3, <2>4, <2>7 DEF SplitInv
<1>7. ASSUME NEW c \in Calls, CarryOut(c) PROVE SplitInv'
  <2>1. ServedInOrder'
    BY <1>7, <1>a, <1>b DEF CarryOut, ServedInOrder, Numbered, TypeOK, CallRecord, RequestRecord
  <2>2. LatestServed'
    BY <1>7, <1>a, <1>b, <1>c DEF CarryOut, LatestServed, LatestSent, Numbered, TypeOK,
       CallRecord, RequestRecord
  <2>3. Selected'
    BY <1>7, <1>b DEF CarryOut, Selected
  <2>4. CaughtUp'
    <3>1. SUFFICES ASSUME causes' = {}, ~SidecarBehind'
                   PROVE  latestServed' = sent /\ sidecarContext' = selectedContext
      BY <1>7 DEF CarryOut, CaughtUp
    <3>2. causes = {} /\ ~SidecarBehind /\ ~(request[c].n < latestServed)
      BY <1>7, <3>1 DEF CarryOut, SidecarBehind
    <3>3. latestServed = sent /\ sidecarContext = selectedContext
      BY <1>b, <3>2 DEF CaughtUp
    <3>4. Pending(c) /\ request[c].n \in 1 .. sent
      BY <1>7, <1>a DEF CarryOut, Numbered
    <3>5. request[c].n = latestServed
      BY <3>2, <3>3, <3>4 DEF TypeOK
    <3> QED
      BY <1>7, <1>b, <3>2, <3>3, <3>4, <3>5 DEF CarryOut, ServedInOrder
  <2> QED
    BY <2>1, <2>2, <2>3, <2>4 DEF SplitInv
<1>8. ASSUME NEW c \in Calls, Refuse(c) PROVE SplitInv'
  <2>1. ServedInOrder'
    BY <1>8, <1>a, <1>b DEF Refuse, ServedInOrder, Numbered, TypeOK, CallRecord, RequestRecord
  <2>2. LatestServed'
    BY <1>8, <1>a, <1>b, <1>c DEF Refuse, LatestServed, LatestSent, Numbered, TypeOK, CallRecord,
       RequestRecord
  <2>3. Selected'
    BY <1>8, <1>b DEF Refuse, Selected
  <2>4. CaughtUp'
    BY <1>8, <1>a, <1>b DEF Refuse, CaughtUp, SidecarBehind, ServedInOrder, Numbered, TypeOK,
       CallRecord, RequestRecord
  <2> QED
    BY <2>1, <2>2, <2>3, <2>4 DEF SplitInv
<1>9. ASSUME NEW c \in Calls, SendAgain(c) PROVE SplitInv'
  <2>1. ServedInOrder'
    BY <1>9, <1>a, <1>b DEF SendAgain, ServedInOrder, Numbered, TypeOK, CallRecord, RequestRecord
  <2>2. LatestServed'
    BY <1>9, <1>a, <1>b, <1>c DEF SendAgain, LatestServed, LatestSent, Numbered, TypeOK,
       CallRecord, RequestRecord
  <2>3. Selected'
    BY <1>9, <1>b DEF SendAgain, Selected
  <2>4. CaughtUp'
    BY <1>9, <1>a, <1>b DEF SendAgain, CaughtUp, SidecarBehind, ServedInOrder, Numbered, TypeOK,
       CallRecord, RequestRecord
  <2> QED
    BY <2>1, <2>2, <2>3, <2>4 DEF SplitInv
<1>10. ASSUME NEW c \in Calls, DropAnswer(c) PROVE SplitInv'
  <2>1. ServedInOrder'
    BY <1>10, <1>a, <1>b DEF DropAnswer, Consume, NoRequest, ServedInOrder, Numbered, TypeOK,
       CallRecord, RequestRecord
  <2>2. LatestServed'
    BY <1>10, <1>a, <1>b, <1>c DEF DropAnswer, Consume, NoRequest, LatestServed, LatestSent,
       Numbered, TypeOK, CallRecord, RequestRecord
  <2>3. Selected'
    BY <1>10, <1>b DEF DropAnswer, Consume, NoRequest, Selected
  <2>4. CaughtUp'
    BY <1>10, <1>a, <1>b DEF DropAnswer, Consume, NoRequest, CaughtUp, SidecarBehind,
       ServedInOrder, Numbered, TypeOK, CallRecord, RequestRecord
  <2> QED
    BY <2>1, <2>2, <2>3, <2>4 DEF SplitInv
<1>11. ASSUME NEW c \in Calls, NEW name \in Contexts, BeginSwitch(c, name) PROVE SplitInv'
  <2>1. Begins(c)
    BY <1>11, CallBegins
  <2>2. \A b \in Calls : Latest(b)' /\ Running(b)' => b = c
    BY <1>a, <2>1 DEF Begins, Ordered, TypeOK
  <2>3. call'[c].pc = "cancelling" /\ call'[c].name = name /\ selectedContext' = name /\ Latest(c)'
    BY <1>11, <2>1 DEF BeginSwitch, NoCall, Begins, TypeOK
  <2>4. ServedInOrder'
    BY <1>11, <1>b DEF BeginSwitch, Quiet, ServedInOrder
  <2>5. LatestServed' /\ Selected'
    BY <2>2, <2>3 DEF LatestServed, Selected
  <2>6. CaughtUp'
    BY <2>3 DEF CaughtUp, SidecarBehind
  <2> QED
    BY <2>4, <2>5, <2>6 DEF SplitInv
<1>12. ASSUME NEW c \in Calls, StopWaiting(c) PROVE SplitInv'
  <2>1. GoesOn(c)
    BY <1>12, <1>a, CallGoesOn DEF CallMoves, CallStep
  <2>2. /\ UNCHANGED storeVars
        /\ call[c].pc \notin {"cancelling", "switching", "rollback"}
        /\ call'[c].pc \notin {"cancelling", "switching", "rollback"}
    BY <1>12 DEF StopWaiting, End, Ended, NoCall, storeVars, TypeOK, CallRecord
  <2> QED
    BY <2>1, <2>2, SplitByMove
<1>13. ASSUME NEW c \in Calls, ListingSucceeds(c) PROVE SplitInv'
  <2>1. GoesOn(c)
    BY <1>13, <1>a, CallGoesOn DEF CallMoves, CallStep
  <2>2. /\ UNCHANGED storeVars
        /\ call[c].pc \notin {"cancelling", "switching", "rollback"}
        /\ call'[c].pc \notin {"cancelling", "switching", "rollback"}
    BY <1>13 DEF ListingSucceeds, End, Ended, NoCall, storeVars, TypeOK, CallRecord
  <2> QED
    BY <2>1, <2>2, SplitByMove
<1>14. ASSUME NEW c \in Calls, Superseded(c) PROVE SplitInv'
  <2>1. GoesOn(c)
    BY <1>14, <1>a, CallGoesOn DEF CallMoves, CallStep
  <2>2. /\ UNCHANGED storeVars
        /\ call[c].pc \notin {"cancelling", "switching", "rollback"}
        /\ call'[c].pc \notin {"cancelling", "switching", "rollback"}
    BY <1>14 DEF Superseded, End, Ended, NoCall, storeVars, TypeOK, CallRecord
  <2> QED
    BY <2>1, <2>2, SplitByMove
<1>15. ASSUME NEW c \in Calls, FinishSwitch(c) PROVE SplitInv'
  <2>1. GoesOn(c)
    BY <1>15, <1>a, CallGoesOn DEF CallMoves, CallStep
  <2>2. /\ UNCHANGED storeVars
        /\ call[c].pc \notin {"cancelling", "switching", "rollback"}
        /\ call'[c].pc \notin {"cancelling", "switching", "rollback"}
    BY <1>15 DEF FinishSwitch, End, Ended, NoCall, storeVars, TypeOK, CallRecord
  <2> QED
    BY <2>1, <2>2, SplitByMove
<1>16. ASSUME NEW c \in Calls, ServeNamespaces(c) PROVE SplitInv'
  <2>1. GoesOn(c)
    BY <1>16, <1>a, CallGoesOn DEF CallMoves, CallStep
  <2>2. /\ UNCHANGED storeVars
        /\ call[c].pc \notin {"cancelling", "switching", "rollback"}
        /\ call'[c].pc \notin {"cancelling", "switching", "rollback"}
    BY <1>16 DEF ServeNamespaces, storeVars, TypeOK, CallRecord
  <2> QED
    BY <2>1, <2>2, SplitByMove
<1>17. ASSUME NEW c \in Calls, NEW name \in Contexts, JoinSwitch(c, name) PROVE SplitInv'
  <2>1. GoesOn(c)
    BY <1>17, <1>a, CallGoesOn DEF CallMoves, CallStep
  <2>2. /\ UNCHANGED storeVars
        /\ call[c].pc \notin {"cancelling", "switching", "rollback"}
        /\ call'[c].pc \notin {"cancelling", "switching", "rollback"}
    BY <1>17 DEF JoinSwitch, Unmade, End, Ended, NoCall, storeVars, TypeOK, CallRecord
  <2> QED
    BY <2>1, <2>2, SplitByMove
<1>18. ASSUME UNCHANGED <<storeVars, call, contextSwitchSeq>> PROVE SplitInv'
  BY <1>18, <1>b DEF storeVars, SplitInv, ServedInOrder, LatestServed, Selected, CaughtUp,
     SidecarBehind
<1>19. ASSUME NEW l \in Fetchers, FetchStep(l) PROVE UNCHANGED <<storeVars, call, contextSwitchSeq>>
  BY <1>19 DEF FetchStep, ServeFetch, FetchFails, DiscardFetch, CommitFetch, EndFetch, storeVars
<1>20. ASSUME NEW l \in Viewers, LoadSection(l) \/ Refresh(l)
       PROVE  UNCHANGED <<storeVars, call, contextSwitchSeq>>
  BY <1>20 DEF LoadSection, Refresh, storeVars
<1>21. GrowStale \/ UNCHANGED vars => UNCHANGED <<storeVars, call, contextSwitchSeq>>
  BY DEF GrowStale, vars, storeVars
<1> HIDE DEF Latest, Running, InSwitch, Pending
<1> QED
  BY <1>1, <1>2, <1>3, <1>4, <1>5, <1>6, <1>7, <1>8, <1>9, <1>10, <1>11, <1>12, <1>13, <1>14,
     <1>15, <1>16, <1>17, <1>18, <1>19, <1>20, <1>21 DEF Next, UserStep, CallStep, SidecarStep

-----------------------------------------------------------------------------
(* The lists on display.                                                   *)

labelVars == <<selectedContext, namespaces, resources, fetch>>

\* A call moves, and neither a list nor the selection does.
LEMMA LabelByMove ==
  ASSUME LabelInv, NEW c \in Calls, GoesOn(c), UNCHANGED labelVars, causes \subseteq causes',
         InSwitch(c)' => call'[c].of = Nil,
         causes = {} /\ Latest(c) /\ call'[c].pc = "listing" =>
            call'[c].of \in {Nil, selectedContext}
  PROVE  LabelInv'
<1> USE DEF labelVars, Latest, Running, InSwitch
<1>1. RestoresHonest'
  BY DEF LabelInv, RestoresHonest, Honest, GoesOn
<1>2. ListingHonest'
  BY DEF LabelInv, ListingHonest, GoesOn
<1>3. AskedForSelected'
  BY DEF LabelInv, AskedForSelected, GoesOn
<1>4. FetchHonest'
  BY DEF LabelInv, FetchHonest, GoesOn
<1>5. ListsHonest'
  BY DEF LabelInv, ListsHonest, Honest
<1> QED
  BY <1>1, <1>2, <1>3, <1>4, <1>5 DEF LabelInv

\* One fetch moves, and no call does.
LEMMA LabelByFetch ==
  ASSUME LabelInv, NEW l \in Fetchers, NEW f, fetch' = [fetch EXCEPT ![l] = f],
         fetch \in [Fetchers -> FetchRecord],
         UNCHANGED <<selectedContext, namespaces, causes, contextSwitchSeq, call>>,
         f.seq <= contextSwitchSeq, ListsHonest',
         causes = {} /\ f.pc # "idle" /\ f.seq = contextSwitchSeq =>
            \A c \in Calls : Latest(c) /\ Running(c) => f.ctx = selectedContext,
         causes = {} /\ f.pc = "served" /\ ~f.early /\ f.seq = contextSwitchSeq
            /\ f.ctx = selectedContext => f.of = selectedContext
  PROVE  LabelInv'
<1> USE DEF Latest, Running, InSwitch
<1>1. RestoresHonest' /\ ListingHonest'
  BY DEF LabelInv, RestoresHonest, Honest, ListingHonest
<1>2. AskedForSelected'
  BY DEF LabelInv, AskedForSelected
<1>3. FetchHonest'
  BY DEF LabelInv, FetchHonest
<1> QED
  BY <1>1, <1>2, <1>3 DEF LabelInv

\* Every step keeps the lists honest.
LEMMA LabelOn ==
  ASSUME TypeOK, CallInv, SplitInv, LabelInv, [Next]_vars
  PROVE  LabelInv'
<1> USE ConstantsAssumption DEF claimVars, shownVars, sectionVars, sidecarVars
<1>a. Ordered /\ Named /\ SentInOrder /\ Numbered /\ LatestSent
  BY DEF CallInv
<1>b. RestoresHonest /\ ListingHonest /\ AskedForSelected /\ FetchHonest /\ ListsHonest
  BY DEF LabelInv
<1>c. ASSUME NEW c \in Calls, Running(c), Latest(c)
      PROVE  \A b \in Calls : Running(b) /\ Latest(b) => b = c
  BY <1>a, <1>c, OneLatest
<1>d. causes = {} /\ ~SidecarBehind => sidecarContext = selectedContext
  BY DEF SplitInv, CaughtUp
<1>1. ASSUME NEW c \in Calls, StopWaiting(c) PROVE LabelInv'
  <2>1. GoesOn(c)
    BY <1>1, <1>a, CallGoesOn DEF CallMoves, CallStep
  <2>2. UNCHANGED labelVars /\ causes \subseteq causes'
    BY <1>1 DEF StopWaiting, End, Ended, NoCall, labelVars
  <2>3. /\ InSwitch(c)' => call'[c].of = Nil
        /\ call'[c].pc = "listing" => call'[c].of = Nil
    BY <1>1, <1>b DEF StopWaiting, End, Ended, NoCall, ListingHonest, InSwitch, TypeOK, CallRecord
  <2> QED
    BY <2>1, <2>2, <2>3, LabelByMove
<1>2. ASSUME NEW c \in Calls, SendSwitch(c) PROVE LabelInv'
  <2>1. GoesOn(c)
    BY <1>2, <1>a, CallGoesOn DEF CallMoves, CallStep
  <2>2. UNCHANGED labelVars /\ causes \subseteq causes'
    BY <1>2 DEF SendSwitch, Send, labelVars
  <2>3. /\ InSwitch(c)' => call'[c].of = Nil
        /\ call'[c].pc = "listing" => call'[c].of = Nil
    BY <1>2, <1>b DEF SendSwitch, Send, ListingHonest, InSwitch, TypeOK, CallRecord
  <2> QED
    BY <2>1, <2>2, <2>3, LabelByMove
<1>3. ASSUME NEW c \in Calls, SwitchSucceeds(c) PROVE LabelInv'
  <2>1. GoesOn(c)
    BY <1>3, <1>a, CallGoesOn DEF CallMoves, CallStep
  <2>2. UNCHANGED labelVars /\ causes \subseteq causes'
    BY <1>3 DEF SwitchSucceeds, End, Ended, NoCall, labelVars
  <2>3. /\ InSwitch(c)' => call'[c].of = Nil
        /\ call'[c].pc = "listing" => call'[c].of = Nil
    BY <1>3, <1>b DEF SwitchSucceeds, End, Ended, NoCall, ListingHonest, InSwitch, TypeOK,
       CallRecord
  <2> QED
    BY <2>1, <2>2, <2>3, LabelByMove
<1>4. ASSUME NEW c \in Calls, SwitchFails(c) PROVE LabelInv'
  <2>1. GoesOn(c)
    BY <1>4, <1>a, CallGoesOn DEF CallMoves, CallStep
  <2>2. UNCHANGED labelVars /\ causes \subseteq causes'
    BY <1>4 DEF SwitchFails, GiveUpSwitch, End, Ended, NoCall, labelVars
  <2>3. /\ InSwitch(c)' => call'[c].of = Nil
        /\ call'[c].pc = "listing" => call'[c].of = Nil
    BY <1>4, <1>b DEF SwitchFails, GiveUpSwitch, End, Ended, NoCall, ListingHonest, InSwitch,
       TypeOK, CallRecord
  <2> QED
    BY <2>1, <2>2, <2>3, LabelByMove
<1>5. ASSUME NEW c \in Calls, SwitchTimesOut(c) PROVE LabelInv'
  <2>1. GoesOn(c)
    BY <1>5, <1>a, CallGoesOn DEF CallMoves, CallStep
  <2>2. UNCHANGED labelVars /\ causes \subseteq causes'
    BY <1>5 DEF SwitchTimesOut, GiveUpSwitch, End, Ended, NoCall, labelVars
  <2>3. /\ InSwitch(c)' => call'[c].of = Nil
        /\ call'[c].pc = "listing" => call'[c].of = Nil
    BY <1>5, <1>b DEF SwitchTimesOut, GiveUpSwitch, End, Ended, NoCall, ListingHonest, InSwitch,
       TypeOK, CallRecord
  <2> QED
    BY <2>1, <2>2, <2>3, LabelByMove
<1>6. ASSUME NEW c \in Calls, RollBack(c) PROVE LabelInv'
  <2>1. GoesOn(c)
    BY <1>6, <1>a, CallGoesOn DEF CallMoves, CallStep
  <2>2. UNCHANGED labelVars /\ causes \subseteq causes'
    BY <1>6 DEF RollBack, ListingFailed, labelVars
  <2>3. /\ InSwitch(c)' => call'[c].of = Nil
        /\ call'[c].pc = "listing" => call'[c].of = Nil
    BY <1>6, <1>b DEF RollBack, ListingFailed, ListingHonest, InSwitch, TypeOK, CallRecord
  <2> QED
    BY <2>1, <2>2, <2>3, LabelByMove
<1>7. ASSUME NEW c \in Calls, Superseded(c) PROVE LabelInv'
  <2>1. GoesOn(c)
    BY <1>7, <1>a, CallGoesOn DEF CallMoves, CallStep
  <2>2. UNCHANGED labelVars /\ causes \subseteq causes'
    BY <1>7 DEF Superseded, End, Ended, NoCall, labelVars
  <2>3. /\ InSwitch(c)' => call'[c].of = Nil
        /\ call'[c].pc = "listing" => call'[c].of = Nil
    BY <1>7, <1>b DEF Superseded, End, Ended, NoCall, ListingHonest, InSwitch, TypeOK, CallRecord
  <2> QED
    BY <2>1, <2>2, <2>3, LabelByMove
<1>8. ASSUME NEW c \in Calls, FinishSwitch(c) PROVE LabelInv'
  <2>1. GoesOn(c)
    BY <1>8, <1>a, CallGoesOn DEF CallMoves, CallStep
  <2>2. UNCHANGED labelVars /\ causes \subseteq causes'
    BY <1>8 DEF FinishSwitch, End, Ended, NoCall, labelVars
  <2>3. /\ InSwitch(c)' => call'[c].of = Nil
        /\ call'[c].pc = "listing" => call'[c].of = Nil
    BY <1>8, <1>b DEF FinishSwitch, End, Ended, NoCall, ListingHonest, InSwitch, TypeOK, CallRecord
  <2> QED
    BY <2>1, <2>2, <2>3, LabelByMove
<1>9. ASSUME NEW c \in Calls, NEW name \in Contexts, JoinSwitch(c, name) PROVE LabelInv'
  <2>1. GoesOn(c)
    BY <1>9, <1>a, CallGoesOn DEF CallMoves, CallStep
  <2>2. UNCHANGED labelVars /\ causes \subseteq causes'
    BY <1>9 DEF JoinSwitch, Unmade, End, Ended, NoCall, labelVars
  <2>3. /\ InSwitch(c)' => call'[c].of = Nil
        /\ call'[c].pc = "listing" => call'[c].of = Nil
    BY <1>9, <1>b DEF JoinSwitch, Unmade, End, Ended, NoCall, ListingHonest, InSwitch, TypeOK,
       CallRecord
  <2> QED
    BY <2>1, <2>2, <2>3, LabelByMove
<1>10. ASSUME NEW c \in Calls, ServeNamespaces(c) PROVE LabelInv'
  <2>1. GoesOn(c)
    BY <1>10, <1>a, CallGoesOn DEF CallMoves, CallStep
  <2>2. UNCHANGED labelVars /\ causes \subseteq causes'
    BY <1>10 DEF ServeNamespaces, labelVars
  <2>3. causes = {} /\ Latest(c) => sidecarContext = selectedContext
    <3>1. Running(c) /\ ~InSwitch(c) /\ call[c].pc # "rollback"
      BY <1>10 DEF ServeNamespaces, Running, InSwitch
    <3>2. Latest(c) => ~SidecarBehind
      BY <3>1, <1>c DEF SidecarBehind, Running
    <3> QED
      BY <3>2, <1>d
  <2>4. call'[c].pc = "listing" /\ call'[c].of = sidecarContext
    BY <1>10 DEF ServeNamespaces, TypeOK, CallRecord
  <2> QED
    BY <2>1, <2>2, <2>3, <2>4, LabelByMove DEF InSwitch
<1>11. ASSUME NEW c \in Calls, FinishRollback(c) PROVE LabelInv'
  <2>1. GoesOn(c)
    BY <1>11, <1>a, CallGoesOn DEF CallMoves, CallStep
  <2>2. /\ selectedContext' = call[c].previous /\ namespaces' = call[c].restore
        /\ fetch' = fetch /\ ~Running(c)' /\ causes \subseteq causes'
        /\ resources'.of = resources.of /\ (resources'.of # Nil => resources'.doubt)
        /\ Running(c) /\ (causes' = {} => Latest(c))
    BY <1>11 DEF FinishRollback, PreviousContext, End, Ended, NoCall, Running, InSwitch, TypeOK,
       Label
  <2>3. RestoresHonest'
    BY <1>b, <2>1, <2>2 DEF RestoresHonest, Honest, GoesOn, Running, InSwitch
  <2>4. causes' = {} => \A b \in Calls : Latest(b)' => ~Running(b)'
    BY <1>c, <2>1, <2>2 DEF GoesOn, Latest, Running, InSwitch
  <2>5. ListingHonest'
    BY <1>b, <2>1, <2>2, <2>4 DEF ListingHonest, GoesOn, Running, InSwitch
  <2>6. AskedForSelected'
    BY <1>b, <2>1, <2>2, <2>4 DEF AskedForSelected, GoesOn
  <2>7. FetchHonest'
    BY <1>b, <2>1, <2>2 DEF FetchHonest, AskedForSelected, GoesOn
  <2>8. ListsHonest'
    BY <1>b, <2>2 DEF ListsHonest, RestoresHonest, Honest
  <2> QED
    BY <2>3, <2>5, <2>6, <2>7, <2>8 DEF LabelInv
<1>12. ASSUME NEW c \in Calls, ListingSucceeds(c) PROVE LabelInv'
  <2>1. GoesOn(c)
    BY <1>12, <1>a, CallGoesOn DEF CallMoves, CallStep
  <2>2. /\ UNCHANGED <<selectedContext, resources, causes>>
        /\ Running(c) /\ Latest(c) /\ call[c].pc = "listing"
        /\ call'[c].pc \in {"loading", "done"}
    BY <1>12 DEF ListingSucceeds, End, Ended, NoCall, Running, TypeOK, CallRecord
  <2>3. RestoresHonest' /\ ListingHonest'
    BY <1>b, <2>1, <2>2 DEF RestoresHonest, Honest, ListingHonest, GoesOn, InSwitch, Running, Latest
  <2>4. fetch' = fetch \/ fetch' = [fetch EXCEPT ![c] =
           [pc |-> "sent", ctx |-> selectedContext, seq |-> contextSwitchSeq,
            early |-> FALSE, of |-> Nil]]
    BY <1>12 DEF ListingSucceeds, SendFetch
  <2>5. AskedForSelected'
    BY <1>b, <2>1, <2>2, <2>4 DEF AskedForSelected, GoesOn, Running, InSwitch, Latest, TypeOK
  <2>6. FetchHonest'
    BY <1>b, <2>1, <2>2, <2>4 DEF FetchHonest, GoesOn, TypeOK
  <2>7. Honest(namespaces, selectedContext)'
    <3>1. CASE namespaces' = Blank
      BY <3>1 DEF Honest, Blank
    <3>2. CASE namespaces' = [of |-> call[c].of, doubt |-> causes # {}]
      BY <1>b, <2>2, <3>2 DEF Honest, ListingHonest
    <3> QED
      BY <1>12, <3>1, <3>2 DEF ListingSucceeds
  <2> QED
    BY <1>b, <2>2, <2>3, <2>5, <2>6, <2>7 DEF LabelInv, ListsHonest, Honest
<1>13. ASSUME NEW c \in Calls, NEW name \in Contexts, BeginSwitch(c, name) PROVE LabelInv'
  <2>1. Begins(c)
    BY <1>13, CallBegins
  <2>2. /\ namespaces' = Blank /\ resources' = Blank /\ fetch' = fetch
        /\ call'[c].restore = namespaces /\ call'[c].previous = selectedContext
        /\ call'[c].of = Nil
    BY <1>13 DEF BeginSwitch, NoCall, TypeOK
  <2>3. RestoresHonest'
    BY <1>b, <2>1, <2>2 DEF RestoresHonest, ListsHonest, Honest, Begins, Running, InSwitch
  <2>4. \A b \in Calls : Latest(b)' /\ Running(b)' => b = c
    BY <1>a, <2>1 DEF Begins, Ordered, TypeOK, Latest, Running, InSwitch
  <2>5. ListingHonest'
    BY <1>b, <2>1, <2>2, <2>4 DEF ListingHonest, Begins, Running, InSwitch
  <2>6. \A l \in Fetchers : fetch'[l].seq < contextSwitchSeq'
    BY <1>b, <2>1, <2>2 DEF AskedForSelected, Begins, TypeOK, FetchRecord
  <2>7. AskedForSelected' /\ FetchHonest'
    BY <2>6, <2>1, <2>2 DEF AskedForSelected, FetchHonest, Begins, TypeOK, FetchRecord
  <2>8. ListsHonest'
    BY <2>2 DEF ListsHonest, Honest, Blank
  <2> QED
    BY <2>3, <2>5, <2>7, <2>8 DEF LabelInv
<1>14. ASSUME NEW l \in Viewers, LoadSection(l) \/ Refresh(l) PROVE LabelInv'
  <2> DEFINE f == [pc |-> "sent", ctx |-> selectedContext, seq |-> contextSwitchSeq,
                   early |-> FALSE, of |-> Nil]
  <2>1. /\ l \in Fetchers /\ fetch' = [fetch EXCEPT ![l] = f]
        /\ UNCHANGED <<selectedContext, namespaces, causes, contextSwitchSeq, call>>
    BY <1>14 DEF LoadSection, Refresh, SendFetch, Fetchers
  <2>2. ListsHonest'
    BY <1>14, <1>b DEF LoadSection, Refresh, ListsHonest, Honest
  <2>3. f.pc = "sent" /\ f.seq <= contextSwitchSeq /\ f.ctx = selectedContext
    BY DEF TypeOK
  <2> HIDE DEF f
  <2> QED
    BY <2>1, <2>2, <2>3, LabelByFetch DEF TypeOK
<1>15. ASSUME NEW l \in Fetchers, ServeFetch(l) PROVE LabelInv'
  <2> DEFINE f == [fetch[l] EXCEPT !.pc = "served", !.of = sidecarContext, !.early = SidecarBehind]
  <2>1. /\ fetch' = [fetch EXCEPT ![l] = f] /\ fetch[l].pc = "sent"
        /\ UNCHANGED <<selectedContext, namespaces, causes, contextSwitchSeq, call>>
    BY <1>15 DEF ServeFetch, TypeOK
  <2>2. f.seq = fetch[l].seq /\ f.ctx = fetch[l].ctx /\ f.of = sidecarContext /\ f.pc = "served"
    BY DEF TypeOK, FetchRecord
  <2>3. f.early = SidecarBehind
    BY DEF TypeOK, FetchRecord
  <2>4. ListsHonest'
    BY <1>15, <1>b DEF ServeFetch, ListsHonest, Honest
  <2>5. f.seq <= contextSwitchSeq
    BY <1>b, <2>2 DEF AskedForSelected
  <2>6. causes = {} /\ f.seq = contextSwitchSeq =>
          \A c \in Calls : Latest(c) /\ Running(c) => f.ctx = selectedContext
    BY <1>b, <2>1, <2>2 DEF AskedForSelected
  <2>7. causes = {} /\ ~f.early => f.of = selectedContext
    BY <1>d, <2>2, <2>3
  <2> HIDE DEF f
  <2> QED
    BY <2>1, <2>4, <2>5, <2>6, <2>7, LabelByFetch DEF TypeOK
<1>16. ASSUME NEW l \in Fetchers, FetchFails(l) \/ DiscardFetch(l) \/ CommitFetch(l) PROVE LabelInv'
  <2>1. /\ fetch' = [fetch EXCEPT ![l] = NoFetch]
        /\ UNCHANGED <<selectedContext, namespaces, causes, contextSwitchSeq, call>>
    BY <1>16 DEF FetchFails, DiscardFetch, CommitFetch, EndFetch
  <2>2. Honest(resources, selectedContext)'
    <3>1. CASE resources' = resources \/ resources' = Blank
      BY <1>b, <2>1, <3>1 DEF ListsHonest, Honest, Blank
    <3>2. CASE /\ resources' = [of |-> fetch[l].of, doubt |-> Doubtful(l)]
               /\ fetch[l].pc = "served" /\ StillSelected(l)
      <4>1. ~Doubtful(l) => fetch[l].of = selectedContext
        BY <1>b, <3>2 DEF Doubtful, StillSelected, FetchHonest
      <4> QED
        BY <2>1, <3>2, <4>1 DEF Honest
    <3> QED
      BY <1>16, <3>1, <3>2 DEF FetchFails, DiscardFetch, CommitFetch
  <2>3. ListsHonest'
    BY <1>b, <2>1, <2>2 DEF ListsHonest, Honest
  <2>4. NoFetch.pc = "idle" /\ NoFetch.seq <= contextSwitchSeq
    BY DEF NoFetch, TypeOK
  <2> HIDE DEF NoFetch
  <2> QED
    BY <2>1, <2>3, <2>4, LabelByFetch DEF TypeOK
<1>17. ASSUME UNCHANGED <<labelVars, call, contextSwitchSeq>>, causes \subseteq causes'
       PROVE  LabelInv'
  BY <1>17, <1>b DEF labelVars, LabelInv, RestoresHonest, ListingHonest, AskedForSelected,
     FetchHonest, ListsHonest, Honest, Latest, Running, InSwitch
<1>18. ASSUME NEW c \in Calls, SidecarStep(c) \/ SendAgain(c) \/ DropAnswer(c)
       PROVE  UNCHANGED <<labelVars, call, contextSwitchSeq>> /\ causes \subseteq causes'
  BY <1>18 DEF SidecarStep, CarryOut, Refuse, SendAgain, DropAnswer, labelVars
<1>19. GrowStale \/ UNCHANGED vars =>
         UNCHANGED <<labelVars, call, contextSwitchSeq>> /\ causes \subseteq causes'
  BY DEF GrowStale, vars, labelVars
<1> QED
  BY <1>1, <1>2, <1>3, <1>4, <1>5, <1>6, <1>7, <1>8, <1>9, <1>10, <1>11, <1>12, <1>13, <1>14,
     <1>15, <1>16, <1>17, <1>18, <1>19 DEF Next, UserStep, CallStep, FetchStep

-----------------------------------------------------------------------------
(* The theorems.                                                           *)

\* What holds in every state a run of the renderer reaches.
RendererInv ==
  /\ TypeOK /\ CallInv /\ LatestCancels /\ BudgetInv
  /\ ClaimsAreLive /\ OverlayFollowsCalls /\ SplitInv /\ LabelInv

\* It holds at first, ...
LEMMA RendererInit == Init => RendererInv
<1> SUFFICES ASSUME Init PROVE RendererInv
  OBVIOUS
<1> USE ConstantsAssumption DEF Init
<1>1. \A c \in Calls : call[c] = NoCall /\ request[c] = NoRequest
  OBVIOUS
<1>2. \A l \in Fetchers : fetch[l] = NoFetch
  OBVIOUS
<1>3. NoCall.pc = "idle" /\ NoRequest.state = "none" /\ NoFetch.pc = "idle" /\ NoFetch.seq = 0
  BY DEF NoCall, NoRequest, NoFetch
<1>4. \A c \in Calls : ~Running(c) /\ ~InSwitch(c) /\ ~Pending(c) /\ call[c].pc = "idle"
  BY <1>1, <1>3 DEF Running, InSwitch, Pending
<1>5. TypeOK
  <2>1. causes \subseteq Causes
    BY DEF Causes
  <2>2. 0 \in 0 .. MaxCalls /\ 0 \in 0 .. 2 * MaxCalls /\ 0 \in 0 .. 0
    OBVIOUS
  <2>3. /\ call \in [Calls -> CallRecord]
        /\ fetch \in [Fetchers -> FetchRecord]
        /\ request \in [Calls -> RequestRecord]
    BY Records
  <2> QED
    BY <2>1, <2>2, <2>3, Records DEF TypeOK
<1>6. CallInv /\ LatestCancels
  BY <1>4 DEF CallInv, LatestCancels, Ordered, Named, SentInOrder, Numbered, LatestSent, Calls
<1>7. BudgetInv
  <2>1. Cardinality(Budget) \in Nat /\ Cardinality(Budget) <= Cardinality(1 .. 2 * MaxCalls)
    BY BudgetShrinks DEF Budget
  <2>2. Cardinality(1 .. 2 * MaxCalls) = 2 * MaxCalls
    <3>1. 2 * MaxCalls \in Nat
      OBVIOUS
    <3> QED
      BY <3>1, FS_Interval
  <2> HIDE DEF Budget
  <2> QED
    BY <2>1, <2>2 DEF BudgetInv
<1>8. ClaimsAreLive /\ OverlayFollowsCalls
  BY DEF ClaimsAreLive, OverlayFollowsCalls
<1>9. SplitInv
  <2>1. causes = {} => sidecarContext = selectedContext
    OBVIOUS
  <2> QED
    BY <1>4, <2>1 DEF SplitInv, ServedInOrder, LatestServed, Selected, CaughtUp
<1>10. LabelInv
  BY <1>2, <1>3, <1>4 DEF LabelInv, RestoresHonest, ListingHonest, AskedForSelected, FetchHonest,
     ListsHonest, Honest, Blank
<1> QED
  BY <1>5, <1>6, <1>7, <1>8, <1>9, <1>10 DEF RendererInv

\* ... every step keeps it ...
LEMMA RendererStep == RendererInv /\ [Next]_vars => RendererInv'
<1> SUFFICES ASSUME RendererInv, [Next]_vars PROVE RendererInv'
  OBVIOUS
<1>1. /\ TypeOK /\ CallInv /\ LatestCancels /\ BudgetInv
      /\ ClaimsAreLive /\ OverlayFollowsCalls /\ SplitInv /\ LabelInv
  BY DEF RendererInv
<1>2. Ordered /\ Named /\ SentInOrder /\ Numbered
  BY <1>1 DEF CallInv
<1>3. BudgetInv' /\ sent' \in 0 .. 2 * MaxCalls
  BY <1>1, <1>2, BudgetOn
<1>4. TypeOK'
  BY <1>1, <1>2, <1>3, TypeStep
<1>5. CallInv'
  BY <1>1, <1>4, CallsOn
<1>6. LatestCancels'
  BY <1>1, <1>2, CancelsOn
<1>7. ClaimsAreLive' /\ OverlayFollowsCalls'
  BY <1>1, <1>2, MarksOn
<1>8. SplitInv'
  BY <1>1, <1>6, SplitOn
<1>9. LabelInv'
  BY <1>1, LabelOn
<1> QED
  BY <1>3, <1>4, <1>5, <1>6, <1>7, <1>8, <1>9 DEF RendererInv

\* ... and so it holds for good.
LEMMA RendererHolds == Spec => []RendererInv
BY RendererInit, RendererStep, PTL DEF Spec

\* The claim on a target, the published promise and the overlay are those of
\* calls that run: no way a call of selectContext can end leaves them behind.
THEOREM SettleHolds == Spec => []CallsSettle
<1>1. RendererInv => CallsSettle
  BY DEF RendererInv, CallsSettle
<1> QED
  BY <1>1, RendererHolds, PTL

\* Whatever calls overlap, time out, fail or roll back: once all is quiet, the
\* store names another context than the sidecar serves only for one of the
\* four causes.
THEOREM SplitHolds == Spec => []SplitExplained
<1>1. RendererInv => SplitExplained
  BY DEF RendererInv, SplitInv, CaughtUp, SidecarBehind, InSwitch, SplitExplained, Quiet, Running
<1> QED
  BY <1>1, RendererHolds, PTL

\* No list of another context is on display without a doubt: the check after
\* the fetch of loadSection, the resets of a switch and the list a rollback
\* puts back are enough, for any number of panels and calls.
THEOREM LabelHolds == Spec => []MislabelExplained
<1>1. RendererInv => MislabelExplained
  BY DEF RendererInv, LabelInv, ListsHonest, Honest, MislabelExplained
<1> QED
  BY <1>1, RendererHolds, PTL
=============================================================================
