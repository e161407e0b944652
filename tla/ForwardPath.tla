----------------------------- MODULE ForwardPath -----------------------------
(***************************************************************************)
(* The way of a port forward from its row in the renderer (operationSlice) *)
(* through the main process (ipc/kubectl.ts: the pending stops, the poll   *)
(* every 5 s) to the sidecar's manager, and back by events.                *)
(*                                                                         *)
(* Start and stop are HTTP requests on connections of their own, so that   *)
(* the sidecar may take them in either order, and both are GETs, which     *)
(* sidecarFetch sends again after a reset connection.  The manager is here *)
(* what PortForward makes of it for one id: an entry that opens, is up and *)
(* goes away.                                                              *)
(***************************************************************************)
EXTENDS Naturals, Sequences

CONSTANTS Forwards,      \* ids; the renderer draws a fresh one per row
          MaxStopAlls    \* context switches (a bound)

ASSUME ForwardAssumption == MaxStopAlls \in Nat

VARIABLES
  row,      \* the renderer's entry: "none", "starting", "active", "error", "gone"
  heard,    \* rows whose three listeners are registered
  asked,    \* IPC to the main process: "start", "stop"
  pend,     \* pendingStops
  timer,    \* forwardAliveTimers
  events,   \* on their way to the renderer
  request,  \* the start the main process awaits: "none", "sent", "waiting" (in
            \* StartForward), "ok", "refused" (answered), "done"
  resent,   \* starts whose connection was reset, and which were sent again
  stopping, \* the stop: "none", "sent", "done"
  poll,     \* the alive request: "none", "sent", "alive", "dead"
  entry,    \* the manager's entry: "none", "opening", "up"
  stopAlls,
  overtaken \* history: forwards whose stop reached the manager before their start

fwdVars == <<row, heard, asked, pend, timer, events, request, resent, stopping, poll, entry,
             stopAlls, overtaken>>

FwdTypeOK ==
  /\ row \in [Forwards -> {"none", "starting", "active", "error", "gone"}]
  /\ heard \subseteq Forwards
  /\ asked \in [Forwards -> SUBSET {"start", "stop"}]
  /\ pend \subseteq Forwards /\ timer \subseteq Forwards
  /\ events \in [Forwards -> Seq({"ready", "error", "exit"})]
  /\ \A f \in Forwards : Len(events[f]) <= 2
  /\ request \in [Forwards -> {"none", "sent", "waiting", "ok", "refused", "done"}]
  /\ resent \subseteq Forwards /\ overtaken \subseteq Forwards
  /\ stopping \in [Forwards -> {"none", "sent", "done"}]
  /\ poll \in [Forwards -> {"none", "sent", "alive", "dead"}]
  /\ entry \in [Forwards -> {"none", "opening", "up"}]
  /\ stopAlls \in 0..MaxStopAlls

FwdInit ==
  /\ row = [f \in Forwards |-> "none"]
  /\ heard = {}
  /\ asked = [f \in Forwards |-> {}]
  /\ pend = {} /\ timer = {}
  /\ events = [f \in Forwards |-> <<>>]
  /\ request = [f \in Forwards |-> "none"]
  /\ resent = {} /\ overtaken = {}
  /\ stopping = [f \in Forwards |-> "none"]
  /\ poll = [f \in Forwards |-> "none"]
  /\ entry = [f \in Forwards |-> "none"]
  /\ stopAlls = 0

Send(f, e) == events' = [events EXCEPT ![f] = Append(@, e)]

--------------------------------------------------------------------------
(* The renderer                                                            *)

StartPortForward(f) ==
  /\ row[f] = "none"
  /\ row' = [row EXCEPT ![f] = "starting"]
  /\ heard' = heard \cup {f}
  /\ asked' = [asked EXCEPT ![f] = @ \cup {"start"}]
  /\ UNCHANGED <<pend, timer, events, request, resent, stopping, poll, entry, stopAlls, overtaken>>

\* Also what stopAllPortForwards does with each row it has listeners for.
StopPortForward(f) ==
  /\ row[f] \in {"starting", "active", "error"}
  /\ row' = [row EXCEPT ![f] = "gone"]
  /\ heard' = heard \ {f}
  /\ asked' = [asked EXCEPT ![f] = @ \cup {"stop"}]
  /\ UNCHANGED <<pend, timer, events, request, resent, stopping, poll, entry, stopAlls, overtaken>>

\* An error or an exit takes the listeners away.
HearEvent(f) ==
  /\ events[f] # <<>>
  /\ events' = [events EXCEPT ![f] = Tail(@)]
  /\ LET e == Head(events[f])
     IN  IF f \notin heard
         THEN UNCHANGED <<row, heard>>
         ELSE /\ row' = [row EXCEPT ![f] = CASE e = "ready" -> "active"
                                             [] e = "error" -> "error"
                                             [] e = "exit"  -> "gone"]
              /\ heard' = IF e = "ready" THEN heard ELSE heard \ {f}
  /\ UNCHANGED <<asked, pend, timer, request, resent, stopping, poll, entry, stopAlls, overtaken>>

--------------------------------------------------------------------------
(* The main process                                                        *)

HandleStart(f) ==
  /\ "start" \in asked[f]
  /\ asked' = [asked EXCEPT ![f] = @ \ {"start"}]
  /\ request' = [request EXCEPT ![f] = "sent"]
  /\ UNCHANGED <<row, heard, pend, timer, events, resent, stopping, poll, entry, stopAlls,
                 overtaken>>

\* IPC keeps its order: the stop comes after the start.
HandleStop(f) ==
  /\ asked[f] = {"stop"}
  /\ asked' = [asked EXCEPT ![f] = {}]
  /\ pend' = pend \cup {f}
  /\ timer' = timer \ {f}
  /\ stopping' = [stopping EXCEPT ![f] = "sent"]
  /\ UNCHANGED <<row, heard, events, request, resent, poll, entry, stopAlls, overtaken>>

\* The mark lasts 60 s, longer than a start can wait.
PendExpires(f) ==
  /\ f \in pend /\ request[f] = "done"
  /\ pend' = pend \ {f}
  /\ UNCHANGED <<row, heard, asked, timer, events, request, resent, stopping, poll, entry,
                 stopAlls, overtaken>>

\* Slip: the answer does not look for a stop that came meanwhile.
SlipAnswerOk(f) ==
  /\ request[f] = "ok"
  /\ request' = [request EXCEPT ![f] = "done"]
  /\ timer' = timer \cup {f} /\ Send(f, "ready")
  /\ UNCHANGED <<row, heard, asked, pend, resent, stopping, poll, entry, stopAlls, overtaken>>

AnswerOk(f) ==
  /\ request[f] = "ok"
  /\ request' = [request EXCEPT ![f] = "done"]
  /\ IF f \in pend
     THEN pend' = pend \ {f} /\ UNCHANGED <<timer, events>>
     ELSE timer' = timer \cup {f} /\ Send(f, "ready") /\ UNCHANGED pend
  /\ UNCHANGED <<row, heard, asked, resent, stopping, poll, entry, stopAlls, overtaken>>

AnswerRefused(f) ==
  /\ request[f] = "refused"
  /\ request' = [request EXCEPT ![f] = "done"]
  /\ Send(f, "error")
  /\ UNCHANGED <<row, heard, asked, pend, timer, resent, stopping, poll, entry, stopAlls,
                 overtaken>>

PollAlive(f) ==
  /\ f \in timer /\ poll[f] = "none"
  /\ poll' = [poll EXCEPT ![f] = "sent"]
  /\ UNCHANGED <<row, heard, asked, pend, timer, events, request, resent, stopping, entry,
                 stopAlls, overtaken>>

\* Slip: an answer that the forward is dead only stops the poll.
SlipPollAnswered(f) ==
  /\ poll[f] \in {"alive", "dead"}
  /\ poll' = [poll EXCEPT ![f] = "none"]
  /\ timer' = IF poll[f] = "dead" THEN timer \ {f} ELSE timer
  /\ UNCHANGED <<row, heard, asked, pend, events, request, resent, stopping, entry, stopAlls,
                 overtaken>>

PollAnswered(f) ==
  /\ poll[f] \in {"alive", "dead"}
  /\ poll' = [poll EXCEPT ![f] = "none"]
  /\ IF poll[f] = "dead"
     THEN timer' = timer \ {f} /\ Send(f, "exit")
     ELSE UNCHANGED <<timer, events>>
  /\ UNCHANGED <<row, heard, asked, pend, request, resent, stopping, entry, stopAlls, overtaken>>

--------------------------------------------------------------------------
(* The connection and the sidecar                                          *)

\* The connection of a start is reset: fetch sends it again, at once, and the
\* answer to the first sending is lost.
Resend(f) ==
  /\ request[f] \in {"waiting", "ok", "refused"} /\ f \notin resent
  /\ request' = [request EXCEPT ![f] = "sent"]
  /\ resent' = resent \cup {f}
  /\ UNCHANGED <<row, heard, asked, pend, timer, events, stopping, poll, entry, stopAlls,
                 overtaken>>

\* StartForward refuses an id it has, and anything while a switch is on.
Admit(f) ==
  /\ request[f] = "sent"
  /\ \/ /\ entry[f] = "none"
        /\ entry' = [entry EXCEPT ![f] = "opening"]
        /\ request' = [request EXCEPT ![f] = "waiting"]
        /\ overtaken' = IF stopping[f] = "done" THEN overtaken \cup {f} ELSE overtaken
     \/ /\ request' = [request EXCEPT ![f] = "refused"]
        /\ UNCHANGED <<entry, overtaken>>
  /\ UNCHANGED <<row, heard, asked, pend, timer, events, resent, stopping, poll, stopAlls>>

Answer(f, a) == IF request[f] = "waiting" THEN [request EXCEPT ![f] = a] ELSE request

\* A forward that was told to stop while it dialled still comes up, and ends.
Opens(f) ==
  /\ \/ entry[f] = "opening" /\ entry' = [entry EXCEPT ![f] = "up"]
     \/ entry[f] = "none" /\ request[f] = "waiting" /\ UNCHANGED entry
  /\ request' = Answer(f, "ok")
  /\ UNCHANGED <<row, heard, asked, pend, timer, events, resent, stopping, poll, stopAlls,
                 overtaken>>

\* The dial fails or takes 30 s; the entry goes away.
OpenFails(f) ==
  /\ entry[f] = "opening" \/ request[f] = "waiting"
  /\ entry' = [entry EXCEPT ![f] = "none"]
  /\ request' = Answer(f, "refused")
  /\ UNCHANGED <<row, heard, asked, pend, timer, events, resent, stopping, poll, stopAlls,
                 overtaken>>

StopReaches(f) ==
  /\ stopping[f] = "sent"
  /\ stopping' = [stopping EXCEPT ![f] = "done"]
  /\ entry' = [entry EXCEPT ![f] = "none"]
  /\ UNCHANGED <<row, heard, asked, pend, timer, events, request, resent, poll, stopAlls,
                 overtaken>>

ForwardEnds(f) ==
  /\ entry[f] = "up"
  /\ entry' = [entry EXCEPT ![f] = "none"]
  /\ UNCHANGED <<row, heard, asked, pend, timer, events, request, resent, stopping, poll,
                 stopAlls, overtaken>>

\* A context switch, and the renderer keeps its rows.
StopAllForwards ==
  /\ stopAlls < MaxStopAlls
  /\ stopAlls' = stopAlls + 1
  /\ entry' = [f \in Forwards |-> "none"]
  /\ UNCHANGED <<row, heard, asked, pend, timer, events, request, resent, stopping, poll,
                 overtaken>>

AnswerPoll(f) ==
  /\ poll[f] = "sent"
  /\ poll' = [poll EXCEPT ![f] = IF entry[f] = "none" THEN "dead" ELSE "alive"]
  /\ UNCHANGED <<row, heard, asked, pend, timer, events, request, resent, stopping, entry,
                 stopAlls, overtaken>>

FwdNext ==
  \/ \E f \in Forwards :
       \/ StartPortForward(f) \/ StopPortForward(f) \/ HearEvent(f)
       \/ HandleStart(f) \/ HandleStop(f) \/ PendExpires(f)
       \/ AnswerOk(f) \/ AnswerRefused(f) \/ PollAlive(f) \/ PollAnswered(f)
       \/ Resend(f) \/ Admit(f) \/ Opens(f) \/ OpenFails(f) \/ StopReaches(f)
       \/ ForwardEnds(f) \/ AnswerPoll(f)
  \/ StopAllForwards

\* Events are heard, messages handled, the interval fires, the sidecar answers:
\* StartForward has its own timer of 30 s.
FwdFairness ==
  \A f \in Forwards :
     /\ WF_fwdVars(HearEvent(f)) /\ WF_fwdVars(HandleStart(f)) /\ WF_fwdVars(HandleStop(f))
     /\ WF_fwdVars(AnswerOk(f)) /\ WF_fwdVars(AnswerRefused(f))
     /\ WF_fwdVars(PollAlive(f)) /\ WF_fwdVars(AnswerPoll(f)) /\ WF_fwdVars(PollAnswered(f))
     /\ WF_fwdVars(Admit(f)) /\ WF_fwdVars(request[f] = "waiting" /\ OpenFails(f))

FwdSpec == FwdInit /\ [][FwdNext]_fwdVars /\ FwdFairness

--------------------------------------------------------------------------
(* Properties                                                              *)

Settled(f) == /\ asked[f] = {} /\ events[f] = <<>>
              /\ request[f] \in {"none", "done"} /\ stopping[f] # "sent"

\* When nothing is on its way, exactly the active rows are polled, and a tunnel
\* that is up has its active row, by which it can be stopped: unless its stop
\* came before its start, or its start was sent twice.
RowsShowTunnels ==
  \A f \in Forwards : Settled(f) =>
     /\ row[f] = "active" <=> f \in timer
     /\ entry[f] # "none" => row[f] = "active" \/ f \in resent \cup overtaken

\* A row does not stay at "starting", nor at "active" over a tunnel that is gone.
RowsSettle ==
  \A f \in Forwards :
     /\ row[f] = "starting" ~> row[f] # "starting"
     /\ (row[f] = "active" /\ entry[f] = "none") ~> row[f] # "active"

\* What the rows say of the tunnels behind them.
PathTrue == FwdTypeOK /\ RowsShowTunnels
=============================================================================
