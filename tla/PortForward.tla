---------------------------- MODULE PortForward ----------------------------
(***************************************************************************)
(* The sidecar's port-forward manager: StartForward, the goroutine that    *)
(* runs the tunnel, StopForward, and StopAll / UpdateClients, which a      *)
(* context switch calls one after the other.                               *)
(*                                                                         *)
(* A call of StartForward stands for its ForwardRequest too: the request's *)
(* StopCh is closed when the call is in `closed'.  The tunnel itself is    *)
(* client-go's ForwardPorts, known here by when it signals ready, fails    *)
(* and returns.                                                            *)
(***************************************************************************)
EXTENDS Naturals, FiniteSets

CONSTANTS
  Ids,        \* tunnel ids
  Calls,      \* calls of StartForward; each is made at most once
  Switchers,  \* context switches that may be under way at the same time
  Contexts,
  UniqueIds,  \* TRUE if a caller never starts two forwards under one id
  Nil

ASSUME ConstantsAssumption ==
  /\ UniqueIds \in BOOLEAN
  /\ Nil \notin Calls \cup Ids \cup Contexts

VARIABLES
  forwards,   \* Forwards: the request registered under an id, or Nil
  config,     \* Config: the context whose REST config is installed, or Nil
  stopped,    \* stopped
  closed,     \* requests whose StopCh is closed
  pc,         \* StartForward: "idle", "waiting", "ok", "failed", "refused"
  idOf,       \* the id a call was made with
  configOf,   \* the config a request snapshotted
  tunnel,     \* "none", "dialing", "up", "broken" (failed before it was up),
              \* "ended" (was up), "gone" (its goroutine has cleaned up)
  wasReady,   \* requests whose ReadyCh is closed
  switching   \* switches between StopAll and UpdateClients

managerVars == <<forwards, config, stopped, closed>>
callVars    == <<pc, idOf, configOf>>
tunnelVars  == <<tunnel, wasReady>>
vars == <<managerVars, callVars, tunnelVars, switching>>

CallStates   == {"idle", "waiting", "ok", "failed", "refused"}
TunnelStates == {"none", "dialing", "up", "broken", "ended", "gone"}

Live(r) == tunnel[r] \in {"dialing", "up"}

Registered == {id \in Ids : forwards[id] # Nil}

-----------------------------------------------------------------------------
(* Slips: an operator or action below as a plausible mistake would have    *)
(* it.  No specification uses them.                                        *)

\* Stops close every channel asked for, registered or not.
SlipCloseMissing(ids) ==
  /\ closed' = closed \cup {forwards[id] : id \in ids}
  /\ forwards' = [id \in Ids |-> IF id \in ids THEN Nil ELSE forwards[id]]

\* Stops leave the entry for the goroutine to delete.
SlipCloseOnly(ids) ==
  /\ closed' = closed \cup {forwards[id] : id \in ids \cap Registered}
  /\ UNCHANGED forwards

\* StartForward does not test the gate of a context switch.
SlipUngated(id) == config = Nil \/ forwards[id] # Nil

\* The time-out arm forgets the entry without closing its channel.
SlipTimeoutKeepsTunnel(r) ==
  /\ pc[r] = "waiting"
  /\ pc' = [pc EXCEPT ![r] = "failed"]
  /\ forwards' = [forwards EXCEPT ![idOf[r]] = Nil]
  /\ UNCHANGED <<config, stopped, closed, idOf, configOf, tunnelVars, switching>>

\* The goroutine cleans up only after a failed dial.
SlipCleanUpBroken(r) ==
  /\ tunnel[r] \in {"broken", "ended"}
  /\ tunnel' = [tunnel EXCEPT ![r] = "gone"]
  /\ forwards' = IF forwards[idOf[r]] = r /\ tunnel[r] = "broken"
                 THEN [forwards EXCEPT ![idOf[r]] = Nil] ELSE forwards
  /\ UNCHANGED <<config, stopped, closed, callVars, wasReady, switching>>

-----------------------------------------------------------------------------
\* Close the channels of what is registered under these ids and forget them.
CloseAndDelete(ids) ==
  /\ closed' = closed \cup {forwards[id] : id \in ids \cap Registered}
  /\ forwards' = [id \in Ids |-> IF id \in ids THEN Nil ELSE forwards[id]]

-----------------------------------------------------------------------------
Init ==
  /\ forwards = [id \in Ids |-> Nil]
  /\ config = Nil
  /\ stopped = FALSE
  /\ closed = {}
  /\ pc = [r \in Calls |-> "idle"]
  /\ idOf = [r \in Calls |-> Nil]
  /\ configOf = [r \in Calls |-> Nil]
  /\ tunnel = [r \in Calls |-> "none"]
  /\ wasReady = {}
  /\ switching = {}

-----------------------------------------------------------------------------
(* StartForward.                                                           *)

Admissible(r, id) ==
  /\ pc[r] = "idle"
  /\ UniqueIds => \A q \in Calls : idOf[q] # id

Refused(id) == stopped \/ config = Nil \/ forwards[id] # Nil

RefuseForward(r, id) ==
  /\ Admissible(r, id) /\ Refused(id)
  /\ pc' = [pc EXCEPT ![r] = "refused"]
  /\ idOf' = [idOf EXCEPT ![r] = id]
  /\ UNCHANGED <<managerVars, configOf, tunnelVars, switching>>

StartForward(r, id) ==
  /\ Admissible(r, id) /\ ~Refused(id)
  /\ pc' = [pc EXCEPT ![r] = "waiting"]
  /\ idOf' = [idOf EXCEPT ![r] = id]
  /\ configOf' = [configOf EXCEPT ![r] = config]
  /\ forwards' = [forwards EXCEPT ![id] = r]
  /\ tunnel' = [tunnel EXCEPT ![r] = "dialing"]
  /\ UNCHANGED <<config, stopped, closed, wasReady, switching>>

\* The three arms of the select StartForward blocks in.
ReturnReady(r) ==
  /\ pc[r] = "waiting" /\ r \in wasReady
  /\ pc' = [pc EXCEPT ![r] = "ok"]
  /\ UNCHANGED <<managerVars, idOf, configOf, tunnelVars, switching>>

ErrorSent(r) == r \notin wasReady /\ tunnel[r] \in {"broken", "gone"}

\* The entry under the id is deleted, whichever request it is.
ReturnError(r) ==
  /\ pc[r] = "waiting" /\ ErrorSent(r)
  /\ pc' = [pc EXCEPT ![r] = "failed"]
  /\ forwards' = [forwards EXCEPT ![idOf[r]] = Nil]
  /\ UNCHANGED <<config, stopped, closed, idOf, configOf, tunnelVars, switching>>

\* The timer may win whatever the other arms offer.
ReturnTimeout(r) ==
  /\ pc[r] = "waiting"
  /\ pc' = [pc EXCEPT ![r] = "failed"]
  /\ CloseAndDelete({idOf[r]})
  /\ UNCHANGED <<config, stopped, idOf, configOf, tunnelVars, switching>>

-----------------------------------------------------------------------------
(* The tunnel (client-go) and the goroutine around it.                     *)

\* A stop is noticed only once the tunnel listens.
TunnelUp(r) ==
  /\ tunnel[r] = "dialing"
  /\ tunnel' = [tunnel EXCEPT ![r] = "up"]
  /\ wasReady' = wasReady \cup {r}
  /\ UNCHANGED <<managerVars, callVars, switching>>

TunnelFails(r) ==
  /\ tunnel[r] = "dialing"
  /\ tunnel' = [tunnel EXCEPT ![r] = "broken"]
  /\ UNCHANGED <<managerVars, callVars, wasReady, switching>>

\* Its stop channel was closed, or the pod's connection was lost.
TunnelEnds(r) ==
  /\ tunnel[r] = "up"
  /\ tunnel' = [tunnel EXCEPT ![r] = "ended"]
  /\ UNCHANGED <<managerVars, callVars, wasReady, switching>>

CleanUp(r) ==
  /\ tunnel[r] \in {"broken", "ended"}
  /\ tunnel' = [tunnel EXCEPT ![r] = "gone"]
  /\ forwards' = IF forwards[idOf[r]] = r THEN [forwards EXCEPT ![idOf[r]] = Nil]
                                          ELSE forwards
  /\ UNCHANGED <<config, stopped, closed, callVars, wasReady, switching>>

-----------------------------------------------------------------------------
(* Stops and context switches.                                             *)

StopForward(id) ==
  /\ forwards[id] # Nil
  /\ CloseAndDelete({id})
  /\ UNCHANGED <<config, stopped, callVars, tunnelVars, switching>>

StopAll(s) ==
  /\ s \notin switching
  /\ switching' = switching \cup {s}
  /\ stopped' = TRUE
  /\ CloseAndDelete(Ids)
  /\ UNCHANGED <<config, callVars, tunnelVars>>

UpdateClients(s, c) ==
  /\ s \in switching
  /\ switching' = switching \ {s}
  /\ config' = c /\ stopped' = FALSE
  /\ UNCHANGED <<forwards, closed, callVars, tunnelVars>>

\* main() installs the first clients without a StopAll.
FirstClients(c) ==
  /\ config = Nil /\ switching = {}
  /\ config' = c /\ stopped' = FALSE
  /\ UNCHANGED <<forwards, closed, callVars, tunnelVars, switching>>

-----------------------------------------------------------------------------
Tunnel(r) == TunnelUp(r) \/ TunnelFails(r) \/ TunnelEnds(r) \/ CleanUp(r)
Return(r) == ReturnReady(r) \/ ReturnError(r) \/ ReturnTimeout(r)

Next ==
  \/ \E r \in Calls : \/ \E id \in Ids : StartForward(r, id) \/ RefuseForward(r, id)
                      \/ Return(r) \/ Tunnel(r)
  \/ \E id \in Ids : StopForward(id)
  \/ \E s \in Switchers : StopAll(s) \/ \E c \in Contexts : UpdateClients(s, c)
  \/ \E c \in Contexts : FirstClients(c)

Spec == Init /\ [][Next]_vars

\* The select has a timer, and a goroutine whose tunnel has returned runs.
\* Nothing is assumed of the dial, of a tunnel that is up, or of the user.
Fairness == \A r \in Calls : WF_vars(Return(r)) /\ WF_vars(CleanUp(r))

FairSpec == Spec /\ Fairness

-----------------------------------------------------------------------------
TypeOK ==
  /\ forwards \in [Ids -> Calls \cup {Nil}]
  /\ config \in Contexts \cup {Nil}
  /\ stopped \in BOOLEAN
  /\ closed \subseteq Calls
  /\ pc \in [Calls -> CallStates]
  /\ idOf \in [Calls -> Ids \cup {Nil}]
  /\ configOf \in [Calls -> Contexts \cup {Nil}]
  /\ tunnel \in [Calls -> TunnelStates]
  /\ wasReady \subseteq Calls
  /\ switching \subseteq Switchers

\* A registered request has an open stop channel: no order of stops, time-outs
\* and context switches closes a channel twice, which would panic the sidecar.
EntriesOpen == \A id \in Registered : forwards[id] \notin closed

\* Every tunnel that has not been told to stop is registered, so StopForward
\* and StopAll reach it: no tunnel of the old cluster outlives a switch.
LiveIsStoppable ==
  \A r \in Calls : Live(r) /\ r \notin closed => forwards[idOf[r]] = r

\* A registered tunnel uses the config installed now: none is started with the
\* credentials of the context being left.
EntryOnCurrentContext == \A id \in Registered : configOf[forwards[id]] = config

\* Between StopAll and UpdateClients of a lone switch nothing is registered.
GateHolds == stopped => Registered = {}

\* The entry of a tunnel that has ended by itself goes away, so the poll of
\* /portforward/alive, which only looks at the map, reports it.
DeadForwardReported ==
  \A id \in Ids, r \in Calls :
    (forwards[id] = r /\ tunnel[r] \in {"broken", "ended"}) ~> (forwards[id] # r)

=============================================================================
